--------------------------- MODULE RaftSafetyProofs ---------------------------
(***************************************************************************)
(* What Raft commits: that leaders have it, that a majority holds it, that *)
(* no node loses it, and that all apply it in one order, in the executions *)
(* in which no answer is counted in a later term than it was asked for in. *)
(***************************************************************************)
EXTENDS RaftAckProofs

-----------------------------------------------------------------------------
(* What is committed *)

\* A majority acknowledged the log of the leader of term T up to an entry of that
\* term, at c or after it.
CommittedUpTo(F, A, T, c) ==
    /\ Elected(elections, T)
    /\ \E j \in Nat :
          /\ j >= c /\ Has(F[T], T, j)
          /\ \E Q \in SUBSET Server :
                Cardinality(Q) >= Majority /\ \A q \in Q : A[q][T] >= j

\* What the leader of the term it was committed in has, up to every position.
ChosenIn(F, A, ch) ==
    \A i \in 1 .. Len(ch) :
        /\ CommittedUpTo(F, A, ch[i].at, i)
        /\ \A k \in 1 .. i : F[ch[i].at][k] = ch[k].entry

\* All that is known of the logs of leaders and of what was acknowledged.
LogsKnown(F, A) == TypeOK /\ Fits(F) /\ AckInv(F, A)

ChosenType == Seq([entry : Entry, at : Nat])

\* A majority did not acknowledge what a majority did.
LEMMA NotNever ==
    ASSUME NEW A \in Acks, NEW T \in Nat, NEW j \in Nat, NeverAcked(A, T, j),
           NEW Q \in SUBSET Server, Cardinality(Q) >= Majority, \A q \in Q : A[q][T] >= j
    PROVE  FALSE
<1>1. PICK R \in SUBSET Server :
          Cardinality(R) >= Majority /\ \A q \in R : A[q][T] < j
    BY DEF NeverAcked
<1>2. PICK q : q \in Q \cap R
    BY <1>1, MajoritiesMeet
<1>3. A[q][T] \in Nat
    BY <1>2, AckTypes
<1>. QED
    BY <1>1, <1>2, <1>3

\* A leader has all that was committed in its term or before.
LEMMA UpToAgree ==
    \A F \in LeaderLogs, A \in Acks, T \in Nat, V \in Nat, c \in Nat :
        /\ LogsKnown(F, A) /\ CommittedUpTo(F, A, T, c)
        /\ Elected(elections, V) /\ T <= V
        => /\ c <= Len(F[V]) /\ c <= Len(F[T])
           /\ \A k \in 1 .. c : F[V][k] = F[T][k]
<1>. SUFFICES ASSUME NEW F \in LeaderLogs, NEW A \in Acks, NEW T \in Nat, NEW V \in Nat,
                     NEW c \in Nat, LogsKnown(F, A), CommittedUpTo(F, A, T, c),
                     Elected(elections, V), T <= V
              PROVE  /\ c <= Len(F[V]) /\ c <= Len(F[T])
                     /\ \A k \in 1 .. c : F[V][k] = F[T][k]
    OBVIOUS
<1>1. PICK j \in Nat :
          /\ j >= c /\ Has(F[T], T, j)
          /\ \E Q \in SUBSET Server :
                Cardinality(Q) >= Majority /\ \A q \in Q : A[q][T] >= j
    BY DEF CommittedUpTo
<1>2. PICK Q \in SUBSET Server : Cardinality(Q) >= Majority /\ \A q \in Q : A[q][T] >= j
    BY <1>1
<1>3. ~NeverAcked(A, T, j)
    BY <1>2, NotNever
<1>4. Has(F[V], T, j)
    <2>1. CASE T = V
        BY <1>1, <2>1
    <2>2. CASE T # V
        <3>1. T < V /\ Elected(elections, T)
            BY <2>2 DEF CommittedUpTo
        <3>2. LeadersSafe(F, A)
            BY DEF LogsKnown, AckInv
        <3>. QED
            BY <1>1, <1>3, <3>1, <3>2 DEF LeadersSafe, SafeIn
    <2>. QED
        BY <2>1, <2>2
<1>5. /\ F[T] \in Seq(Entry) /\ F[V] \in Seq(Entry)
      /\ Len(F[T]) \in Nat /\ Len(F[V]) \in Nat
    BY LenProperties DEF LeaderLogs
<1>6. LogFits(F, elections, F[T]) /\ LogFits(F, elections, F[V])
    BY DEF CommittedUpTo, LogsKnown, Fits
<1>7. /\ j \in 1 .. Len(F[V]) /\ j <= Len(F[T]) /\ F[V][j].term = F[T][j].term
    BY <1>1, <1>4, <1>5 DEF Has
<1>8. \A k \in 1 .. j : F[V][k] = F[T][k]
    BY <1>5, <1>6, <1>7, FittingLogsMatch
<1>. QED
    BY <1>1, <1>5, <1>7, <1>8

\* Whatever is committed twice is the same.
LEMMA ChosenAgree ==
    \A F \in LeaderLogs, A \in Acks, ch \in ChosenType, U \in Nat, c \in Nat :
        /\ LogsKnown(F, A) /\ ChosenIn(F, A, ch) /\ CommittedUpTo(F, A, U, c)
        => \A k \in 1 .. c : k <= Len(ch) => F[U][k] = ch[k].entry
<1>. SUFFICES ASSUME NEW F \in LeaderLogs, NEW A \in Acks, NEW ch \in ChosenType,
                     NEW U \in Nat, NEW c \in Nat, LogsKnown(F, A), ChosenIn(F, A, ch),
                     CommittedUpTo(F, A, U, c), NEW k \in 1 .. c, k <= Len(ch)
              PROVE  F[U][k] = ch[k].entry
    OBVIOUS
<1>1. Len(ch) \in Nat
    BY LenProperties DEF ChosenType
<1>2. k \in 1 .. Len(ch) /\ k \in Nat
    BY <1>1
<1>3. ch[k] \in [entry : Entry, at : Nat]
    BY <1>2, ElementOfSeq DEF ChosenType
<1>4. PICK T : T = ch[k].at
    OBVIOUS
<1>5. T \in Nat
    BY <1>3, <1>4
<1>6. CommittedUpTo(F, A, T, k) /\ F[T][k] = ch[k].entry
    BY <1>2, <1>4 DEF ChosenIn
<1>7. Elected(elections, T) /\ Elected(elections, U)
    BY <1>6 DEF CommittedUpTo
<1>8. CASE T <= U
    BY <1>2, <1>5, <1>6, <1>7, <1>8, UpToAgree
<1>9. CASE U <= T
    BY <1>2, <1>5, <1>6, <1>7, <1>9, UpToAgree
<1>. QED
    BY <1>5, <1>8, <1>9

\* What a leader has of what was committed in its term or before.
LEMMA LeaderHas ==
    \A F \in LeaderLogs, A \in Acks, ch \in ChosenType, T \in Nat, V \in Nat, c \in Nat :
        /\ LogsKnown(F, A) /\ ChosenIn(F, A, ch) /\ c <= Len(ch)
        /\ CommittedUpTo(F, A, T, c) /\ Elected(elections, V) /\ T <= V
        => c <= Len(F[V]) /\ \A k \in 1 .. c : F[V][k] = ch[k].entry
<1>. SUFFICES ASSUME NEW F \in LeaderLogs, NEW A \in Acks, NEW ch \in ChosenType,
                     NEW T \in Nat, NEW V \in Nat, NEW c \in Nat,
                     LogsKnown(F, A), ChosenIn(F, A, ch), c <= Len(ch),
                     CommittedUpTo(F, A, T, c), Elected(elections, V), T <= V
              PROVE  c <= Len(F[V]) /\ \A k \in 1 .. c : F[V][k] = ch[k].entry
    OBVIOUS
<1>1. /\ c <= Len(F[V]) /\ c <= Len(F[T])
      /\ \A k \in 1 .. c : F[V][k] = F[T][k]
    BY UpToAgree, ZenonT(60)
<1>2. \A k \in 1 .. c : k <= Len(ch) => F[T][k] = ch[k].entry
    BY ChosenAgree
<1>3. Len(ch) \in Nat
    BY LenProperties DEF ChosenType
<1>. QED
    BY <1>1, <1>2, <1>3, SMTT(60)

LEMMA ChosenAgreeNext ==
    (\A F \in LeaderLogs, A \in Acks, ch \in ChosenType, U \in Nat, c \in Nat :
        /\ LogsKnown(F, A) /\ ChosenIn(F, A, ch) /\ CommittedUpTo(F, A, U, c)
        => \A k \in 1 .. c : k <= Len(ch) => F[U][k] = ch[k].entry)'
BY ChosenAgree, PTL

\* A leader of a later term has it.
LEMMA ChosenComplete ==
    ASSUME ElectionInv, NEW F \in LeaderLogs, NEW A \in Acks,
           LogsKnown(F, A), ChosenIn(F, A, chosen)
    PROVE  LeaderCompleteness
<1>1. chosen \in ChosenType
    BY DEF LogsKnown, TypeOK, LogTypeOK, ChosenType
<1>2. DOMAIN chosen = 1 .. Len(chosen) /\ Len(chosen) \in Nat
    BY <1>1, LenProperties DEF ChosenType
<1>. SUFFICES ASSUME NEW s \in Server, role[s] = Leader, NEW i \in 1 .. Len(chosen),
                     chosen[i].at <= current_term[s]
              PROVE  i <= Len(log[s]) /\ log[s][i] = chosen[i].entry
    BY <1>2 DEF LeaderCompleteness
<1>3. /\ log[s] = F[current_term[s]] /\ Elected(elections, current_term[s])
      /\ current_term[s] \in Nat
    BY DEF LogsKnown, Fits, ElectionInv, LeadersAreElected, Elected, TypeOK, ElectionTypeOK
<1>4. chosen[i].at \in Nat
    <2>1. chosen[i] \in [entry : Entry, at : Nat]
        BY <1>1, ElementOfSeq DEF ChosenType
    <2>. QED
        BY <2>1
<1>5. CommittedUpTo(F, A, chosen[i].at, i)
    BY DEF ChosenIn
<1>6. i \in Nat /\ i <= Len(chosen) /\ i \in 1 .. i
    BY <1>2
<1>7. i <= Len(F[current_term[s]])
      /\ \A k \in 1 .. i : F[current_term[s]][k] = chosen[k].entry
    BY <1>1, <1>3, <1>4, <1>5, <1>6, LeaderHas
<1>. QED
    BY <1>3, <1>6, <1>7

\* Who acknowledged it still has it.
LEMMA ChosenHeld ==
    ASSUME NEW F \in LeaderLogs, NEW A \in Acks,
           LogsKnown(F, A), ChosenIn(F, A, chosen)
    PROVE  ChosenOnMajority
<1>1. chosen \in ChosenType /\ log \in [Server -> Seq(Entry)]
    BY DEF LogsKnown, TypeOK, LogTypeOK, ChosenType
<1>2. DOMAIN chosen = 1 .. Len(chosen) /\ Len(chosen) \in Nat
    BY <1>1, LenProperties DEF ChosenType
<1>. SUFFICES ASSUME NEW i \in 1 .. Len(chosen)
              PROVE  Cardinality({s \in Server : i <= Len(log[s])
                                      /\ log[s][i] = chosen[i].entry}) >= Majority
    BY <1>2 DEF ChosenOnMajority
<1>3. PICK T : T = chosen[i].at
    OBVIOUS
<1>4. T \in Nat
    <2>1. chosen[i] \in [entry : Entry, at : Nat]
        BY <1>1, ElementOfSeq DEF ChosenType
    <2>. QED
        BY <1>3, <2>1
<1>5. CommittedUpTo(F, A, T, i) /\ F[T][i] = chosen[i].entry /\ i \in 1 .. i
    BY <1>3 DEF ChosenIn
<1>6. PICK j \in Nat :
          /\ j >= i /\ Has(F[T], T, j)
          /\ \E Q \in SUBSET Server :
                Cardinality(Q) >= Majority /\ \A q \in Q : A[q][T] >= j
    BY <1>5 DEF CommittedUpTo
<1>7. PICK Q \in SUBSET Server : Cardinality(Q) >= Majority /\ \A q \in Q : A[q][T] >= j
    BY <1>6
<1>8. ~NeverAcked(A, T, j)
    BY <1>4, <1>7, NotNever
<1>9. LogFits(F, elections, F[T]) /\ F[T] \in Seq(Entry) /\ Len(F[T]) \in Nat
    BY <1>4, <1>5, LenProperties DEF CommittedUpTo, LogsKnown, Fits, LeaderLogs
<1>10. ASSUME NEW q \in Q
       PROVE  i <= Len(log[q]) /\ log[q][i] = chosen[i].entry
    <2>1. q \in Server /\ log[q] \in Seq(Entry) /\ Len(log[q]) \in Nat
        BY <1>1, LenProperties
    <2>2. A[q][T] \in Nat /\ j <= A[q][T]
        BY <1>4, <1>7, <2>1, AckTypes
    <2>3. Has(log[q], T, j)
        <3>1. LogsSafe(F, A)
            BY DEF LogsKnown, AckInv
        <3>. QED
            BY <1>4, <1>6, <1>8, <2>1, <2>2, <3>1 DEF LogsSafe, SafeIn
    <2>4. j \in 1 .. Len(log[q]) /\ j <= Len(F[T]) /\ log[q][j].term = F[T][j].term
        BY <1>6, <2>3 DEF Has
    <2>5. LogFits(F, elections, log[q])
        BY <2>1 DEF LogsKnown, Fits
    <2>6. \A k \in 1 .. j : log[q][k] = F[T][k]
        BY <1>9, <2>1, <2>4, <2>5, FittingLogsMatch
    <2>. QED
        BY <1>5, <1>6, <2>1, <2>4, <2>6
<1>. DEFINE H == {s \in Server : i <= Len(log[s]) /\ log[s][i] = chosen[i].entry}
<1>11. Q \subseteq H /\ H \subseteq Server
    BY <1>10
<1>12. IsFiniteSet(H) /\ Cardinality(Q) <= Cardinality(H)
       /\ Cardinality(Q) \in Nat /\ Cardinality(H) \in Nat
    BY <1>11, ClusterAssumption, FS_Subset, FS_CardinalityType
<1>. HIDE DEF H
<1>13. Majority \in Nat
    BY ClusterAssumption, FS_CardinalityType DEF Majority
<1>14. Cardinality(H) >= Majority
    BY <1>7, <1>12, <1>13
<1>. QED
    BY <1>14 DEF H

-----------------------------------------------------------------------------
(* What nodes know to be committed *)

\* Position c is committed, in term U or before.
Known(F, A, U, c) ==
    /\ c <= Len(chosen)
    /\ c = 0 \/ \E T \in Nat : T <= U /\ CommittedUpTo(F, A, T, c)

\* The commit index of a request is one its leader knew, and does not go beyond
\* what a node has that takes the request. A request that names a position
\* beyond the leader's log (next_index came from a longer log) nobody takes.
RequestKnown(F, A, m) ==
    /\ Known(F, A, m.term, m.leader_commit)
    /\ m.prev_log_index # 0 /\ m.prev_log_term # 0 =>
          /\ m.prev_log_index <= Len(F[m.term])
          /\ m.prev_log_term = F[m.term][m.prev_log_index].term
    /\ m.prev_log_index = 0 \/ m.prev_log_term # 0 =>
          /\ m.leader_commit <= m.prev_log_index + Len(m.entries)
          /\ m.prev_log_index + Len(m.entries) <= Len(F[m.term])

RequestsKnown(F, A) == \A m \in Requests : RequestKnown(F, A, m)

\* What a node takes for committed it has, and it applied just that.
Holds(lg, ap, c, ch) ==
    /\ c <= Len(lg) /\ Len(ap) = c
    /\ \A k \in 1 .. c : lg[k] = ch[k].entry /\ ap[k] = ch[k].entry

CommitsKnown(F, A) ==
    \A s \in Server :
        /\ Known(F, A, current_term[s], commit_index[s])
        /\ Holds(log[s], applied[s], commit_index[s], chosen)

CommitInv(F, A) ==
    /\ ChosenIn(F, A, chosen)
    /\ RequestsKnown(F, A)
    /\ CommitsKnown(F, A)

\* Nothing committed is replaced.
ChosenKept ==
    /\ Len(chosen) <= Len(chosen')
    /\ \A i \in 1 .. Len(chosen) : chosen'[i] = chosen[i]

\* A step of the logs of leaders and of what is acknowledged.
Grown(F, A, G, B) ==
    /\ TypeOK /\ TypeOK' /\ elections \subseteq elections'
    /\ LogsGrow(F, G) /\ AcksGrow(A, B)

LEMMA UpToGrows ==
    ASSUME NEW F \in LeaderLogs, NEW A \in Acks, NEW G \in LeaderLogs, NEW B \in Acks,
           Grown(F, A, G, B), NEW T \in Nat, NEW c \in Nat, CommittedUpTo(F, A, T, c)
    PROVE  /\ CommittedUpTo(G, B, T, c)'
           /\ \A k \in 1 .. c : G[T][k] = F[T][k]
<1>1. Elected(elections, T) /\ Elected(elections', T)
    BY DEF CommittedUpTo, Grown, Elected
<1>2. PICK j \in Nat :
          /\ j >= c /\ Has(F[T], T, j)
          /\ \E Q \in SUBSET Server :
                Cardinality(Q) >= Majority /\ \A q \in Q : A[q][T] >= j
    BY DEF CommittedUpTo
<1>3. PICK Q \in SUBSET Server : Cardinality(Q) >= Majority /\ \A q \in Q : A[q][T] >= j
    BY <1>2
<1>4. /\ F[T] \in Seq(Entry) /\ G[T] \in Seq(Entry)
      /\ Len(F[T]) \in Nat /\ Len(G[T]) \in Nat
    BY LenProperties DEF LeaderLogs
<1>5. Len(F[T]) <= Len(G[T]) /\ \A i \in 1 .. Len(F[T]) : G[T][i] = F[T][i]
    BY <1>1 DEF Grown, LogsGrow
<1>6. Has(G[T], T, j)
    BY <1>2, <1>4, <1>5, HasMore
<1>7. \A q \in Q : B[q][T] >= j
    <2>. SUFFICES ASSUME NEW q \in Q
                  PROVE  B[q][T] >= j
        OBVIOUS
    <2>1. A[q][T] \in Nat /\ B[q][T] \in Nat /\ A[q][T] <= B[q][T]
        BY AckTypes DEF Grown, AcksGrow
    <2>. QED
        BY <1>3, <2>1
<1>8. \A k \in 1 .. c : k \in 1 .. Len(F[T])
    BY <1>2, <1>4 DEF Has
<1>. QED
    BY <1>1, <1>2, <1>3, <1>5, <1>6, <1>7, <1>8 DEF CommittedUpTo

LEMMA ChosenInGrows ==
    ASSUME NEW F \in LeaderLogs, NEW A \in Acks, NEW G \in LeaderLogs, NEW B \in Acks,
           Grown(F, A, G, B), NEW ch \in ChosenType, ChosenIn(F, A, ch)
    PROVE  ChosenIn(G, B, ch)'
<1>. SUFFICES ASSUME NEW i \in 1 .. Len(ch)
              PROVE  /\ CommittedUpTo(G, B, ch[i].at, i)'
                     /\ \A k \in 1 .. i : G[ch[i].at][k] = ch[k].entry
    BY DEF ChosenIn
<1>1. ch[i] \in [entry : Entry, at : Nat] /\ Len(ch) \in Nat
    BY ElementOfSeq, LenProperties DEF ChosenType
<1>2. ch[i].at \in Nat /\ i \in Nat
    BY <1>1
<1>3. /\ CommittedUpTo(F, A, ch[i].at, i)
      /\ \A k \in 1 .. i : F[ch[i].at][k] = ch[k].entry
    BY DEF ChosenIn
<1>4. /\ CommittedUpTo(G, B, ch[i].at, i)'
      /\ \A k \in 1 .. i : G[ch[i].at][k] = F[ch[i].at][k]
    BY <1>2, <1>3, UpToGrows
<1>. QED
    BY <1>3, <1>4

LEMMA KnownGrows ==
    ASSUME NEW F \in LeaderLogs, NEW A \in Acks, NEW G \in LeaderLogs, NEW B \in Acks,
           Grown(F, A, G, B), ChosenKept,
           NEW U \in Nat, NEW V \in Nat, U <= V, NEW c \in Nat, Known(F, A, U, c)
    PROVE  Known(G, B, V, c)'
<1>1. Len(chosen) \in Nat /\ Len(chosen') \in Nat
    <2>1. chosen \in Seq([entry : Entry, at : Nat]) /\ chosen' \in Seq([entry : Entry, at : Nat])
        BY DEF Grown, TypeOK, LogTypeOK
    <2>. QED
        BY <2>1, LenProperties
<1>2. c <= Len(chosen')
    BY <1>1 DEF Known, ChosenKept
<1>3. CASE c = 0
    BY <1>2, <1>3 DEF Known
<1>4. CASE c # 0
    <2>1. PICK T \in Nat : T <= U /\ CommittedUpTo(F, A, T, c)
        BY <1>4 DEF Known
    <2>2. CommittedUpTo(G, B, T, c)' /\ T <= V
        BY <2>1, UpToGrows
    <2>. QED
        BY <1>2, <2>2 DEF Known
<1>. QED
    BY <1>3, <1>4

LEMMA RequestKnownGrows ==
    ASSUME NEW F \in LeaderLogs, NEW A \in Acks, NEW G \in LeaderLogs, NEW B \in Acks,
           Grown(F, A, G, B), ChosenKept,
           NEW m \in AppendMsg, RequestFits(F, elections, m), RequestKnown(F, A, m)
    PROVE  RequestKnown(G, B, m)'
<1>. PICK T : T = m.term
    OBVIOUS
<1>. PICK prev : prev = m.prev_log_index
    OBVIOUS
<1>. PICK n : n = prev + Len(m.entries)
    OBVIOUS
<1>1. /\ T \in Nat /\ prev \in Nat /\ n \in Nat /\ m.leader_commit \in Nat
      /\ Elected(elections, T)
    BY LenProperties DEF AppendMsg, RequestFits, Elected
<1>2. /\ F[T] \in Seq(Entry) /\ G[T] \in Seq(Entry)
      /\ Len(F[T]) \in Nat /\ Len(G[T]) \in Nat
    BY <1>1, LenProperties DEF LeaderLogs
<1>3. Len(F[T]) <= Len(G[T]) /\ \A i \in 1 .. Len(F[T]) : G[T][i] = F[T][i]
    BY <1>1 DEF Grown, LogsGrow
<1>4. Known(G, B, T, m.leader_commit)'
    <2>1. Known(F, A, T, m.leader_commit)
        BY DEF RequestKnown
    <2>. QED
        BY <1>1, <2>1, KnownGrows
<1>5. prev # 0 /\ m.prev_log_term # 0 =>
          /\ prev <= Len(G[T])
          /\ m.prev_log_term = G[T][prev].term
    <2>. SUFFICES ASSUME prev # 0, m.prev_log_term # 0
                  PROVE  prev <= Len(G[T]) /\ m.prev_log_term = G[T][prev].term
        OBVIOUS
    <2>1. prev <= Len(F[T]) /\ m.prev_log_term = F[T][prev].term
        BY DEF RequestKnown
    <2>2. prev \in 1 .. Len(F[T])
        BY <1>1, <1>2, <2>1
    <2>. QED
        BY <1>1, <1>2, <1>3, <2>1, <2>2
<1>6. prev = 0 \/ m.prev_log_term # 0 => m.leader_commit <= n /\ n <= Len(G[T])
    <2>1. prev = 0 \/ m.prev_log_term # 0 => m.leader_commit <= n /\ n <= Len(F[T])
        BY DEF RequestKnown
    <2>. QED
        BY <1>1, <1>2, <1>3, <2>1
<1>. QED
    BY <1>4, <1>5, <1>6 DEF RequestKnown

-----------------------------------------------------------------------------
(* Steps *)

\* Logs keep what they have.
LogsKept ==
    \A p \in Server :
        /\ Len(log[p]) <= Len(log'[p])
        /\ \A k \in 1 .. Len(log[p]) : log'[p][k] = log[p][k]

\* A round of leader s goes on: to a peer, or to _try_commit.
Round(s) ==
    /\ role[s] = Leader /\ role' = role /\ current_term' = current_term
    /\ leader_state'[s] \in LeaderStateType(s)
    /\ LogsKept
    /\ \/ /\ TryCommit(s, leader_state'[s], log'[s])
          /\ Requests' \subseteq Requests
       \/ /\ UNCHANGED <<commit_index, applied, chosen>>
          /\ \E d \in Others(s) : \A m \in Requests' :
                m \in Requests \/ m = AppendRequest(s, d, leader_state'[s], log'[s])

\* s forgets what it knew to be committed.
Forgets(s) ==
    /\ commit_index' = [commit_index EXCEPT ![s] = 0]
    /\ applied' = [applied EXCEPT ![s] = <<>>]
    /\ UNCHANGED log

LEMMA RoundContinues ==
    ASSUME TypeOK, NEW s \in Server, NEW t \in Sender, NEW k \in Nat,
           NEW ls \in LeaderStateType(s), NEW lg \in Seq(Entry),
           Continue(s, t, k, ls, lg), role[s] = Leader,
           leader_state'[s] = ls, log'[s] = lg, LogsKept,
           UNCHANGED <<current_term, role>>,
           DOMAIN stray' \cap AppendMsg \subseteq Requests
    PROVE  Round(s)
<1>1. CASE PeersAfter(s, k) # {}
    <2>. DEFINE j == NextPeer(s, k)
                req == AppendRequest(s, Cluster[j], ls, lg)
                w == [at |-> j, req |-> req, resp |-> Nil]
    <2>1. Cluster[j] \in Others(s)
        BY <1>1, NextPeerType
    <2>2. sender' = [sender EXCEPT ![s][t] = w] /\ w.req = req
        BY <1>1 DEF Continue
    <2>3. UNCHANGED <<commit_index, applied, chosen>>
        BY <1>1 DEF Continue
    <2>. HIDE DEF w
    <2>4. \A m \in Requests' : m \in Requests \/ m = req
        BY <2>2, TaskRequests
    <2>5. \E d \in Others(s) : \A m \in Requests' :
              m \in Requests \/ m = AppendRequest(s, d, leader_state'[s], log'[s])
        BY <2>1, <2>4
    <2>. QED
        BY <2>3, <2>5 DEF Round
<1>2. CASE PeersAfter(s, k) = {}
    <2>1. sender' = [sender EXCEPT ![s][t] = Nil] /\ TryCommit(s, ls, lg)
        BY <1>2 DEF Continue
    <2>2. Requests' \subseteq Requests
        BY <2>1, TaskRequests
    <2>. QED
        BY <2>1, <2>2 DEF Round
<1>. QED
    BY <1>1, <1>2

LEMMA SameLogsKept ==
    ASSUME TypeOK, UNCHANGED log
    PROVE  LogsKept
<1>1. \A p \in Server : Len(log[p]) \in Nat
    BY LenProperties DEF TypeOK, LogTypeOK
<1>. QED
    BY <1>1 DEF LogsKept

\* The steps in which a leader goes on with a round.
LEMMA RoundSteps ==
    ASSUME TypeOK, LeadersReady, OnlyLeadersReady, NEW s \in Server, NEW t \in Sender,
           \/ t = Heartbeat /\ SendHeartbeat(s)
           \/ AcceptReply(s, t) \/ RejectReply(s, t)
           \/ leader_state[s] # Nil /\ AppendRpcFails(s, t)
           \/ \E c \in Command : Propose(s, t, c)
    PROVE  Round(s)
<1>1. log[s] \in Seq(Entry) /\ log \in [Server -> Seq(Entry)]
    BY DEF TypeOK, LogTypeOK
<1>2. DOMAIN stray \cap AppendMsg \subseteq Requests
    BY DEF Requests
<1>3. CASE t = Heartbeat /\ SendHeartbeat(s)
    <2>1. role[s] = Leader /\ leader_state[s] \in LeaderStateType(s)
        BY <1>3 DEF SendHeartbeat, LeadersReady
    <2>2. /\ Continue(s, t, 0, leader_state[s], log[s])
          /\ UNCHANGED <<log, current_term, role, leader_state, stray>>
        BY <1>3 DEF SendHeartbeat, persistent
    <2>. QED
        BY <1>1, <1>2, <2>1, <2>2, SameLogsKept, RoundContinues
<1>4. CASE AcceptReply(s, t) \/ RejectReply(s, t)
    <2>1. /\ leader_state[s] # Nil /\ sender[s][t] # Nil
          /\ UNCHANGED <<log, current_term, role, stray>>
        BY <1>4 DEF AcceptReply, RejectReply, Answered, persistent
    <2>2. role[s] = Leader /\ sender[s][t].at \in Nat
        BY <2>1, WaitingTask, SMTT(60) DEF OnlyLeadersReady
    <2>3. leader_state'[s] \in LeaderStateType(s)
        BY <1>4, <2>2, TypeAcceptReply, TypeRejectReply, ZenonT(60)
           DEF LeadersReady, AcceptReply, RejectReply
    <2>4. PICK ls : /\ leader_state' = [leader_state EXCEPT ![s] = ls]
                    /\ Continue(s, t, sender[s][t].at, ls, log[s])
        BY <1>4 DEF AcceptReply, RejectReply
    <2>5. leader_state'[s] = ls /\ ls \in LeaderStateType(s)
        BY <2>3, <2>4 DEF TypeOK, TaskTypeOK
    <2>. QED
        BY <1>1, <1>2, <2>1, <2>2, <2>4, <2>5, SameLogsKept, RoundContinues, SMTT(60)
<1>5. CASE leader_state[s] # Nil /\ AppendRpcFails(s, t)
    <2>1. sender[s][t] # Nil
        BY <1>5 DEF AppendRpcFails
    <2>2. sender[s][t].req \in Requests /\ sender[s][t].at \in Nat
        BY <2>1, WaitingTask DEF Requests
    <2>3. DOMAIN stray' \cap AppendMsg \subseteq Requests
        <3>1. DOMAIN stray' \subseteq DOMAIN stray \cup {sender[s][t].req}
            BY <1>5, BagDomains DEF AppendRpcFails
        <3>. QED
            BY <1>2, <2>2, <3>1
    <2>4. role[s] = Leader /\ leader_state[s] \in LeaderStateType(s)
        BY <1>5 DEF OnlyLeadersReady, LeadersReady
    <2>5. /\ Continue(s, t, sender[s][t].at, leader_state[s], log[s])
          /\ UNCHANGED <<log, current_term, role, leader_state>>
        BY <1>5 DEF AppendRpcFails, persistent
    <2>. QED
        BY <1>1, <2>2, <2>3, <2>4, <2>5, SameLogsKept, RoundContinues
<1>6. ASSUME NEW c \in Command, Propose(s, t, c)
      PROVE  Round(s)
    <2>. PICK lg : lg = Append(log[s], [term |-> current_term[s], cmd |-> c])
        OBVIOUS
    <2>1. /\ role[s] = Leader
          /\ log' = [log EXCEPT ![s] = lg]
          /\ Continue(s, t, 0, leader_state[s], lg)
          /\ UNCHANGED <<current_term, role, leader_state, stray>>
        BY <1>6 DEF Propose
    <2>2. leader_state[s] \in LeaderStateType(s)
        BY <2>1 DEF LeadersReady
    <2>3. /\ lg \in Seq(Entry)
          /\ Len(lg) = Len(log[s]) + 1 /\ Len(log[s]) \in Nat
          /\ \A i \in 1 .. Len(log[s]) : lg[i] = log[s][i]
        <3>1. [term |-> current_term[s], cmd |-> c] \in Entry
            BY DEF TypeOK, ElectionTypeOK, Entry
        <3>. QED
            BY <1>1, <3>1, AppendKeeps
    <2>4. LogsKept
        <3>1. \A p \in Server : Len(log[p]) \in Nat
            BY <1>1, LenProperties
        <3>2. log'[s] = lg /\ \A p \in Server \ {s} : log'[p] = log[p]
            BY <1>1, <2>1
        <3>3. ASSUME NEW p \in Server
              PROVE  /\ Len(log[p]) <= Len(log'[p])
                     /\ \A k \in 1 .. Len(log[p]) : log'[p][k] = log[p][k]
            <4>1. CASE p = s
                BY <2>3, <3>2, <4>1
            <4>2. CASE p # s
                BY <3>1, <3>2, <4>2
            <4>. QED
                BY <4>1, <4>2
        <3>. QED
            BY <3>3 DEF LogsKept
    <2>5. log'[s] = lg
        BY <1>1, <2>1
    <2>. QED
        BY <1>2, <2>1, <2>2, <2>3, <2>4, <2>5, RoundContinues
<1>. QED
    BY <1>3, <1>4, <1>5, <1>6

\* What a step does to logs and commit indexes.
LEMMA StepKinds ==
    ASSUME TypeOK, LeadersReady, OnlyLeadersReady, [Next]_vars
    PROVE  \/ \E s \in Server : Round(s)
           \/ /\ Requests' \subseteq Requests /\ chosen' = chosen
              /\ \/ UNCHANGED <<log, commit_index, applied>>
                 \/ \E s \in Server : Forgets(s)
                 \/ \E m \in Requests : FollowLeader(m)
<1>. DEFINE Rest == /\ Requests' \subseteq Requests /\ chosen' = chosen
                    /\ \/ UNCHANGED <<log, commit_index, applied>>
                       \/ \E s \in Server : Forgets(s)
                       \/ \E m \in Requests : FollowLeader(m)
<1>1. ASSUME NEW s \in Server, NEW p \in Server, NEW t \in Sender,
             \/ StartElection(s) \/ BecomeLeader(s) \/ LoseElection(s)
             \/ AnswerVote(s, p) \/ VoteRpcFails(s, p)
             \/ StepDownOnReply(s, t) \/ AbandonRound(s, t)
      PROVE  Rest
    <2>1. Requests' \subseteq Requests
        BY <1>1, RequestsKept
    <2>2. UNCHANGED <<chosen, log, commit_index, applied>>
        BY <1>1 DEF StartElection, BecomeLeader, LoseElection, AnswerVote, HandleRequestVote,
           VoteRpcFails, StepDownOnReply, AbandonRound, persistent, volatile, history
    <2>. QED
        BY <2>1, <2>2
<1>2. ASSUME NEW m \in BagToSet(stray), AnswerStrayVote(m)
      PROVE  Rest
    <2>1. Requests' \subseteq Requests
        BY <1>2, RequestsKept
    <2>2. UNCHANGED <<chosen, log, commit_index, applied>>
        BY <1>2 DEF AnswerStrayVote, HandleRequestVote
    <2>. QED
        BY <2>1, <2>2
<1>3. CASE Reboots
    <2>1. Requests' \subseteq Requests
        BY <1>3, RequestsKept
    <2>2. PICK s \in Server, term \in Nat, vote \in Server \cup {Nil} :
              Rebooted(s, term, vote)
        BY <1>3, RebootsFacts
    <2>3. chosen' = chosen /\ Forgets(s)
        BY <2>2 DEF Rebooted, Forgets
    <2>. QED
        BY <2>1, <2>3
<1>5. ASSUME NEW s \in Server, NEW t \in Sender, AnswerAppend(s, t)
      PROVE  Rest
    <2>1. Requests' \subseteq Requests
        BY <1>5, RequestsKept
    <2>2. sender[s][t].req \in Requests
        BY <1>5, WaitingTask DEF AnswerAppend, Outstanding, Requests
    <2>3. HandleAppendEntries(sender[s][t].req) /\ chosen' = chosen
        BY <1>5 DEF AnswerAppend, history
    <2>. QED
        BY <2>1, <2>2, <2>3 DEF HandleAppendEntries, RefuseOldLeader, persistent, volatile
<1>6. ASSUME NEW m \in BagToSet(stray), AnswerStrayAppend(m)
      PROVE  Rest
    <2>1. Requests' \subseteq Requests
        BY <1>6, RequestsKept
    <2>2. m \in Requests
        BY <1>6 DEF AnswerStrayAppend, Requests, TypeOK, TaskTypeOK, BagToSet,
                    VoteMsg, AppendMsg
    <2>3. HandleAppendEntries(m) /\ chosen' = chosen
        BY <1>6 DEF AnswerStrayAppend, history
    <2>. QED
        BY <2>1, <2>2, <2>3 DEF HandleAppendEntries, RefuseOldLeader, persistent, volatile
<1>7. ASSUME NEW s \in Server, NEW t \in Sender, leader_state[s] = Nil, AppendRpcFails(s, t)
      PROVE  Rest
    <2>1. sender' = [sender EXCEPT ![s][t] = Nil] /\ sender[s][t] # Nil
        BY <1>7 DEF AppendRpcFails
    <2>2. UNCHANGED <<chosen, log, commit_index, applied>>
        BY <1>7 DEF AppendRpcFails, persistent
    <2>3. sender[s][t].req \in Requests
        BY <2>1, WaitingTask DEF Requests
    <2>4. DOMAIN stray \cap AppendMsg \subseteq Requests
        BY DEF Requests
    <2>5. DOMAIN stray' \subseteq DOMAIN stray \cup {sender[s][t].req}
        BY <1>7, BagDomains DEF AppendRpcFails
    <2>6. Requests' \subseteq Requests
        BY <2>1, <2>3, <2>4, <2>5, TaskRequests
    <2>. QED
        BY <2>2, <2>6
<1>8. CASE UNCHANGED vars
    BY <1>8 DEF vars, persistent, volatile, history, Requests
<1>. HIDE DEF Rest
<1>9. ASSUME NEW s \in Server, NEW t \in Sender,
             \/ t = Heartbeat /\ SendHeartbeat(s)
             \/ AcceptReply(s, t) \/ RejectReply(s, t) \/ AppendRpcFails(s, t)
             \/ \E c \in Command : Propose(s, t, c)
      PROVE  Rest \/ Round(s)
    BY <1>7, <1>9, RoundSteps
<1>10. Heartbeat \in Sender
    BY DEF Sender
<1>11. CASE \E s \in Server : \/ StartElection(s) \/ BecomeLeader(s) \/ LoseElection(s)
                                \/ SendHeartbeat(s)
    BY <1>1, <1>9, <1>10, <1>11 DEF Rest
<1>12. CASE \E s, p \in Server : AnswerVote(s, p) \/ VoteRpcFails(s, p)
    BY <1>1, <1>10, <1>12 DEF Rest
<1>13. CASE \E s \in Server, t \in Sender :
               \/ \E c \in Command : Propose(s, t, c)
               \/ AcceptReply(s, t) \/ RejectReply(s, t) \/ AppendRpcFails(s, t)
    BY <1>9, <1>13 DEF Rest
<1>14. CASE \E s \in Server, t \in Sender :
               StepDownOnReply(s, t) \/ AbandonRound(s, t) \/ AnswerAppend(s, t)
    BY <1>1, <1>5, <1>14 DEF Rest
<1>15. CASE \E m \in BagToSet(stray) :
               AnswerStrayVote(m) \/ AnswerStrayAppend(m)
    BY <1>2, <1>6, <1>15 DEF Rest
<1>16. CASE UNCHANGED vars
    BY <1>8, <1>16 DEF Rest
<1>17. CASE Reboots
    BY <1>3, <1>17 DEF Rest
<1>. QED
    BY <1>11, <1>12, <1>13, <1>14, <1>15, <1>16, <1>17 DEF Next, Reboots, Crashes

LEMMA ConcatIs ==
    ASSUME NEW a \in Seq(Entry), NEW b \in Seq(Entry)
    PROVE  /\ Len(a \o b) = Len(a) + Len(b)
           /\ \A i \in 1 .. Len(a) + Len(b) : (a \o b)[i] =
                 IF i <= Len(a) THEN a[i] ELSE b[i - Len(a)]
BY ConcatProperties, SMTT(60)

\* What _apply_committed hands over when it goes on to position n.
LEMMA ApplyHolds ==
    ASSUME TypeOK, NEW s \in Server, NEW n \in Nat, NEW lg \in Seq(Entry), Apply(s, n, lg),
           NEW c \in Nat, Len(applied[s]) = c, c <= n, n <= Len(lg)
    PROVE  /\ Len(applied'[s]) = n
           /\ \A k \in 1 .. c : applied'[s][k] = applied[s][k]
           /\ \A k \in c + 1 .. n : applied'[s][k] = lg[k]
           /\ \A p \in Server \ {s} : applied'[p] = applied[p]
<1>. PICK ap : ap = applied[s]
    OBVIOUS
<1>. PICK new : new = SubSeq(lg, c + 1, n)
    OBVIOUS
<1>1. ap \in Seq(Entry) /\ applied \in [Server -> Seq(Entry)] /\ Len(lg) \in Nat
    BY LenProperties DEF TypeOK, LogTypeOK
<1>2. Min2(n, Len(lg)) = n
    BY <1>1 DEF Min2
<1>3. /\ applied'[s] = ap \o new
      /\ \A p \in Server \ {s} : applied'[p] = applied[p]
    BY <1>1, <1>2 DEF Apply
<1>4. CASE c < n
    <2>1. /\ new \in Seq(Entry) /\ Len(new) = n - c
          /\ \A i \in 1 .. n - c : new[i] = lg[c + i]
        <3>1. /\ new \in Seq(Entry)
              /\ Len(new) = IF c + 1 <= n THEN n - (c + 1) + 1 ELSE 0
              /\ \A i \in 1 .. n - (c + 1) + 1 : new[i] = lg[(c + 1) + i - 1]
            <4>1. \A i \in c + 1 .. n : lg[i] \in Entry
                BY <1>1, ElementOfSeq
            <4>. QED
                BY <1>1, <4>1, SubSeqProperties
        <3>. QED
            BY <1>4, <3>1
    <2>2. PICK all : all = ap \o new
        OBVIOUS
    <2>3. /\ Len(all) = Len(ap) + Len(new)
          /\ \A i \in 1 .. Len(ap) + Len(new) : all[i] =
                IF i <= Len(ap) THEN ap[i] ELSE new[i - Len(ap)]
        BY <1>1, <2>1, <2>2, ConcatIs, ZenonT(60)
    <2>4. Len(ap) = c /\ Len(new) = n - c /\ Len(ap) + Len(new) = n
        <3>1. Len(ap) = c /\ Len(new) = n - c
            BY <2>1
        <3>2. c + (n - c) = n
            OBVIOUS
        <3>. QED
            BY <3>1, <3>2
    <2>5. /\ Len(all) = n
          /\ \A i \in 1 .. n : all[i] = IF i <= c THEN ap[i] ELSE new[i - c]
        BY <2>3, <2>4
    <2>6. ASSUME NEW k \in c + 1 .. n
          PROVE  all[k] = lg[k]
        <3>1. k - c \in 1 .. n - c /\ c + (k - c) = k
            OBVIOUS
        <3>2. new[k - c] = lg[k]
            BY <2>1, <3>1
        <3>3. k \in 1 .. n /\ ~(k <= c)
            OBVIOUS
        <3>. QED
            BY <2>5, <3>2, <3>3
    <2>7. ASSUME NEW k \in 1 .. c
          PROVE  all[k] = ap[k]
        BY <1>4, <2>5
    <2>. QED
        BY <1>3, <2>2, <2>5, <2>6, <2>7, ZenonT(60)
<1>5. CASE c = n
    <2>1. new = <<>>
        BY <1>1, <1>5, SubSeqEmpty
    <2>2. ap \o new = ap
        BY <1>1, <2>1, ConcatEmptySeq
    <2>. QED
        BY <1>3, <1>5, <2>2
<1>. QED
    BY <1>4, <1>5

\* A position _try_commit may commit is committed: the leader and those that
\* acknowledged it are a majority.
LEMMA TryCommitted ==
    ASSUME TypeOK, TypeOK', NEW s \in Server, NEW G \in LeaderLogs, NEW B \in Acks,
           Fits(G)', AckInv(G, B)', role'[s] = Leader, current_term' = current_term,
           leader_state'[s] \in LeaderStateType(s),
           NEW n \in Committable(s, leader_state'[s], log'[s])
    PROVE  /\ CommittedUpTo(G, B, current_term[s], n)'
           /\ G[current_term[s]] = log'[s]
<1>. PICK U : U = current_term[s]
    OBVIOUS
<1>. PICK ls : ls = leader_state'[s]
    OBVIOUS
<1>. PICK lg : lg = log'[s]
    OBVIOUS
<1>. PICK P : P = {p \in Others(s) : ls.match_index[p] >= n}
    OBVIOUS
<1>1. /\ U \in Nat /\ current_term'[s] = U /\ commit_index[s] \in Nat
      /\ lg \in Seq(Entry) /\ Len(lg) \in Nat
    BY LenProperties DEF TypeOK, ElectionTypeOK, LogTypeOK
<1>2. G[U] = lg
    BY <1>1 DEF Fits
<1>3. /\ n \in 1 .. Len(lg) /\ n \in Nat /\ lg[n].term = U
      /\ 1 + Cardinality(P) >= Majority
    BY <1>1 DEF Committable, Replicas
<1>4. B[s][U] = Len(lg)
    BY <1>1 DEF AckInv, AcksTrue
<1>5. Elected(elections', U)
    BY <1>1, <1>3, <1>4 DEF AckInv, AcksTrue
<1>6. ASSUME NEW p \in P
      PROVE  B[p][U] >= n
    <2>1. p \in Others(s) /\ p \in Server /\ ls.match_index[p] >= n
        BY DEF Others
    <2>2. ls # Nil
        BY NilAssumption
    <2>3. ls.match_index[p] <= B[p][U]
        BY <1>1, <2>1, <2>2 DEF AckInv, MatchAcked
    <2>4. ls.match_index[p] \in Nat /\ B[p][U] \in Nat
        BY <1>1, <2>1, AckTypes DEF LeaderStateType
    <2>. QED
        BY <1>3, <2>1, <2>3, <2>4
<1>7. Cardinality(P \cup {s}) >= Majority
    <2>1. P \in SUBSET Server /\ s \notin P
        BY DEF Others
    <2>2. IsFiniteSet(P)
        BY <2>1, ClusterAssumption, FS_Subset
    <2>3. Cardinality(P \cup {s}) = Cardinality(P) + 1 /\ Cardinality(P) \in Nat
        BY <2>1, <2>2, FS_AddElement, FS_CardinalityType
    <2>. QED
        BY <1>3, <2>3
<1>8. \A q \in P \cup {s} : B[q][U] >= n
    BY <1>3, <1>4, <1>6
<1>9. P \cup {s} \in SUBSET Server
    BY DEF Others
<1>10. Has(G[U], U, n)
    BY <1>2, <1>3 DEF Has
<1>11. CommittedUpTo(G, B, U, n)'
    BY <1>3, <1>5, <1>7, <1>8, <1>9, <1>10 DEF CommittedUpTo
<1>. QED
    BY <1>2, <1>11

\* new is old, and the log of the leader of term U from there on up to n.
Extends(F, old, new, U, n) ==
    /\ Len(old) < n /\ Len(new) = n
    /\ \A i \in 1 .. n :
          /\ new[i].entry = F[U][i]
          /\ new[i].at = IF i <= Len(old) THEN old[i].at ELSE U

\* What a leader commits prolongs what is chosen.
LEMMA ChosenExtends ==
    \A F \in LeaderLogs, A \in Acks, old \in ChosenType, new \in ChosenType,
       U \in Nat, n \in Nat :
        /\ LogsKnown(F, A) /\ ChosenIn(F, A, old) /\ CommittedUpTo(F, A, U, n)
        /\ Extends(F, old, new, U, n)
        => ChosenIn(F, A, new) /\ \A i \in 1 .. Len(old) : new[i] = old[i]
<1>. SUFFICES ASSUME NEW F \in LeaderLogs, NEW A \in Acks, NEW old \in ChosenType,
                     NEW new \in ChosenType, NEW U \in Nat, NEW n \in Nat,
                     LogsKnown(F, A), ChosenIn(F, A, old), CommittedUpTo(F, A, U, n),
                     Extends(F, old, new, U, n)
              PROVE  ChosenIn(F, A, new) /\ \A i \in 1 .. Len(old) : new[i] = old[i]
    OBVIOUS
<1>1. Len(old) \in Nat /\ Len(old) < n /\ Len(new) = n
    BY LenProperties DEF ChosenType, Extends
<1>2. \A k \in 1 .. n : k <= Len(old) => F[U][k] = old[k].entry
    BY ChosenAgree
<1>3. ASSUME NEW i \in 1 .. Len(old)
      PROVE  new[i] = old[i]
    <2>1. i \in 1 .. n /\ i <= Len(old)
        BY <1>1
    <2>2. i \in 1 .. Len(new)
        BY <1>1, <2>1
    <2>3. old[i] \in [entry : Entry, at : Nat] /\ new[i] \in [entry : Entry, at : Nat]
        BY <2>2, ElementOfSeq DEF ChosenType
    <2>4. new[i].entry = old[i].entry /\ new[i].at = old[i].at
        BY <1>2, <2>1 DEF Extends
    <2>. QED
        BY <2>3, <2>4
<1>4. ASSUME NEW i \in 1 .. n
      PROVE  /\ CommittedUpTo(F, A, new[i].at, i)
             /\ \A k \in 1 .. i : F[new[i].at][k] = new[k].entry
    <2>1. CASE i <= Len(old)
        <3>1. i \in 1 .. Len(old)
            BY <1>1, <2>1
        <3>2. new[i].at = old[i].at
            BY <1>3, <3>1
        <3>3. /\ CommittedUpTo(F, A, old[i].at, i)
              /\ \A k \in 1 .. i : F[old[i].at][k] = old[k].entry
            BY <3>1 DEF ChosenIn
        <3>4. \A k \in 1 .. i : new[k].entry = old[k].entry
            BY <1>1, <1>3, <3>1
        <3>. QED
            BY <3>2, <3>3, <3>4
    <2>2. CASE ~(i <= Len(old))
        <3>1. new[i].at = U
            BY <2>2 DEF Extends
        <3>2. \A k \in 1 .. i : F[U][k] = new[k].entry
            BY <1>1 DEF Extends
        <3>3. CommittedUpTo(F, A, U, i)
            <4>1. PICK j \in Nat :
                      /\ j >= n /\ Has(F[U], U, j)
                      /\ \E Q \in SUBSET Server :
                            Cardinality(Q) >= Majority /\ \A q \in Q : A[q][U] >= j
                BY DEF CommittedUpTo
            <4>2. j >= i
                BY <4>1
            <4>. QED
                BY <4>1, <4>2 DEF CommittedUpTo
        <3>. QED
            BY <3>1, <3>2, <3>3
    <2>. QED
        BY <2>1, <2>2
<1>. QED
    BY <1>1, <1>3, <1>4 DEF ChosenIn

LEMMA ChosenExtendsNext ==
    (\A F \in LeaderLogs, A \in Acks, old \in ChosenType, new \in ChosenType,
        U \in Nat, n \in Nat :
        /\ LogsKnown(F, A) /\ ChosenIn(F, A, old) /\ CommittedUpTo(F, A, U, n)
        /\ Extends(F, old, new, U, n)
        => ChosenIn(F, A, new) /\ \A i \in 1 .. Len(old) : new[i] = old[i])'
BY ChosenExtends, PTL

\* The end of a round: what is chosen grows if at all, and the leader applies it.
LEMMA TryCommits ==
    ASSUME NEW F \in LeaderLogs, NEW A \in Acks, NEW G \in LeaderLogs, NEW B \in Acks,
           Grown(F, A, G, B), CommitInv(F, A), LogsKnown(G, B)',
           NEW s \in Server, role'[s] = Leader, current_term' = current_term,
           leader_state'[s] \in LeaderStateType(s), LogsKept,
           TryCommit(s, leader_state'[s], log'[s])
    PROVE  /\ ChosenKept /\ ChosenIn(G, B, chosen)'
           /\ Known(G, B, current_term[s], commit_index[s])'
           /\ Holds(log'[s], applied'[s], commit_index'[s], chosen')
           /\ Len(applied[s]) <= Len(applied'[s])
           /\ \A p \in Server \ {s} :
                 commit_index'[p] = commit_index[p] /\ applied'[p] = applied[p]
<1>. PICK U : U = current_term[s]
    OBVIOUS
<1>. PICK c : c = commit_index[s]
    OBVIOUS
<1>. PICK n : n = commit_index'[s]
    OBVIOUS
<1>. PICK lg : lg = log'[s]
    OBVIOUS
<1>. PICK ls : ls = leader_state'[s]
    OBVIOUS
<1>. PICK old : old = chosen
    OBVIOUS
<1>. PICK new : new = chosen'
    OBVIOUS
<1>1. /\ TypeOK /\ TypeOK' /\ U \in Nat /\ c \in Nat /\ n \in Nat
      /\ lg \in Seq(Entry) /\ Len(lg) \in Nat /\ log[s] \in Seq(Entry) /\ Len(log[s]) \in Nat
    BY LenProperties DEF Grown, TypeOK, ElectionTypeOK, LogTypeOK
<1>2. old \in ChosenType /\ new \in ChosenType /\ Len(old) \in Nat /\ Len(new) \in Nat
    BY <1>1, LenProperties DEF TypeOK, LogTypeOK, ChosenType
<1>3. /\ n = CommitTarget(s, ls, lg)
      /\ Apply(s, n, lg)
      /\ \A p \in Server \ {s} : commit_index'[p] = commit_index[p]
      /\ new = IF n > c /\ n > Len(old)
               THEN [i \in 1 .. n |->
                       [entry |-> lg[i], at |-> IF i <= Len(old) THEN old[i].at ELSE U]]
               ELSE old
    BY <1>1 DEF TryCommit, TypeOK, LogTypeOK
<1>4. /\ Known(F, A, U, c) /\ c <= Len(old)
      /\ c <= Len(log[s]) /\ Len(applied[s]) = c
      /\ \A k \in 1 .. c : log[s][k] = old[k].entry /\ applied[s][k] = old[k].entry
    BY DEF CommitInv, CommitsKnown, Known, Holds
<1>5. c <= Len(lg) /\ \A k \in 1 .. c : lg[k] = old[k].entry
    BY <1>1, <1>4, SMTT(60) DEF LogsKept
<1>6. ChosenIn(G, B, old)'
    BY <1>2, ChosenInGrows DEF CommitInv
<1>7. n # c => n \in Committable(s, ls, lg)
    BY <1>1, <1>3, CommitTargetType
<1>8. CASE n = c
    <2>1. new = old /\ ChosenKept
        BY <1>1, <1>2, <1>3, <1>8 DEF ChosenKept
    <2>2. Known(G, B, U, c)'
        BY <1>1, <1>4, <2>1, KnownGrows
    <2>3. /\ Len(applied'[s]) = c
          /\ \A k \in 1 .. c : applied'[s][k] = applied[s][k]
          /\ \A p \in Server \ {s} : applied'[p] = applied[p]
        BY <1>1, <1>3, <1>4, <1>5, <1>8, ApplyHolds
    <2>4. Holds(lg, applied'[s], n, new)
        BY <1>4, <1>5, <1>8, <2>1, <2>3 DEF Holds
    <2>. QED
        BY <1>1, <1>3, <1>4, <1>6, <1>8, <2>1, <2>2, <2>3, <2>4
<1>9. CASE n # c
    <2>1. c < n /\ n <= Len(lg)
        BY <1>1, <1>7, <1>9 DEF Committable
    <2>2. CommittedUpTo(G, B, U, n)' /\ G[U] = lg
        <3>1. Fits(G)' /\ AckInv(G, B)'
            BY DEF LogsKnown
        <3>. QED
            BY <1>1, <1>7, <1>9, <3>1, TryCommitted
    <2>3. \A k \in 1 .. n : k <= Len(old) => lg[k] = old[k].entry
        BY <1>1, <1>2, <1>6, <2>2, ChosenAgreeNext
    <2>4. /\ Len(applied'[s]) = n
          /\ \A k \in 1 .. c : applied'[s][k] = applied[s][k]
          /\ \A k \in c + 1 .. n : applied'[s][k] = lg[k]
          /\ \A p \in Server \ {s} : applied'[p] = applied[p]
        BY <1>1, <1>3, <1>4, <2>1, ApplyHolds, SMTT(60)
    <2>5. \A k \in 1 .. n : applied'[s][k] = lg[k]
        <3>. SUFFICES ASSUME NEW k \in 1 .. n
                      PROVE  applied'[s][k] = lg[k]
            OBVIOUS
        <3>1. CASE k <= c
            BY <1>1, <1>4, <1>5, <2>4, <3>1
        <3>2. CASE ~(k <= c)
            BY <1>1, <2>4, <3>2
        <3>. QED
            BY <3>1, <3>2
    <2>6. Len(applied[s]) <= Len(applied'[s])
        BY <1>1, <1>4, <2>1, <2>4
    <2>7. CASE n <= Len(old)
        <3>1. new = old /\ ChosenKept
            BY <1>1, <1>2, <1>3, <2>7 DEF ChosenKept
        <3>2. Holds(lg, applied'[s], n, new)
            BY <1>1, <1>2, <2>1, <2>3, <2>4, <2>5, <2>7, <3>1 DEF Holds
        <3>3. Known(G, B, U, n)'
            BY <1>1, <2>2, <2>7, <3>1 DEF Known
        <3>. QED
            BY <1>3, <1>6, <2>4, <2>6, <3>1, <3>2, <3>3
    <2>8. CASE ~(n <= Len(old))
        <3>1. new = [i \in 1 .. n |->
                       [entry |-> lg[i], at |-> IF i <= Len(old) THEN old[i].at ELSE U]]
            BY <1>1, <1>2, <1>3, <2>1, <2>8
        <3>2. Len(new) = n
            BY <1>1, <1>2, <3>1
        <3>3. Extends(G, old, new, U, n)
            BY <1>1, <1>2, <2>2, <2>8, <3>1, <3>2 DEF Extends
        <3>4. ChosenIn(G, B, new)' /\ \A i \in 1 .. Len(old) : new[i] = old[i]
            BY <1>1, <1>2, <1>6, <2>2, <3>3, ChosenExtendsNext
        <3>5. ChosenKept
            BY <1>1, <1>2, <2>8, <3>2, <3>4 DEF ChosenKept
        <3>6. \A k \in 1 .. n : new[k].entry = lg[k]
            BY <3>1
        <3>7. Holds(lg, applied'[s], n, new)
            BY <2>1, <2>4, <2>5, <3>6 DEF Holds
        <3>8. Known(G, B, U, n)'
            BY <1>1, <2>2, <3>2 DEF Known
        <3>. QED
            BY <1>3, <2>4, <2>6, <3>4, <3>5, <3>7, <3>8
    <2>. QED
        BY <2>7, <2>8
<1>. QED
    BY <1>8, <1>9

\* A leader has what is known to be committed in its term.
LEMMA KnownHas ==
    ASSUME NEW F \in LeaderLogs, NEW A \in Acks, LogsKnown(F, A), ChosenIn(F, A, chosen),
           NEW U \in Nat, Elected(elections, U), NEW c \in Nat, Known(F, A, U, c)
    PROVE  /\ c <= Len(F[U]) /\ c <= Len(chosen)
           /\ \A k \in 1 .. c : F[U][k] = chosen[k].entry
<1>1. chosen \in ChosenType /\ c <= Len(chosen)
    BY DEF LogsKnown, TypeOK, LogTypeOK, ChosenType, Known
<1>2. CASE c = 0
    <2>1. Len(F[U]) \in Nat
        BY LenProperties DEF LeaderLogs
    <2>. QED
        BY <1>1, <1>2, <2>1
<1>3. CASE c # 0
    <2>1. PICK T \in Nat : T <= U /\ CommittedUpTo(F, A, T, c)
        BY <1>3 DEF Known
    <2>2. c <= Len(F[U]) /\ \A k \in 1 .. c : F[U][k] = chosen[k].entry
        BY <1>1, <2>1, LeaderHas
    <2>. QED
        BY <1>1, <2>2
<1>. QED
    BY <1>2, <1>3

\* A node that takes a request has the log of its sender, up to the end of it.
LEMMA MergeHasAll ==
    ASSUME NEW F \in LeaderLogs, NEW A \in Acks, TermsStart, LogsKnown(F, A),
           NEW m \in AppendMsg, RequestFits(F, elections, m), RequestKnown(F, A, m),
           NEW lg \in Seq(Entry), LogFits(F, elections, lg), Consistent(m, lg),
           NEW c \in Nat, c <= m.leader_commit
    PROVE  /\ c <= Len(F[m.term])
           /\ \A k \in 1 .. c : k <= Len(Merge(m, lg)) /\ Merge(m, lg)[k] = F[m.term][k]
<1>. PICK fl : fl = F[m.term]
    OBVIOUS
<1>. PICK new : new = Merge(m, lg)
    OBVIOUS
<1>. PICK prev : prev = m.prev_log_index
    OBVIOUS
<1>. PICK es : es = m.entries
    OBVIOUS
<1>1. /\ fl \in Seq(Entry) /\ Len(fl) \in Nat /\ Len(lg) \in Nat /\ prev \in Nat
      /\ es \in Seq(Entry) /\ Len(es) \in Nat /\ m.leader_commit \in Nat /\ m.term \in Nat
    BY LenProperties DEF LeaderLogs, AppendMsg
<1>2. LogFits(F, elections, F[m.term])
    <2>1. Elected(elections, m.term)
        BY DEF RequestFits, Elected
    <2>. QED
        BY <1>1, <2>1 DEF LogsKnown, Fits
<1>3. prev = 0 \/ (prev \in 1 .. Len(lg) /\ lg[prev].term = m.prev_log_term)
    BY <1>1 DEF Consistent
<1>4. prev = 0 \/ m.prev_log_term # 0
    BY <1>3 DEF LogFits, Elected, TermsStart
<1>5. m.leader_commit <= prev + Len(es) /\ prev + Len(es) <= Len(fl)
    BY <1>4 DEF RequestKnown
<1>6. \A k \in 1 .. c : k \in 1 .. prev + Len(es) /\ c <= Len(fl)
    BY <1>1, <1>5, SMTT(60)
<1>7. CASE es # <<>>
    <2>1. \A k \in 1 .. prev + Len(es) : k \in 1 .. Len(new) /\ new[k] = fl[k]
        BY <1>2, <1>7, MergeTakes
    <2>. QED
        BY <1>1, <1>5, <1>6, <2>1
<1>8. CASE es = <<>>
    <2>1. Len(es) = 0 /\ Conflicts(m, lg) = {}
        BY <1>1, <1>8, EmptySeq DEF Conflicts
    <2>2. new = lg
        BY <2>1 DEF Merge
    <2>3. \A k \in 1 .. prev : k <= Len(lg) /\ lg[k] = fl[k]
        <3>1. CASE prev = 0
            BY <3>1
        <3>2. CASE prev # 0
            <4>1. /\ prev \in 1 .. Len(lg) /\ prev <= Len(fl)
                  /\ lg[prev].term = fl[prev].term
                BY <1>3, <1>4, <3>2 DEF RequestKnown
            <4>2. \A k \in 1 .. prev : lg[k] = fl[k]
                BY <1>1, <1>2, <4>1, FittingLogsMatch, ZenonT(60)
            <4>. QED
                BY <1>1, <4>1, <4>2
        <3>. QED
            BY <3>1, <3>2
    <2>4. \A k \in 1 .. c : k \in 1 .. prev
        BY <1>1, <1>5, <2>1
    <2>. QED
        BY <1>1, <1>5, <2>1, <2>2, <2>3, <2>4, SMTT(60)
<1>. QED
    BY <1>7, <1>8

\* A node that follows a leader keeps what it knows to be committed, and applies
\* of the rest what the leader says is.
LEMMA FollowerHolds ==
    ASSUME NEW F \in LeaderLogs, NEW A \in Acks, TermsStart, LogsKnown(F, A),
           CommitInv(F, A), NEW m \in Requests, FollowLeader(m)
    PROVE  /\ \A k \in 1 .. commit_index[m.dst] :
                 k <= Len(log'[m.dst]) /\ log'[m.dst][k] = log[m.dst][k]
           /\ Known(F, A, m.term, commit_index'[m.dst])
           /\ Holds(log'[m.dst], applied'[m.dst], commit_index'[m.dst], chosen)
           /\ Len(applied[m.dst]) <= Len(applied'[m.dst])
           /\ commit_index'[m.dst] \in Nat
<1>. PICK d : d = m.dst
    OBVIOUS
<1>. PICK U : U = m.term
    OBVIOUS
<1>. PICK c : c = commit_index[d]
    OBVIOUS
<1>. PICK lc : lc = m.leader_commit
    OBVIOUS
<1>. PICK lg : lg = log[d]
    OBVIOUS
<1>. PICK fl : fl = F[U]
    OBVIOUS
<1>1. /\ m \in AppendMsg /\ d \in Server /\ U \in Nat /\ lc \in Nat
      /\ RequestFits(F, elections, m) /\ RequestKnown(F, A, m)
    BY DEF Requests, AppendMsg, LogsKnown, Fits, CommitInv, RequestsKnown
<1>2. /\ TypeOK /\ c \in Nat /\ lg \in Seq(Entry) /\ Len(lg) \in Nat
      /\ fl \in Seq(Entry) /\ Len(fl) \in Nat /\ current_term[d] \in Nat
      /\ LogFits(F, elections, lg)
    BY <1>1, LenProperties DEF LogsKnown, TypeOK, ElectionTypeOK, LogTypeOK, LeaderLogs, Fits
<1>3. Elected(elections, U) /\ LogFits(F, elections, fl) /\ ChosenIn(F, A, chosen)
    BY <1>1 DEF RequestFits, Elected, LogsKnown, Fits, CommitInv
<1>4. /\ Known(F, A, U, c)
      /\ c <= Len(lg) /\ Len(applied[d]) = c
      /\ \A k \in 1 .. c : lg[k] = chosen[k].entry /\ applied[d][k] = chosen[k].entry
    <2>1. Known(F, A, current_term[d], c) /\ Holds(lg, applied[d], c, chosen)
        BY <1>1 DEF CommitInv, CommitsKnown
    <2>2. U >= current_term[d]
        BY DEF FollowLeader
    <2>3. Known(F, A, U, c)
        BY <1>1, <1>2, <2>1, <2>2 DEF Known
    <2>. QED
        BY <2>1, <2>3 DEF Holds
<1>5. c <= Len(fl) /\ \A k \in 1 .. c : fl[k] = chosen[k].entry
    BY <1>1, <1>2, <1>3, <1>4, KnownHas
<1>6. CASE ~Consistent(m, lg)
    <2>1. log'[d] = lg /\ commit_index'[d] = c /\ applied'[d] = applied[d]
        BY <1>6 DEF FollowLeader
    <2>2. Holds(lg, applied[d], c, chosen)
        BY <1>4 DEF Holds
    <2>. QED
        BY <1>2, <1>4, <2>1, <2>2
<1>7. CASE Consistent(m, lg)
    <2>. PICK new : new = Merge(m, lg)
        OBVIOUS
    <2>1. /\ log'[d] = new /\ new \in Seq(Entry) /\ Len(new) \in Nat
          /\ IF lc > c
             THEN /\ commit_index'[d] = Min2(lc, Len(new))
                  /\ Apply(d, Min2(lc, Len(new)), new)
             ELSE commit_index'[d] = c /\ applied'[d] = applied[d]
        <3>1. new \in Seq(Entry)
            BY <1>1, <1>2, <1>7, MergeType
        <3>. QED
            BY <1>1, <1>2, <1>7, <3>1, LenProperties DEF FollowLeader, TypeOK, LogTypeOK
    <2>2. ASSUME NEW k \in 1 .. c
          PROVE  k <= Len(new) /\ new[k] = lg[k]
        <3>1. /\ k \in 1 .. Len(lg) /\ k <= Len(fl) /\ lg[k].term = fl[k].term
            BY <1>2, <1>4, <1>5
        <3>2. k \in 1 .. Len(new) /\ new[k] = lg[k]
            BY <1>1, <1>2, <1>3, <1>7, <3>1, MergeKeeps
        <3>. QED
            BY <2>1, <3>2
    <2>3. c <= Len(new)
        <3>1. CASE c = 0
            BY <2>1, <3>1
        <3>2. CASE c # 0
            BY <1>2, <2>2, <3>2
        <3>. QED
            BY <3>1, <3>2
    <2>4. CASE ~(lc > c)
        <3>1. commit_index'[d] = c /\ applied'[d] = applied[d]
            BY <2>1, <2>4
        <3>2. Holds(new, applied[d], c, chosen)
            BY <1>4, <2>2, <2>3 DEF Holds
        <3>. QED
            BY <1>2, <1>4, <2>1, <2>2, <3>1, <3>2
    <2>5. CASE lc > c
        <3>1. /\ lc <= Len(fl)
              /\ \A k \in 1 .. lc : k <= Len(new) /\ new[k] = fl[k]
            BY <1>1, <1>2, <1>7, MergeHasAll
        <3>2. lc <= Len(new)
            BY <1>1, <1>2, <2>5, <3>1
        <3>3. Min2(lc, Len(new)) = lc
            BY <1>1, <2>1, <3>2 DEF Min2
        <3>4. commit_index'[d] = lc /\ Apply(d, lc, new)
            BY <2>1, <2>5, <3>3
        <3>5. /\ Len(applied'[d]) = lc
              /\ \A k \in 1 .. c : applied'[d][k] = applied[d][k]
              /\ \A k \in c + 1 .. lc : applied'[d][k] = new[k]
            BY <1>1, <1>2, <1>4, <2>1, <2>5, <3>2, <3>4, ApplyHolds, SMTT(60)
        <3>6. Known(F, A, U, lc)
            BY <1>1 DEF RequestKnown
        <3>7. \A k \in 1 .. lc : fl[k] = chosen[k].entry
            BY <1>1, <1>3, <3>6, KnownHas
        <3>8. ASSUME NEW k \in 1 .. lc
              PROVE  new[k] = chosen[k].entry /\ applied'[d][k] = chosen[k].entry
            <4>1. new[k] = chosen[k].entry
                BY <3>1, <3>7
            <4>2. CASE k <= c
                BY <1>1, <1>2, <1>4, <3>5, <4>1, <4>2
            <4>3. CASE ~(k <= c)
                BY <1>1, <1>2, <3>5, <4>1, <4>3
            <4>. QED
                BY <4>2, <4>3
        <3>9. Holds(new, applied'[d], lc, chosen)
            BY <3>2, <3>5, <3>8 DEF Holds
        <3>10. Len(applied[d]) <= Len(applied'[d])
            BY <1>1, <1>2, <1>4, <2>5, <3>5
        <3>. QED
            BY <1>1, <2>1, <2>2, <3>4, <3>6, <3>9, <3>10
    <2>. QED
        BY <2>4, <2>5
<1>. QED
    BY <1>6, <1>7

\* What a leader sends ends where its log ends, unless it starts beyond it.
LEMMA NewRequestKnown ==
    ASSUME TypeOK', NEW G \in LeaderLogs, NEW B \in Acks, LogsKnown(G, B)',
           NEW s \in Server, NEW d \in Others(s), role'[s] = Leader,
           current_term' = current_term, commit_index' = commit_index,
           leader_state'[s] \in LeaderStateType(s),
           Known(G, B, current_term[s], commit_index[s])',
           commit_index[s] <= Len(log'[s]),
           NEW m, m = AppendRequest(s, d, leader_state'[s], log'[s])
    PROVE  RequestKnown(G, B, m)'
<1>. PICK U : U = current_term[s]
    OBVIOUS
<1>. PICK c : c = commit_index[s]
    OBVIOUS
<1>. PICK lg : lg = log'[s]
    OBVIOUS
<1>. PICK next : next = leader_state'[s].next_index[d]
    OBVIOUS
<1>1. /\ U \in Nat /\ c \in Nat /\ lg \in Seq(Entry) /\ Len(lg) \in Nat
      /\ current_term'[s] = U /\ commit_index'[s] = c
    BY LenProperties DEF TypeOK, ElectionTypeOK, LogTypeOK
<1>2. next \in Nat /\ next # 0 /\ next - 1 \in Nat
    BY DEF LeaderStateType
<1>3. G[U] = lg
    BY <1>1 DEF LogsKnown, Fits
<1>4. /\ m.term = U /\ m.prev_log_index = next - 1 /\ m.leader_commit = c
      /\ m.prev_log_term = TermAt(lg, next - 1)
      /\ m.entries = SubSeq(lg, next, Len(lg))
    BY DEF AppendRequest
<1>5. Known(G, B, m.term, m.leader_commit)'
    <2>1. Known(G, B, U, c)'
        BY <1>1
    <2>. QED
        BY <1>4, <2>1
<1>6. m.prev_log_term # 0 => next - 1 <= Len(lg) /\ m.prev_log_term = lg[next - 1].term
    BY <1>1, <1>2, <1>4 DEF TermAt
<1>7. PICK z : z = Len(m.entries)
    OBVIOUS
<1>8. z = IF next <= Len(lg) THEN Len(lg) - next + 1 ELSE 0
    <2>1. \A i \in next .. Len(lg) : lg[i] \in Entry
        BY <1>1, <1>2, ElementOfSeq
    <2>. QED
        BY <1>1, <1>2, <1>4, <1>7, <2>1, SubSeqProperties
<1>9. m.prev_log_index = 0 \/ m.prev_log_term # 0 =>
          c <= (next - 1) + z /\ (next - 1) + z <= Len(lg)
    <2>. SUFFICES ASSUME m.prev_log_index = 0 \/ m.prev_log_term # 0
                  PROVE  c <= (next - 1) + z /\ (next - 1) + z <= Len(lg)
        OBVIOUS
    <2>1. next - 1 <= Len(lg)
        BY <1>1, <1>4, <1>6
    <2>2. PICK n : n = Len(lg)
        OBVIOUS
    <2>3. n \in Nat /\ next - 1 <= n /\ z = IF next <= n THEN n - next + 1 ELSE 0
        BY <1>1, <1>8, <2>1, <2>2
    <2>4. (next - 1) + z = n
        BY <1>2, <2>3
    <2>. QED
        BY <1>1, <2>2, <2>4
<1>10. m.prev_log_index = 0 \/ m.prev_log_term # 0 =>
          /\ m.leader_commit <= m.prev_log_index + Len(m.entries)
          /\ m.prev_log_index + Len(m.entries) <= Len(G[m.term])
    BY <1>3, <1>4, <1>7, <1>9
<1>11. m.prev_log_index # 0 /\ m.prev_log_term # 0 =>
          /\ m.prev_log_index <= Len(G[m.term])
          /\ m.prev_log_term = G[m.term][m.prev_log_index].term
    BY <1>3, <1>4, <1>6
<1>. QED
    BY <1>5, <1>10, <1>11 DEF RequestKnown

\* What is held stays held while logs and what is chosen grow.
LEMMA HoldsMore ==
    ASSUME NEW a \in Seq(Entry), NEW b \in Seq(Entry), Len(a) <= Len(b),
           \A k \in 1 .. Len(a) : b[k] = a[k],
           NEW old \in ChosenType, NEW new \in ChosenType,
           \A k \in 1 .. Len(old) : new[k] = old[k],
           NEW c \in Nat, c <= Len(old), NEW ap, Holds(a, ap, c, old)
    PROVE  Holds(b, ap, c, new)
<1>1. Len(a) \in Nat /\ Len(b) \in Nat /\ Len(old) \in Nat
    BY LenProperties DEF ChosenType
<1>2. c <= Len(a) /\ c <= Len(b)
    BY <1>1 DEF Holds
<1>3. \A k \in 1 .. c : b[k] = a[k] /\ new[k] = old[k]
    BY <1>1, <1>2
<1>. QED
    BY <1>2, <1>3 DEF Holds

-----------------------------------------------------------------------------
(* What a step does to what is committed *)

\* No log loses or replaces what its node knows to be committed.
PrefixKept ==
    \A s \in Server : \A i \in 1 .. commit_index[s] :
        i <= Len(log'[s]) /\ log'[s][i] = log[s][i]

\* One node goes on applying, or starts anew.
AppliedStep ==
    \/ UNCHANGED <<chosen, applied>>
    \/ \E s \in Server :
          /\ \A p \in Server \ {s} : applied'[p] = applied[p]
          /\ \/ Len(applied[s]) <= Len(applied'[s])
             \/ applied' = [applied EXCEPT ![s] = <<>>] /\ chosen' = chosen

\* All of the above.
CommitsOn(G, B) == ChosenKept /\ PrefixKept /\ AppliedStep /\ CommitInv(G, B)'

\* Nothing a node holds is disturbed by what the others do.
LEMMA OthersHold ==
    ASSUME NEW F \in LeaderLogs, NEW A \in Acks, NEW G \in LeaderLogs, NEW B \in Acks,
           Grown(F, A, G, B), TermsUp, CommitInv(F, A), ChosenKept, NEW p \in Server,
           commit_index'[p] = commit_index[p], applied'[p] = applied[p],
           Len(log[p]) <= Len(log'[p]), \A k \in 1 .. Len(log[p]) : log'[p][k] = log[p][k]
    PROVE  /\ Known(G, B, current_term[p], commit_index[p])'
           /\ Holds(log'[p], applied'[p], commit_index'[p], chosen')
<1>. PICK U : U = current_term[p]
    OBVIOUS
<1>. PICK V : V = current_term'[p]
    OBVIOUS
<1>. PICK c : c = commit_index[p]
    OBVIOUS
<1>1. /\ U \in Nat /\ V \in Nat /\ U <= V /\ c \in Nat
      /\ log[p] \in Seq(Entry) /\ log'[p] \in Seq(Entry)
      /\ chosen \in ChosenType /\ chosen' \in ChosenType
    BY DEF Grown, TypeOK, ElectionTypeOK, LogTypeOK, TermsUp, ChosenType
<1>2. Known(F, A, U, c) /\ Holds(log[p], applied[p], c, chosen)
    BY DEF CommitInv, CommitsKnown
<1>3. Known(G, B, V, c)'
    BY <1>1, <1>2, KnownGrows
<1>4. c <= Len(chosen)
    BY <1>2 DEF Known
<1>5. Holds(log'[p], applied[p], c, chosen')
    BY <1>1, <1>2, <1>4, HoldsMore DEF ChosenKept
<1>. QED
    BY <1>3, <1>5

LEMMA CommitRound ==
    ASSUME NEW F \in LeaderLogs, NEW A \in Acks, NEW G \in LeaderLogs, NEW B \in Acks,
           Grown(F, A, G, B), TermsUp, LogsKnown(F, A), LogsKnown(G, B)', CommitInv(F, A),
           NEW s \in Server, Round(s)
    PROVE  CommitsOn(G, B)
<1>1. /\ TypeOK /\ TypeOK' /\ role'[s] = Leader /\ current_term' = current_term
      /\ leader_state'[s] \in LeaderStateType(s) /\ LogsKept
    BY DEF Round, Grown
<1>2. /\ \A p \in Server : commit_index[p] \in Nat /\ log[p] \in Seq(Entry)
                           /\ Len(log[p]) \in Nat /\ Len(log'[p]) \in Nat
      /\ Requests \subseteq AppendMsg
    BY <1>1, LenProperties DEF TypeOK, LogTypeOK, Requests
<1>3. PrefixKept
    <2>. SUFFICES ASSUME NEW p \in Server, NEW i \in 1 .. commit_index[p]
                  PROVE  i <= Len(log'[p]) /\ log'[p][i] = log[p][i]
        BY DEF PrefixKept
    <2>1. commit_index[p] <= Len(log[p])
        BY DEF CommitInv, CommitsKnown, Holds
    <2>. QED
        BY <1>1, <1>2, <2>1 DEF LogsKept
<1>4. CASE TryCommit(s, leader_state'[s], log'[s]) /\ Requests' \subseteq Requests
    <2>1. /\ ChosenKept /\ ChosenIn(G, B, chosen)'
          /\ Known(G, B, current_term[s], commit_index[s])'
          /\ Holds(log'[s], applied'[s], commit_index'[s], chosen')
          /\ Len(applied[s]) <= Len(applied'[s])
          /\ \A p \in Server \ {s} :
                commit_index'[p] = commit_index[p] /\ applied'[p] = applied[p]
        BY <1>1, <1>4, TryCommits
    <2>2. AppliedStep
        BY <2>1 DEF AppliedStep
    <2>3. ASSUME NEW p \in Server
          PROVE  /\ Known(G, B, current_term[p], commit_index[p])'
                 /\ Holds(log'[p], applied'[p], commit_index'[p], chosen')
        <3>1. CASE p = s
            BY <2>1, <3>1
        <3>2. CASE p # s
            BY <1>1, <2>1, <3>2, OthersHold DEF LogsKept
        <3>. QED
            BY <3>1, <3>2
    <2>4. \A m \in Requests' : RequestKnown(G, B, m)'
        BY <1>2, <1>4, <2>1, RequestKnownGrows DEF LogsKnown, Fits, CommitInv, RequestsKnown
    <2>5. CommitInv(G, B)'
        BY <2>1, <2>3, <2>4 DEF CommitInv, CommitsKnown, RequestsKnown
    <2>. QED
        BY <1>3, <2>1, <2>2, <2>5 DEF CommitsOn
<1>5. CASE /\ UNCHANGED <<commit_index, applied, chosen>>
           /\ \E d \in Others(s) : \A m \in Requests' :
                m \in Requests \/ m = AppendRequest(s, d, leader_state'[s], log'[s])
    <2>1. AppliedStep
        BY <1>5 DEF AppliedStep
    <2>2. ChosenKept /\ chosen \in ChosenType
        <3>1. chosen \in ChosenType /\ Len(chosen) \in Nat
            BY <1>1, LenProperties DEF TypeOK, LogTypeOK, ChosenType
        <3>. QED
            BY <1>5, <3>1 DEF ChosenKept
    <2>3. ChosenIn(G, B, chosen)'
        <3>1. PICK ch : ch = chosen
            OBVIOUS
        <3>2. ChosenIn(G, B, ch)'
            BY <2>2, <3>1, ChosenInGrows DEF CommitInv
        <3>. QED
            BY <1>5, <3>1, <3>2
    <2>4. ASSUME NEW p \in Server
          PROVE  /\ Known(G, B, current_term[p], commit_index[p])'
                 /\ Holds(log'[p], applied'[p], commit_index'[p], chosen')
        BY <1>1, <1>5, <2>2, OthersHold DEF LogsKept
    <2>5. PICK d \in Others(s) : \A m \in Requests' :
              m \in Requests \/ m = AppendRequest(s, d, leader_state'[s], log'[s])
        BY <1>5
    <2>6. commit_index[s] <= Len(log'[s])
        BY <1>5, <2>4 DEF Holds
    <2>7. ASSUME NEW m \in Requests'
          PROVE  RequestKnown(G, B, m)'
        <3>1. CASE m \in Requests
            BY <1>2, <2>2, <3>1, RequestKnownGrows
               DEF LogsKnown, Fits, CommitInv, RequestsKnown
        <3>2. CASE m = AppendRequest(s, d, leader_state'[s], log'[s])
            BY <1>1, <1>5, <2>4, <2>6, <3>2, NewRequestKnown
        <3>. QED
            BY <2>5, <3>1, <3>2
    <2>8. CommitInv(G, B)'
        BY <2>3, <2>4, <2>7 DEF CommitInv, CommitsKnown, RequestsKnown
    <2>. QED
        BY <1>3, <2>1, <2>2, <2>8 DEF CommitsOn
<1>. QED
    BY <1>4, <1>5 DEF Round

LEMMA CommitRest ==
    ASSUME NEW F \in LeaderLogs, NEW A \in Acks, NEW G \in LeaderLogs, NEW B \in Acks,
           Grown(F, A, G, B), TermsUp, TermsStart,
           LogsKnown(F, A), LogsKnown(G, B)', CommitInv(F, A),
           Requests' \subseteq Requests, chosen' = chosen,
           \/ UNCHANGED <<log, commit_index, applied>>
           \/ \E s \in Server : Forgets(s)
           \/ \E m \in Requests : FollowLeader(m)
    PROVE  CommitsOn(G, B)
<1>1. TypeOK /\ TypeOK'
    BY DEF Grown
<1>2. /\ \A p \in Server : /\ commit_index[p] \in Nat /\ Len(log[p]) \in Nat
                           /\ log[p] \in Seq(Entry)
                           /\ commit_index[p] <= Len(log[p])
      /\ Requests \subseteq AppendMsg
      /\ chosen \in ChosenType /\ Len(chosen) \in Nat
    BY <1>1, LenProperties DEF TypeOK, LogTypeOK, Requests, ChosenType, CommitInv,
       CommitsKnown, Holds
<1>3. ChosenKept
    BY <1>2 DEF ChosenKept
<1>4. ChosenIn(G, B, chosen)'
    <2>1. PICK ch : ch = chosen
        OBVIOUS
    <2>2. ChosenIn(G, B, ch)'
        BY <1>2, <2>1, ChosenInGrows DEF CommitInv
    <2>. QED
        BY <2>1, <2>2
<1>5. \A m \in Requests' : RequestKnown(G, B, m)'
    BY <1>2, <1>3, RequestKnownGrows DEF LogsKnown, Fits, CommitInv, RequestsKnown
<1>6. ASSUME \A p \in Server : /\ Known(G, B, current_term[p], commit_index[p])'
                                /\ Holds(log'[p], applied'[p], commit_index'[p], chosen')
      PROVE  CommitInv(G, B)'
    BY <1>4, <1>5, <1>6 DEF CommitInv, CommitsKnown, RequestsKnown
<1>7. ASSUME NEW p \in Server, log'[p] = log[p], commit_index'[p] = commit_index[p],
             applied'[p] = applied[p]
      PROVE  /\ Known(G, B, current_term[p], commit_index[p])'
             /\ Holds(log'[p], applied'[p], commit_index'[p], chosen')
    BY <1>2, <1>3, <1>7, OthersHold
<1>8. CASE UNCHANGED <<log, commit_index, applied>>
    <2>1. AppliedStep /\ PrefixKept
        BY <1>2, <1>8 DEF AppliedStep, PrefixKept
    <2>. QED
        BY <1>3, <1>6, <1>7, <1>8, <2>1 DEF CommitsOn
<1>9. ASSUME NEW s \in Server, Forgets(s)
      PROVE  CommitsOn(G, B)
    <2>1. /\ applied' = [applied EXCEPT ![s] = <<>>]
          /\ commit_index'[s] = 0 /\ applied'[s] = <<>> /\ log' = log
          /\ \A p \in Server \ {s} : commit_index'[p] = commit_index[p]
                                     /\ applied'[p] = applied[p]
        BY <1>1, <1>9 DEF Forgets, TypeOK, LogTypeOK
    <2>2. AppliedStep /\ PrefixKept
        <3>1. AppliedStep
            BY <2>1 DEF AppliedStep
        <3>2. PrefixKept
            BY <1>2, <2>1 DEF PrefixKept
        <3>. QED
            BY <3>1, <3>2
    <2>3. Known(G, B, current_term[s], commit_index[s])'
        BY <1>2, <2>1 DEF Known
    <2>4. Holds(log'[s], applied'[s], commit_index'[s], chosen')
        <3>1. Holds(log[s], <<>>, 0, chosen)
            BY <1>2, EmptySeq DEF Holds
        <3>. QED
            BY <2>1, <3>1
    <2>5. ASSUME NEW p \in Server
          PROVE  /\ Known(G, B, current_term[p], commit_index[p])'
                 /\ Holds(log'[p], applied'[p], commit_index'[p], chosen')
        BY <1>7, <2>1, <2>3, <2>4
    <2>. QED
        BY <1>3, <1>6, <2>2, <2>5 DEF CommitsOn
<1>10. ASSUME NEW m \in Requests, FollowLeader(m)
       PROVE  CommitsOn(G, B)
    <2>. PICK d : d = m.dst
        OBVIOUS
    <2>1. /\ d \in Server /\ m.term \in Nat /\ current_term'[d] = m.term
          /\ \A p \in Server \ {d} : /\ log'[p] = log[p]
                                     /\ commit_index'[p] = commit_index[p]
                                     /\ applied'[p] = applied[p]
        <3>1. d \in Server /\ m.term \in Nat /\ current_term'[d] = m.term
            BY <1>1, <1>2, <1>10 DEF FollowLeader, AppendMsg, TypeOK, ElectionTypeOK
        <3>. DEFINE Same(f, g) == \A p \in Server \ {d} : g[p] = f[p]
        <3>2. /\ log \in [Server -> Seq(Entry)]
              /\ commit_index \in [Server -> Nat]
              /\ applied \in [Server -> Seq(Entry)]
            BY <1>1 DEF TypeOK, LogTypeOK
        <3>3. Same(log, log')
            BY <1>10, <3>2 DEF FollowLeader
        <3>4. Same(commit_index, commit_index')
            BY <1>10, <3>2, SMTT(60) DEF FollowLeader
        <3>5. Same(applied, applied')
            BY <1>10, <3>2, ZenonT(60) DEF FollowLeader, Apply
        <3>. QED
            BY <3>1, <3>3, <3>4, <3>5
    <2>2. /\ \A k \in 1 .. commit_index[d] :
                k <= Len(log'[d]) /\ log'[d][k] = log[d][k]
          /\ Known(F, A, m.term, commit_index'[d])
          /\ Holds(log'[d], applied'[d], commit_index'[d], chosen)
          /\ Len(applied[d]) <= Len(applied'[d])
          /\ commit_index'[d] \in Nat
        BY <1>10, FollowerHolds
    <2>3. PrefixKept
        <3>. SUFFICES ASSUME NEW p \in Server, NEW i \in 1 .. commit_index[p]
                      PROVE  i <= Len(log'[p]) /\ log'[p][i] = log[p][i]
            BY DEF PrefixKept
        <3>1. CASE p = d
            BY <2>2, <3>1
        <3>2. CASE p # d
            BY <1>2, <2>1, <3>2
        <3>. QED
            BY <3>1, <3>2
    <2>4. AppliedStep
        BY <2>1, <2>2 DEF AppliedStep
    <2>5. Known(G, B, current_term[d], commit_index[d])'
        <3>. PICK n : n = commit_index'[d]
            OBVIOUS
        <3>1. Known(G, B, m.term, n)'
            BY <1>3, <2>1, <2>2, KnownGrows
        <3>. QED
            BY <2>1, <3>1
    <2>6. ASSUME NEW p \in Server
          PROVE  /\ Known(G, B, current_term[p], commit_index[p])'
                 /\ Holds(log'[p], applied'[p], commit_index'[p], chosen')
        BY <1>7, <2>1, <2>2, <2>5
    <2>. QED
        BY <1>3, <1>6, <2>3, <2>4, <2>6 DEF CommitsOn
<1>. QED
    BY <1>8, <1>9, <1>10

\* What is known of logs, answers and commits together.
SafetyInv ==
    \E F \in LeaderLogs, A \in Acks : LogsKnown(F, A) /\ CommitInv(F, A)

\* The parts of the invariant that hold whatever answers are counted.
Basics ==
    /\ TypeOK /\ LeadersReady /\ ElectionInv /\ ElectionSafety
    /\ OnlyLeadersReady /\ ElectionsOpen

LEMMA ElectionsGrow ==
    ASSUME TypeOK, [Next]_vars
    PROVE  elections \subseteq elections'
<1>1. CASE TermsGrow
    BY <1>1 DEF TermsGrow
<1>2. ASSUME NEW s \in Server, StartElection(s) \/ BecomeLeader(s)
      PROVE  elections \subseteq elections'
    BY <1>2 DEF StartElection, BecomeLeader
<1>. QED
    BY <1>1, <1>2, TermsGrowStep

\* A step that changes nothing counts no answer.
LEMMA NothingCounted ==
    ASSUME TypeOK, UNCHANGED vars
    PROVE  AnswersInTerm
<1>. SUFFICES ASSUME NEW s \in Server, NEW t \in Sender, AcceptReply(s, t)
              PROVE  FALSE
    BY SMTT(60) DEF AnswersInTerm
<1>1. Answered(s, t) /\ sender' = sender
    BY DEF AcceptReply, vars
<1>2. sender \in [Server -> [Sender -> SenderType \cup {Nil}]]
    BY SMTT(60) DEF TypeOK, TaskTypeOK
<1>3. PICK k, ls : Continue(s, t, k, ls, log[s])
    BY DEF AcceptReply
<1>4. \E w : sender' = [sender EXCEPT ![s][t] = w] /\ (w = Nil \/ w.resp = Nil)
    <2>1. CASE PeersAfter(s, k) # {}
        <3>. DEFINE w == [at |-> NextPeer(s, k),
                          req |-> AppendRequest(s, Cluster[NextPeer(s, k)], ls, log[s]),
                          resp |-> Nil]
        <3>1. sender' = [sender EXCEPT ![s][t] = w] /\ w.resp = Nil
            BY <1>3, <2>1 DEF Continue
        <3>. QED
            BY <3>1
    <2>2. CASE PeersAfter(s, k) = {}
        BY <1>3, <2>2 DEF Continue
    <2>. QED
        BY <2>1, <2>2
<1>. QED
    BY <1>1, <1>2, <1>4 DEF Answered

LEMMA SafetyStep ==
    ASSUME Basics, TypeOK', ElectionSafety', TermsStart, SafetyInv,
           [Next]_vars, AnswersInTerm \/ UNCHANGED vars
    PROVE  SafetyInv' /\ ChosenKept /\ PrefixKept /\ AppliedStep
<1>1. AnswersInTerm /\ TypeOK /\ TermsUp /\ elections \subseteq elections'
    BY NothingCounted, TermsUpStep, ElectionsGrow DEF Basics
<1>2. PICK F \in LeaderLogs, A \in Acks : LogsKnown(F, A) /\ CommitInv(F, A)
    BY DEF SafetyInv
<1>3. Fits(F) /\ AckInv(F, A)
    BY <1>2 DEF LogsKnown
<1>4. PICK G \in LeaderLogs, B \in Acks :
          LogsGrow(F, G) /\ AcksGrow(A, B) /\ Fits(G)' /\ AckInv(G, B)'
    BY <1>1, <1>3, AcksStep DEF Basics
<1>5. Grown(F, A, G, B) /\ LogsKnown(G, B)'
    BY <1>1, <1>4 DEF Grown, LogsKnown
<1>6. CommitsOn(G, B)
    <2>1. CASE \E s \in Server : Round(s)
        BY <1>1, <1>2, <1>5, <2>1, CommitRound
    <2>2. CASE /\ Requests' \subseteq Requests /\ chosen' = chosen
               /\ \/ UNCHANGED <<log, commit_index, applied>>
                  \/ \E s \in Server : Forgets(s)
                  \/ \E m \in Requests : FollowLeader(m)
        BY <1>1, <1>2, <1>5, <2>2, CommitRest
    <2>. QED
        BY <2>1, <2>2, StepKinds DEF Basics
<1>7. SafetyInv'
    BY <1>5, <1>6 DEF SafetyInv, CommitsOn
<1>. QED
    BY <1>6, <1>7 DEF CommitsOn

LEMMA SafetyInit == Init => TermsStart /\ SafetyInv
<1>. SUFFICES ASSUME Init PROVE TermsStart /\ SafetyInv
    OBVIOUS
<1>1. TypeOK
    BY TypeInit
<1>2. PICK F \in LeaderLogs, A \in Acks : Fits(F) /\ AckInv(F, A)
    BY AcksInit
<1>3. /\ chosen = <<>> /\ Len(chosen) = 0
      /\ \A s \in Server : commit_index[s] = 0 /\ applied[s] = <<>> /\ log[s] = <<>>
    BY DEF Init
<1>4. Requests = {}
    BY DEF Init, Requests, EmptyBag, SetToBag
<1>5. ChosenIn(F, A, chosen) /\ RequestsKnown(F, A)
    BY <1>3, <1>4 DEF ChosenIn, RequestsKnown
<1>6. CommitsKnown(F, A)
    BY <1>3, EmptySeq DEF CommitsKnown, Known, Holds
<1>. QED
    BY <1>1, <1>2, <1>5, <1>6, AcksInit DEF SafetyInv, LogsKnown, CommitInv

\* The executions in which no answer is counted in a later term than it was
\* asked for in.
InTermSpec == Spec /\ [][AnswersInTerm]_vars

Safe == Basics /\ TermsStart /\ SafetyInv

LEMMA BasicsInductive == Spec => []Basics
<1>1. TypeOK /\ LeadersReady /\ MatchInv /\ ElectionInv /\ ElectionSafety => Basics
    BY DEF Basics, MatchInv
<1>. QED
    BY <1>1, MatchInductive, ElectionInductive, ElectionSafe, PTL

LEMMA SafeInductive == InTermSpec => []Safe
<1>1. Init => TermsStart /\ SafetyInv
    BY SafetyInit
<1>2. /\ Basics /\ Basics' /\ TermsStart /\ SafetyInv
      /\ [Next]_vars /\ [AnswersInTerm]_vars
      => (TermsStart /\ SafetyInv)'
    <2>. SUFFICES ASSUME Basics, Basics', TermsStart, SafetyInv,
                         [Next]_vars, [AnswersInTerm]_vars
                  PROVE  (TermsStart /\ SafetyInv)'
        OBVIOUS
    <2>1. TypeOK /\ TypeOK' /\ ElectionSafety'
        BY DEF Basics
    <2>. QED
        BY <2>1, SafetyStep, TermsStartStep
<1>. QED
    BY <1>1, <1>2, BasicsInductive, PTL DEF InTermSpec, Spec, Safe

\* A leader has every entry that was committed in its term or before, if no
\* answer is counted in a later term than it was asked for in.
THEOREM LeadersComplete == InTermSpec => []LeaderCompleteness
<1>1. Safe => LeaderCompleteness
    BY ChosenComplete DEF Safe, Basics, SafetyInv, CommitInv
<1>. QED
    BY <1>1, SafeInductive, PTL

\* What is committed is in the logs of a majority, and stays there, if no answer
\* is counted in a later term than it was asked for in.
THEOREM ChosenOnMajorities == InTermSpec => []ChosenOnMajority
<1>1. Safe => ChosenOnMajority
    BY ChosenHeld DEF Safe, SafetyInv, CommitInv
<1>. QED
    BY <1>1, SafeInductive, PTL

\* No log loses or replaces an entry its node knows to be committed, if no
\* answer is counted in a later term than it was asked for in.
THEOREM CommittedStays == InTermSpec => CommittedPrefixStable
<1>1. Safe /\ Safe' /\ [Next]_vars /\ [AnswersInTerm]_vars =>
        [\A s \in Server : \A i \in 1 .. commit_index[s] :
            i <= Len(log'[s]) /\ log'[s][i] = log[s][i]]_vars
    <2>. SUFFICES ASSUME Safe, Safe', [Next]_vars, [AnswersInTerm]_vars
                  PROVE  PrefixKept
        BY DEF PrefixKept
    <2>. QED
        BY SafetyStep DEF Safe, Basics
<1>. QED
    BY <1>1, SafeInductive, PTL DEF CommittedPrefixStable, InTermSpec, Spec

-----------------------------------------------------------------------------
(* The abstract log *)

Entries(ch) == [i \in DOMAIN ch |-> ch[i].entry]

LEMMA EntriesAre ==
    ASSUME NEW ch \in ChosenType
    PROVE  /\ Entries(ch) \in Seq(Entry) /\ Len(Entries(ch)) = Len(ch)
           /\ Len(ch) \in Nat
           /\ \A k \in 1 .. Len(ch) : Entries(ch)[k] = ch[k].entry
<1>1. Len(ch) \in Nat /\ DOMAIN ch = 1 .. Len(ch)
    BY LenProperties DEF ChosenType
<1>2. \A k \in 1 .. Len(ch) : ch[k] \in [entry : Entry, at : Nat]
    BY ElementOfSeq DEF ChosenType
<1>3. Entries(ch) = [i \in 1 .. Len(ch) |-> ch[i].entry]
    BY <1>1 DEF Entries
<1>4. \A k \in 1 .. Len(ch) : ch[k].entry \in Entry
    BY <1>2
<1>5. Entries(ch) \in Seq(Entry) /\ Len(Entries(ch)) = Len(ch)
    BY <1>1, <1>3, <1>4, IsASeq
<1>. QED
    BY <1>1, <1>3, <1>5

LEMMA StepAdvances ==
    ASSUME Safe, Safe', [Next]_vars, [AnswersInTerm]_vars
    PROVE  [Abstract!Next]_Abstract!vars
<1>. PICK old : old = Entries(chosen)
    OBVIOUS
<1>. PICK new : new = Entries(chosen')
    OBVIOUS
<1>1. ChosenKept /\ AppliedStep
    BY SafetyStep DEF Safe, Basics
<1>2. /\ chosen \in ChosenType /\ chosen' \in ChosenType
      /\ applied \in [Server -> Seq(Entry)] /\ applied' \in [Server -> Seq(Entry)]
    BY DEF Safe, Basics, TypeOK, LogTypeOK, ChosenType
<1>3. /\ old \in Seq(Entry) /\ Len(old) = Len(chosen) /\ Len(old) \in Nat
      /\ \A k \in 1 .. Len(old) : old[k] = chosen[k].entry
    BY <1>2, EntriesAre
<1>4. /\ new \in Seq(Entry) /\ Len(new) = Len(chosen') /\ Len(new) \in Nat
      /\ \A k \in 1 .. Len(new) : new[k] = chosen'[k].entry
    BY <1>2, EntriesAre
<1>5. Len(old) <= Len(new) /\ \A k \in 1 .. Len(old) : new[k] = old[k]
    BY <1>1, <1>3, <1>4 DEF ChosenKept
<1>6. ASSUME NEW s \in Server
      PROVE  /\ Len(applied[s]) \in Nat /\ Len(applied[s]) <= Len(old)
             /\ \A k \in 1 .. Len(applied[s]) : applied[s][k] = old[k]
    <2>1. PICK F \in LeaderLogs, A \in Acks : CommitsKnown(F, A)
        BY DEF Safe, SafetyInv, CommitInv
    <2>2. /\ Known(F, A, current_term[s], commit_index[s])
          /\ Holds(log[s], applied[s], commit_index[s], chosen)
        BY <2>1 DEF CommitsKnown
    <2>3. Len(applied[s]) \in Nat
        BY <1>2, LenProperties
    <2>. QED
        BY <1>3, <2>2, <2>3 DEF Known, Holds
<1>7. ASSUME NEW s \in Server
      PROVE  /\ Len(applied'[s]) \in Nat /\ Len(applied'[s]) <= Len(new)
             /\ \A k \in 1 .. Len(applied'[s]) : applied'[s][k] = new[k]
    <2>1. PICK F \in LeaderLogs, A \in Acks : CommitsKnown(F, A)'
        BY DEF Safe, SafetyInv, CommitInv
    <2>2. /\ Known(F, A, current_term[s], commit_index[s])'
          /\ Holds(log'[s], applied'[s], commit_index'[s], chosen')
        BY <2>1 DEF CommitsKnown
    <2>3. Len(applied'[s]) \in Nat
        BY <1>2, LenProperties
    <2>. QED
        BY <1>4, <2>2, <2>3 DEF Known, Holds
<1>8. CASE UNCHANGED <<chosen, applied>>
    BY <1>8 DEF Abstract!vars
<1>9. ASSUME NEW s \in Server, \A p \in Server \ {s} : applied'[p] = applied[p],
             Len(applied[s]) <= Len(applied'[s])
      PROVE  Abstract!Next
    <2>1. \A k \in 1 .. Len(applied[s]) : applied'[s][k] = applied[s][k]
        BY <1>3, <1>5, <1>6, <1>7, <1>9
    <2>2. Abstract!Prefix(old, new)
        BY <1>5 DEF Abstract!Prefix
    <2>3. Abstract!Prefix(applied[s], applied'[s])
        BY <1>9, <2>1 DEF Abstract!Prefix
    <2>4. Abstract!Prefix(applied'[s], new)
        BY <1>7 DEF Abstract!Prefix
    <2>5. Abstract!Advance(s)
        BY <1>2, <1>4, <1>9, <2>2, <2>3, <2>4 DEF Abstract!Advance, Entries
    <2>. QED
        BY <2>5 DEF Abstract!Next
<1>10. ASSUME NEW s \in Server, applied' = [applied EXCEPT ![s] = <<>>], chosen' = chosen
       PROVE  Abstract!Next
    BY <1>10 DEF Abstract!Next, Abstract!Restart
<1>. QED
    BY <1>1, <1>8, <1>9, <1>10 DEF AppliedStep

\* What is committed is one sequence that only grows, and every node applies it
\* in order, if no answer is counted in a later term than it was asked for in.
THEOREM ImplementsLog == InTermSpec => ImplementsReplicatedLog
<1>1. Init => Abstract!Init
    BY DEF Init, Abstract!Init
<1>2. Safe /\ Safe' /\ [Next]_vars /\ [AnswersInTerm]_vars
      => [Abstract!Next]_Abstract!vars
    BY StepAdvances
<1>. QED
    BY <1>1, <1>2, SafeInductive, PTL
       DEF InTermSpec, Spec, ImplementsReplicatedLog, Abstract!Spec

-----------------------------------------------------------------------------
(* What implementing the abstract log buys *)

\* The chosen sequence as the abstract log sees it, and what of it was applied.
AbstractTypeOK ==
    /\ Entries(chosen) \in Seq(Entry)
    /\ applied \in [Server -> Seq(Entry)]

\* Every server applied an initial segment of the chosen sequence.
AppliedChosen == \A s \in Server : Abstract!Prefix(applied[s], Entries(chosen))

LEMMA PrefixTransitive ==
    ASSUME NEW a \in Seq(Entry), NEW b \in Seq(Entry), NEW c \in Seq(Entry),
           Abstract!Prefix(a, b), Abstract!Prefix(b, c)
    PROVE  Abstract!Prefix(a, c)
<1>1. Len(a) \in Nat /\ Len(b) \in Nat /\ Len(c) \in Nat
    BY LenProperties
<1>. QED
    BY <1>1 DEF Abstract!Prefix

LEMMA PrefixesAgree ==
    ASSUME NEW a \in Seq(Entry), NEW b \in Seq(Entry), NEW c \in Seq(Entry),
           Abstract!Prefix(a, c), Abstract!Prefix(b, c)
    PROVE  Abstract!Prefix(a, b) \/ Abstract!Prefix(b, a)
<1>1. Len(a) \in Nat /\ Len(b) \in Nat /\ Len(c) \in Nat
    BY LenProperties
<1>. QED
    BY <1>1 DEF Abstract!Prefix

LEMMA AbstractInductive == Abstract!Spec => [](AbstractTypeOK /\ AppliedChosen)
<1>1. Abstract!Init => AbstractTypeOK /\ AppliedChosen
    BY EmptySeq, Len(<<>>) = 0
       DEF Abstract!Init, AbstractTypeOK, AppliedChosen, Abstract!Prefix, Entries
<1>2. AbstractTypeOK /\ AppliedChosen /\ [Abstract!Next]_Abstract!vars
      => (AbstractTypeOK /\ AppliedChosen)'
    <2>. SUFFICES ASSUME AbstractTypeOK, AppliedChosen, [Abstract!Next]_Abstract!vars
                  PROVE  AbstractTypeOK' /\ AppliedChosen'
        OBVIOUS
    <2>. PICK old : old = Entries(chosen)
        OBVIOUS
    <2>. PICK new : new = Entries(chosen')
        OBVIOUS
    <2>. SUFFICES /\ new \in Seq(Entry)
                  /\ applied' \in [Server -> Seq(Entry)]
                  /\ \A s \in Server : Abstract!Prefix(applied'[s], new)
        BY DEF AbstractTypeOK, AppliedChosen, Entries
    <2>0. /\ old \in Seq(Entry)
          /\ applied \in [Server -> Seq(Entry)]
          /\ \A s \in Server : Abstract!Prefix(applied[s], old)
        BY DEF AbstractTypeOK, AppliedChosen
    <2>1. ASSUME NEW s \in Server, Abstract!Advance(s)
          PROVE  /\ new \in Seq(Entry)
                 /\ applied' \in [Server -> Seq(Entry)]
                 /\ \A t \in Server : Abstract!Prefix(applied'[t], new)
        <3>1. /\ new \in Seq(Entry) /\ Abstract!Prefix(old, new)
              /\ applied' \in [Server -> Seq(Entry)]
              /\ Abstract!Prefix(applied'[s], new)
              /\ \A t \in Server \ {s} : applied'[t] = applied[t]
            BY <2>1 DEF Abstract!Advance, Entries
        <3>2. ASSUME NEW t \in Server \ {s}
              PROVE  Abstract!Prefix(applied'[t], new)
            BY <2>0, <3>1, PrefixTransitive
        <3>. QED
            BY <3>1, <3>2
    <2>2. ASSUME NEW s \in Server, Abstract!Restart(s)
          PROVE  /\ new \in Seq(Entry)
                 /\ applied' \in [Server -> Seq(Entry)]
                 /\ \A t \in Server : Abstract!Prefix(applied'[t], new)
        <3>1. /\ new = old
              /\ applied' = [applied EXCEPT ![s] = <<>>]
            BY <2>2 DEF Abstract!Restart, Entries
        <3>2. Abstract!Prefix(<<>>, old)
            BY <2>0, LenProperties, Len(<<>>) = 0 DEF Abstract!Prefix
        <3>. QED
            BY <2>0, <3>1, <3>2, EmptySeq
    <2>3. CASE UNCHANGED Abstract!vars
        BY <2>0, <2>3 DEF Abstract!vars, Entries
    <2>. QED
        BY <2>1, <2>2, <2>3 DEF Abstract!Next
<1>. QED
    BY <1>1, <1>2, PTL DEF Abstract!Spec

\* In the abstract log, of what any two servers applied one is an initial segment
\* of the other. What it says of the program comes with the refinement, below.
LEMMA Agreement == Abstract!Spec => []Abstract!StateMachinesAgree
<1>1. AbstractTypeOK /\ AppliedChosen => Abstract!StateMachinesAgree
    BY PrefixesAgree DEF AbstractTypeOK, AppliedChosen, Abstract!StateMachinesAgree
<1>. QED
    BY <1>1, AbstractInductive, PTL

\* Of what any two nodes handed to their command handlers since they started, one
\* is an initial segment of the other, if no answer is counted in a later term than
\* it was asked for in: lock tables fed by it cannot diverge.
THEOREM NodesAgree == InTermSpec => []Abstract!StateMachinesAgree
BY ImplementsLog, Agreement, PTL DEF ImplementsReplicatedLog
=============================================================================
