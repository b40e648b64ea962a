------------------------------- MODULE MCRaft -------------------------------
(* Values for the constants of Raft: a cluster of three, as in the           *)
(* configuration of the repository, and the scopes of its runs.              *)
EXTENDS Raft

CONSTANTS s1, s2, s3

MCServer  == {s1, s2, s3}
MCCluster == <<s1, s2, s3>>

\* A run about replication does not read the votes, which nothing else depends on.
WithoutVotes == <<persistent, volatile, election, sender, stray, faults,
                  elections, chosen>>

\* Scope: the election timer of s3 does not run out.
TwoContenders == role[s3] # Candidate

\* Scope: while an election is on, only elections go on.  Vote requests and
\* append requests still meet every node in every order, because the appends
\* of a leader may be outstanding from before the election to after it.
ElectionsFirst ==
    (\E s \in Server : election[s] # Nil) => election' # election

\* Scope: a heartbeat round starts only when a peer is behind.
UsefulHeartbeats ==
    \A s \in Server :
        sender[s][Heartbeat] = Nil /\ sender'[s][Heartbeat] # Nil =>
            \E p \in Others(s) :
                log[p] # log[s] \/ commit_index[p] < commit_index[s]

\* Scope: a heartbeat round starts only when a peer is behind, or the leader
\* has something to commit.
NeededHeartbeats ==
    \A s \in Server :
        sender[s][Heartbeat] = Nil /\ sender'[s][Heartbeat] # Nil =>
            \/ commit_index[s] < Len(log[s])
            \/ \E p \in Others(s) :
                  \/ log[p] # log[s]
                  \/ commit_index[p] < commit_index[s]
                  \/ current_term[p] < current_term[s]

\* Scope: in term 1 a heartbeat round does not start while a client's round is
\* on; a client's round may start at any time.
RoundsApart ==
    \A s \in Server :
        /\ sender[s][Heartbeat] = Nil
        /\ sender'[s][Heartbeat] # Nil
        /\ current_term[s] = 1
        => \A t \in Proposer : sender[s][t] = Nil

\* Scope: the election of term 1 is s1's.
FirstContender == voted_for[s2] = s2 => current_term[s2] > 1

\* Scope: the second fault is a crash of s3 in a handler: over entries, or over
\* an old request.
SecondFaultInHandler ==
    faults' = 2 /\ faults = 1 =>
        \/ \E s \in Server, t \in Sender :
              CrashOnAppend(s, t) /\ sender[s][t].req.dst = s3
        \/ \E m \in BagToSet(stray) : m.dst = s3 /\ CrashOnStray(m)

\* Scope: the first election is s1's.
FirstElection == voted_for[s2] = s2 => current_term[s1] > 0

\* Scope: no round starts while an election is on; those that are on go on.
RoundsBetweenElections ==
    \A s \in Server, t \in Sender :
        sender[s][t] = Nil /\ sender'[s][t] # Nil =>
            \A p \in Server : election[p] = Nil

(* Scopes of raft_late_answer, which looks for one answer that comes late.   *)

\* Scope: s1 and s2 lead in turns, s3 never does.  A leader falls when it has
\* two entries (s1 in term 1) or one (s2 in term 2), or when it brought its log
\* to s3 (term 3) or to s1 (term 4).
Turns ==
    \A s \in Server :
        election[s] = Nil /\ election'[s] # Nil =>
            LET term == current_term[s] IN
            /\ \A p \in Server : current_term[p] <= term
            /\ Cardinality(elections) = term
            /\ s = IF term % 2 = 0 THEN s1 ELSE s2
            /\ term = 1 => Len(log[s1]) = 2
            /\ term = 2 => Len(log[s2]) = 1
            /\ term = 3 => log[s3] = log[s1]
            /\ term = 4 => log[s1] = log[s2]

\* Scope: clients propose in terms 1, 2 and 5, once in term 2; heartbeat rounds
\* start in terms 3 and 4.
RoundsWhen ==
    \A s \in Server, t \in Sender :
        sender[s][t] = Nil /\ sender'[s][t] # Nil =>
            IF t = Heartbeat THEN current_term[s] \in {3, 4}
            ELSE \/ current_term[s] \in {1, 5}
                 \/ current_term[s] = 2 /\ log[s] = <<>>

\* Scope: what is sent in terms 1 and 2 takes until a later term to arrive.
SlowAtFirst ==
    \A s \in Server, t \in Sender :
        AnswerAppend(s, t) => current_term[s] > 2
=============================================================================
