SPECIFICATION FairSpec
CONSTANTS
    s1 = s1
    s2 = s2
    s3 = s3
    Server <- MCServer
    Cluster <- MCCluster
    Command = {a}
    Proposer = {p1}
    Heartbeat = heartbeat
    Nil = Nil
    Lost = Lost
    Follower = Follower
    Candidate = Candidate
    Leader = Leader
    MaxTerm = 2
    MaxLog = 1
    MaxFaults = 2
CHECK_DEADLOCK FALSE
CONSTRAINTS TwoContenders FirstElection
ACTION_CONSTRAINTS SecondFaultInHandler RoundsBetweenElections NeededHeartbeats RoundsApart
INVARIANTS TypeOK ElectionSafety OneVotePerTerm LeadersAreElected ChosenOnMajority
PROPERTIES LeaderAppendOnly ImplementsReplicatedLog ProposalsCommit
