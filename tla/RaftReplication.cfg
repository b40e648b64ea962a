SPECIFICATION Spec
CONSTANTS
    s1 = s1
    s2 = s2
    s3 = s3
    Server <- MCServer
    Cluster <- MCCluster
    Command = {a}
    Proposer = {p1}
    Heartbeat = heartbeat
    Nil = Nil
    Lost = Lost
    Follower = Follower
    Candidate = Candidate
    Leader = Leader
    MaxTerm = 3
    MaxLog = 2
    MaxFaults = 0
CHECK_DEADLOCK FALSE
VIEW WithoutVotes
CONSTRAINTS TwoContenders FirstContender
ACTION_CONSTRAINTS ElectionsFirst UsefulHeartbeats RoundsApart
INVARIANTS LogMatching LeaderCompleteness ChosenOnMajority
PROPERTIES CommittedPrefixStable ImplementsReplicatedLog
