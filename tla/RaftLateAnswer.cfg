SPECIFICATION Spec
CONSTANTS
    s1 = s1
    s2 = s2
    s3 = s3
    Server <- MCServer
    Cluster <- MCCluster
    Command = {a}
    Proposer = {p1, p2}
    Heartbeat = heartbeat
    Nil = Nil
    Lost = Lost
    Follower = Follower
    Candidate = Candidate
    Leader = Leader
    MaxTerm = 5
    MaxLog = 2
    MaxFaults = 0
CHECK_DEADLOCK FALSE
VIEW WithoutVotes
ACTION_CONSTRAINTS ElectionsFirst Turns RoundsWhen SlowAtFirst
INVARIANTS ChosenOnMajority
