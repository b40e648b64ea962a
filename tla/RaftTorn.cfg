SPECIFICATION TornSpec
CONSTANTS
    s1 = s1
    s2 = s2
    s3 = s3
    Server <- MCServer
    Cluster <- MCCluster
    Command = {a}
    Proposer = {}
    Heartbeat = heartbeat
    Nil = Nil
    Lost = Lost
    Follower = Follower
    Candidate = Candidate
    Leader = Leader
    MaxTerm = 1
    MaxLog = 0
    MaxFaults = 1
CHECK_DEADLOCK FALSE
INVARIANTS ElectionSafety
