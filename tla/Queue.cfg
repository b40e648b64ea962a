SPECIFICATION FairSpec
CONSTANTS
    n1 = n1
    n2 = n2
    n3 = n3
    m1 = m1
    m2 = m2
    Node <- MCNode
    Message <- MCMessage
    Key <- MCKey
    QueueName = q
    Space = 12
    Points <- MCPoints
    Hash <- MCHash
    Torn = Torn
    Consumer = {n3}
    Asked = {n1, n3}
    ReplicationFactor = 2
    PendingLimit = 2
    ConsumeLimit = 1
    Call = {1, 2}
    MaxCalls = 3
    MaxFaults = 1
    Silent <- MCSilent
    SuspectThreshold = 1
    DeadThreshold = 2
    MaxTasks = 1
CHECK_DEADLOCK FALSE
ACTION_CONSTRAINTS DetectorApart SecondMessage
INVARIANTS TypeOK FileIsCurrent LiveNodesStay
PROPERTIES SettledIsOver ImplementsDurableQueue Redelivered
