SPECIFICATION Spec
CONSTANTS
    n1 = n1
    n2 = n2
    n3 = n3
    c1 = c1
    c2 = c2
    Node = {n1, n2, n3}
    Client = {c1, c2}
    Resource = {r1}
    Call = {call1, call2, call3}
    Shared = Shared
    Exclusive = Exclusive
    Nil = Nil
    MaxElections = 2
    MaxRestarts = 0
SYMMETRY Symmetry
ACTION_CONSTRAINTS ExclusiveOnly Roles FallsToNewer ExecutesAsLeader
INVARIANTS ReleasedIsKept
CHECK_DEADLOCK FALSE
