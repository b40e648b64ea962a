SPECIFICATION Spec
CONSTANTS
    Client = {c1, c2, c3}
    Resource = {r1, r2}
    Shared = Shared
    Exclusive = Exclusive
    MaxWaiting = 2
SYMMETRY Symmetry
INVARIANTS ExclusiveAccess
