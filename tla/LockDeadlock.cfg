SPECIFICATION Spec
CONSTANTS
    Client = {c1, c2}
    Resource = {r1, r2, r3}
    Shared = Shared
    Exclusive = Exclusive
    MaxWaiting = 1
SYMMETRY Symmetry
INVARIANTS DeadlocksDetected
ACTION_CONSTRAINT OneRequestEach
