SPECIFICATION Spec
CONSTANTS
    n1 = n1
    n2 = n2
    n3 = n3
    k1 = k1
    k2 = k2
    Cluster <- MCCluster
    Key = {k1, k2}
    Call = {call1, call2}
    MaxSize = 1
    MaxVersion = 2
    MaxLate = 0
    MaxRestarts = 0
SYMMETRY Symmetry
INVARIANTS OneModified
