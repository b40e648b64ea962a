------------------------------ MODULE MCCache ------------------------------
(* Values for the constants of Cache: three nodes and two keys, and what     *)
(* each node is used for in the runs. No definition tells calls apart.       *)
EXTENDS Cache, TLC

CONSTANTS n1, n2, n3, k1, k2

MCCluster == <<n1, n2, n3>>

Symmetry == Permutations(Call)

Begins(c) == calls[c] = Idle /\ calls'[c] # Idle

WritesTo(n, k) ==
    {c \in Call : /\ calls[c] # Idle
                  /\ calls[c].op = "write"
                  /\ calls[c].node = n
                  /\ calls[c].key = k}

\* Scope: n1 reads and writes; n2 writes k1 once; n3 reads.
Roles ==
    \A c \in Call : Begins(c) =>
        /\ calls'[c].node = n2 =>
              /\ calls'[c].op = "write"
              /\ versions[n2][k1] = 0
              /\ WritesTo(n2, k1) = {}
        /\ calls'[c].node = n3 => calls'[c].op = "read"

\* Scope: the second key is there to be evicted, or to evict: n1 writes it once,
\* before any restart.
SecondKey ==
    \A c \in Call : Begins(c) /\ calls'[c].key = k2 =>
        /\ calls'[c].op = "write"
        /\ calls'[c].node = n1
        /\ versions[n1][k2] = 0
        /\ WritesTo(n1, k2) = {}
        /\ restarts = 0

\* Scope: a restart or a late request.
OneFault == Cardinality(late) + restarts <= 1
=============================================================================
