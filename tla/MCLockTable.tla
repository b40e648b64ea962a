---------------------------- MODULE MCLockTable ----------------------------
(* Values for the constants of LockTable. Clients and resources are model    *)
(* values that no definition tells apart, so both may be permuted.           *)
EXTENDS LockTable, DetectCycle, TLC

Symmetry == Permutations(Client) \cup Permutations(Resource)

\* Whatever the order of its sets, the search decides what HasCycle says, on
\* every graph of the clients, with circles of one and circles elsewhere.
ASSUME SearchDecidesHasCycle ==
    \A g \in [Client -> SUBSET Client], c \in Client :
        DetectCycle(g, c) = {HasCycle(g, c)}

\* Scope: clients that wait for one answer before they ask for the next, and do
\* not ask for what they hold: a queued client is granted nothing else and
\* joins no second queue.
OneRequestEach ==
    /\ locks' # locks
    /\ \A x \in grants' \ grants :
        ~\E r \in DOMAIN locks : Queued(locks, x.client_id, r)
    /\ \A c \in Client : \A q, r \in DOMAIN locks' :
        Queued(locks', c, q) /\ Queued(locks', c, r) => q = r
=============================================================================
