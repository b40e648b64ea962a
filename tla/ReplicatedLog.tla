---------------------------- MODULE ReplicatedLog ----------------------------
(***************************************************************************)
(* What src/consensus/raft.py promises the state machine above it: there   *)
(* is one sequence of chosen commands, it only grows, and every server     *)
(* hands its command_handler a prefix of it, in order.  A restarted server *)
(* starts again from nothing, because commit_index and last_applied are    *)
(* not saved.                                                              *)
(***************************************************************************)
EXTENDS Naturals, Sequences

CONSTANTS
    Server,     \* the nodes of the cluster
    Entry       \* what a log position can hold

VARIABLES
    chosen,     \* the committed sequence
    applied     \* applied[s]: what s handed to its command_handler, in order

vars == <<chosen, applied>>

\* a is an initial segment of b.
Prefix(a, b) ==
    /\ Len(a) <= Len(b)
    /\ \A i \in 1 .. Len(a) : a[i] = b[i]

Init ==
    /\ chosen = <<>>
    /\ applied = [s \in Server |-> <<>>]

\* A step of s may extend the chosen sequence and what s applied of it.
Advance(s) ==
    /\ chosen' \in Seq(Entry)
    /\ Prefix(chosen, chosen')
    /\ applied' \in [Server -> Seq(Entry)]
    /\ \A t \in Server \ {s} : applied'[t] = applied[t]
    /\ Prefix(applied[s], applied'[s])
    /\ Prefix(applied'[s], chosen')

Restart(s) ==
    /\ applied' = [applied EXCEPT ![s] = <<>>]
    /\ UNCHANGED chosen

Next == \E s \in Server : Advance(s) \/ Restart(s)

Spec == Init /\ [][Next]_vars

\* Two servers never apply different commands at one position: of what any
\* two of them applied, one is an initial segment of the other.  It is what
\* raft.py's apply loop needs for the lock tables of all nodes to agree.
StateMachinesAgree ==
    \A s, t \in Server :
        \/ Prefix(applied[s], applied[t])
        \/ Prefix(applied[t], applied[s])
==============================================================================
