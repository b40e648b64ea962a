---------------------------- MODULE DurableQueue ----------------------------
(***************************************************************************)
(* What the copies of a queue on its nodes promise, crashes or not: a      *)
(* message that was stored waits until it is acknowledged there, and one   *)
(* that was acknowledged does not wait again unless it is published anew.  *)
(* A restart is no step of it.  What a node cannot promise is to lose      *)
(* nothing when a crash hits its file.                                     *)
(***************************************************************************)
CONSTANTS Node, Message

VARIABLES
    waiting,    \* per node: the messages to deliver
    done        \* per node: the messages it knows to be acknowledged

vars == <<waiting, done>>

Init ==
    /\ waiting = [n \in Node |-> {}]
    /\ done = [n \in Node |-> {}]

\* A client publishes m at n, maybe not for the first time.
Publish(n, m) ==
    /\ waiting' = [waiting EXCEPT ![n] = @ \cup {m}]
    /\ done' = [done EXCEPT ![n] = @ \ {m}]

\* A copy of what was published elsewhere: not of what is done here.
Replicate(n, m) ==
    /\ m \notin done[n]
    /\ waiting' = [waiting EXCEPT ![n] = @ \cup {m}]
    /\ UNCHANGED done

Settle(n, m) ==
    /\ m \in waiting[n]
    /\ waiting' = [waiting EXCEPT ![n] = @ \ {m}]
    /\ done' = [done EXCEPT ![n] = @ \cup {m}]

\* The node forgets what it had acknowledged, and nothing else.
Forget(n) ==
    /\ \E kept \in SUBSET done[n] : done' = [done EXCEPT ![n] = kept]
    /\ UNCHANGED waiting

\* The file of n is lost.
Lose(n) ==
    /\ waiting' = [waiting EXCEPT ![n] = {}]
    /\ done' = [done EXCEPT ![n] = {}]

Next ==
    \E n \in Node :
        \/ \E m \in Message : Publish(n, m) \/ Replicate(n, m) \/ Settle(n, m)
        \/ Forget(n) \/ Lose(n)

Spec == Init /\ [][Next]_vars
=============================================================================
