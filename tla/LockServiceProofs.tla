-------------------------- MODULE LockServiceProofs --------------------------
(***************************************************************************)
(* Proofs about LockService, for every set of nodes, clients, resources    *)
(* and calls.  First the futures of pending_requests are those of the      *)
(* calls that wait, and they are on leaders; what the tables hold and what *)
(* the logs do plays no part in that.  Then what LockTableProofs shows of  *)
(* one table is shown of every node's, and last what a client was told it  *)
(* acquired is followed from its call through the log into every table.    *)
(***************************************************************************)
EXTENDS LockService, TLAPS

-----------------------------------------------------------------------------
(* The inductive invariant *)

\* The calls and what Forward and StepDown read are of their types.
CallsTyped ==
    /\ calls \in [Call -> {Unused} \cup CallRecord]
    /\ pending_requests \in [Node -> SUBSET Call]
    /\ leaders \subseteq Node
    /\ newest \in Node \cup {Nil}
    /\ current_leader \in [Node -> Node \cup {Nil}]

\* A call gets the result of its future only after it was proposed, and only an
\* acquire has one to wait for.
CallsInOrder ==
    \A i \in Call : Used(i) =>
        /\ calls[i].stage = "sent" => calls[i].result = Nil
        /\ calls[i].stage = "waiting" => calls[i].op = "acquire"

\* Only leaders keep futures.
PendingAtLeaders == \A n \in Node : pending_requests[n] # {} => n \in leaders

IInv == CallsTyped /\ CallsInOrder /\ PendingAreAwaited /\ PendingAtLeaders

-----------------------------------------------------------------------------
(* Calls *)

\* What Used means for the record of a call.
LEMMA UsedCalls ==
    ASSUME CallsTyped, NEW i \in Call
    PROVE  Used(i) <=> calls[i] \in CallRecord
<1>1. calls[i] \in {Unused} \cup CallRecord
    BY DEF CallsTyped
<1>2. Unused \notin CallRecord
    BY DEF Unused, CallRecord
<1>. QED
    BY <1>1, <1>2 DEF Used

\* The record of a call whose handler has ended.
LEMMA AnsweredCalls ==
    ASSUME CallsTyped, NEW i \in Call, Used(i), NEW status \in Status
    PROVE  Answered(i, status) \in CallRecord /\ Answered(i, status).stage = "done"
<1>1. calls[i] \in CallRecord
    BY UsedCalls
<1>. QED
    BY <1>1 DEF CallRecord, Answered

\* A step of one call: its record is replaced, and its future is kept, or not,
\* as the new record says. Nothing else has to be looked at.
LEMMA OneCall ==
    ASSUME IInv, NEW i \in Call, NEW record \in CallRecord,
           calls' = [calls EXCEPT ![i] = record],
           record.stage = "sent" => record.result = Nil,
           record.stage = "waiting" => record.op = "acquire",
           UNCHANGED <<leaders, newest, current_leader>>,
           pending_requests' \in [Node -> SUBSET Call],
           \A n \in Node : \A j \in Call \ {i} :
               j \in pending_requests'[n] <=> j \in pending_requests[n],
           \A n \in Node : i \in pending_requests'[n] <=>
               /\ record.op = "acquire"
               /\ record.at = n
               /\ record.stage \in {"proposing", "waiting"}
               /\ record.result = Nil,
           \A n \in Node : i \in pending_requests'[n] => n \in leaders
    PROVE  IInv'
<1>. USE DEF IInv
<1>1. /\ calls'[i] = record
      /\ \A j \in Call \ {i} : calls'[j] = calls[j]
      /\ calls' \in [Call -> {Unused} \cup CallRecord]
    BY DEF CallsTyped
<1>2. CallsTyped'
    BY <1>1 DEF CallsTyped
<1>3. record # Unused
    BY DEF CallRecord, Unused
<1>4. CallsInOrder'
    BY <1>1, <1>3 DEF CallsInOrder, Used
<1>5. PendingAreAwaited'
    <2>. SUFFICES ASSUME NEW n \in Node, NEW j \in Call
                  PROVE  j \in pending_requests'[n] <=>
                            /\ Used(j)'
                            /\ calls'[j].op = "acquire"
                            /\ calls'[j].at = n
                            /\ calls'[j].stage \in {"proposing", "waiting"}
                            /\ calls'[j].result = Nil
        BY <1>2 DEF PendingAreAwaited, CallsTyped
    <2>1. CASE j = i
        BY <2>1, <1>1, <1>3 DEF Used
    <2>2. CASE j # i
        BY <2>2, <1>1 DEF Used, PendingAreAwaited
    <2>. QED
        BY <2>1, <2>2
<1>6. PendingAtLeaders'
    <2>. SUFFICES ASSUME NEW n \in Node, NEW j \in Call, j \in pending_requests'[n]
                  PROVE  n \in leaders
        BY <1>2 DEF PendingAtLeaders, CallsTyped
    <2>. QED
        BY DEF PendingAtLeaders
<1>. QED
    BY <1>2, <1>4, <1>5, <1>6

-----------------------------------------------------------------------------
(* Inductiveness *)

LEMMA Initially == Init => IInv
<1>. SUFFICES ASSUME Init PROVE IInv
    OBVIOUS
<1>1. \A i \in Call : ~Used(i)
    BY DEF Init, Used
<1>. QED
    BY <1>1 DEF Init, IInv, CallsTyped, CallsInOrder, PendingAreAwaited, PendingAtLeaders

\* A call is asked for, or goes where it will be proposed.
LEMMA BeforeProposal ==
    ASSUME IInv, NEW i \in Call,
           \/ \E op \in {"acquire", "release"}, c \in Client, r \in Resource,
                 type \in {Shared, Exclusive}, n \in Node : Ask(i, op, c, r, type, n)
           \/ Forward(i)
           \/ DenyWithoutLeader(i)
    PROVE  IInv'
<1>. USE DEF IInv
<1>1. ~Used(i) \/ calls[i].stage = "sent" => \A n \in Node : i \notin pending_requests[n]
    BY DEF PendingAreAwaited
<1>2. ASSUME NEW op \in {"acquire", "release"}, NEW c \in Client, NEW r \in Resource,
             NEW type \in {Shared, Exclusive}, NEW n \in Node, Ask(i, op, c, r, type, n)
      PROVE  IInv'
    <2>. DEFINE record == [op |-> op, client |-> c, resource |-> r, type |-> type,
                           at |-> n, forwarded |-> FALSE, stage |-> "sent",
                           result |-> Nil, told |-> Nil]
    <2>1. record \in CallRecord
        BY DEF CallRecord
    <2>2. /\ calls' = [calls EXCEPT ![i] = record]
          /\ record.stage = "sent" /\ record.result = Nil
          /\ UNCHANGED <<pending_requests, leaders, newest, current_leader>>
        BY <1>2 DEF Ask, raft
    <2>3. \A m \in Node : i \notin pending_requests[m]
        BY <1>1, <1>2 DEF Ask
    <2>. HIDE DEF record
    <2>. QED
        BY <2>1, <2>2, <2>3, OneCall DEF CallsTyped
<1>3. CASE Forward(i)
    <2>. DEFINE n == current_leader[calls[i].at]
                record == [calls[i] EXCEPT !.at = n, !.forwarded = TRUE]
    <2>1. Used(i) /\ calls[i] \in CallRecord /\ calls[i].stage = "sent"
        BY <1>3, UsedCalls DEF Forward
    <2>2. n \in Node
        BY <1>3, <2>1 DEF Forward, CallsTyped, CallRecord
    <2>3. record \in CallRecord /\ record.stage = "sent" /\ record.result = Nil
        BY <2>1, <2>2 DEF CallRecord, CallsInOrder
    <2>4. /\ calls' = [calls EXCEPT ![i] = record]
          /\ UNCHANGED <<pending_requests, leaders, newest, current_leader>>
        BY <1>3 DEF Forward, raft
    <2>5. \A m \in Node : i \notin pending_requests[m]
        BY <1>1, <2>1
    <2>. HIDE DEF record, n
    <2>. QED
        BY <2>3, <2>4, <2>5, OneCall DEF CallsTyped
<1>4. CASE DenyWithoutLeader(i)
    <2>. DEFINE record == Answered(i, "denied")
    <2>1. record \in CallRecord /\ record.stage = "done"
        BY <1>4, AnsweredCalls DEF DenyWithoutLeader, Status
    <2>2. /\ calls' = [calls EXCEPT ![i] = record]
          /\ UNCHANGED <<pending_requests, leaders, newest, current_leader>>
        BY <1>4 DEF DenyWithoutLeader, Answer, raft
    <2>3. \A m \in Node : i \notin pending_requests[m]
        BY <1>1, <1>4 DEF DenyWithoutLeader
    <2>. HIDE DEF record
    <2>. QED
        BY <2>1, <2>2, <2>3, OneCall DEF CallsTyped
<1>. QED
    BY <1>2, <1>3, <1>4

\* A call is proposed, and its propose comes to an end.
LEMMA Proposing ==
    ASSUME IInv, NEW i \in Call,
           Propose(i) \/ ProposeEnds(i) \/ ProposeRaises(i)
    PROVE  IInv'
<1>. USE DEF IInv
<1>1. Used(i) /\ calls[i] \in CallRecord
    BY UsedCalls DEF Propose, ProposeEnds, ProposeRaises
<1>2. \A n \in Node : i \in pending_requests[n] <=>
          /\ calls[i].op = "acquire"
          /\ calls[i].at = n
          /\ calls[i].stage \in {"proposing", "waiting"}
          /\ calls[i].result = Nil
    BY <1>1 DEF PendingAreAwaited
<1>3. /\ pending_requests \in [Node -> SUBSET Call]
      /\ \A n \in Node : i \in pending_requests[n] => n \in leaders
    BY DEF CallsTyped, PendingAtLeaders
<1>4. CASE Propose(i)
    <2>. DEFINE record == [calls[i] EXCEPT !.stage = "proposing"]
    <2>1. /\ record \in CallRecord
          /\ record.stage = "proposing" /\ record.result = Nil
          /\ record.op = calls[i].op /\ record.at = calls[i].at
        BY <1>1, <1>4 DEF CallRecord, Propose, CallsInOrder
    <2>2. calls' = [calls EXCEPT ![i] = record]
        BY <1>4 DEF Propose
    <2>3. UNCHANGED <<leaders, newest, current_leader>>
        BY <1>4 DEF Propose
    <2>4. calls[i].at \in leaders
        BY <1>4 DEF Propose
    <2>5. \A n \in Node : i \notin pending_requests[n]
        BY <1>2, <1>4 DEF Propose
    <2>6. /\ pending_requests' \in [Node -> SUBSET Call]
          /\ \A n \in Node : \A j \in Call \ {i} :
                j \in pending_requests'[n] <=> j \in pending_requests[n]
          /\ \A n \in Node : i \in pending_requests'[n] <=>
                calls[i].op = "acquire" /\ calls[i].at = n
        BY <1>1, <1>4, <2>5 DEF Propose, CallsTyped, CallRecord
    <2>. HIDE DEF record
    <2>. QED
        BY <2>1, <2>2, <2>3, <2>4, <2>6, OneCall, ZenonT(60)
<1>5. CASE ProposeEnds(i) /\ calls[i].op = "acquire"
    <2>. DEFINE record == [calls[i] EXCEPT !.stage = "waiting"]
    <2>1. /\ record \in CallRecord
          /\ record.stage = "waiting" /\ record.op = "acquire"
          /\ record.at = calls[i].at /\ record.result = calls[i].result
        BY <1>1, <1>5 DEF CallRecord
    <2>2. /\ calls' = [calls EXCEPT ![i] = record]
          /\ calls[i].stage = "proposing"
          /\ UNCHANGED <<pending_requests, leaders, newest, current_leader>>
        BY <1>5 DEF ProposeEnds, Returned, raft
    <2>. HIDE DEF record
    <2>. QED
        BY <1>2, <1>3, <1>5, <2>1, <2>2, OneCall, ZenonT(60)
<1>6. CASE ProposeEnds(i) /\ calls[i].op # "acquire"
    <2>. DEFINE record == Answered(i, "released")
    <2>1. record \in CallRecord /\ record.stage = "done"
        BY <1>1, AnsweredCalls DEF Status
    <2>2. calls[i].op = "release" /\ "released" # Nil
        BY <1>1, <1>6, NilAssumption DEF CallRecord, Status
    <2>3. /\ calls' = [calls EXCEPT ![i] = record]
          /\ UNCHANGED <<pending_requests, leaders, newest, current_leader>>
        BY <1>6, <2>2 DEF ProposeEnds, Returned, Answer, raft
    <2>. HIDE DEF record
    <2>. QED
        BY <1>2, <1>6, <2>1, <2>3, OneCall DEF CallsTyped
<1>7. CASE ProposeRaises(i)
    <2>. DEFINE record == Answered(i, Failure(i))
    <2>1. record \in CallRecord /\ record.stage = "done"
        BY <1>1, AnsweredCalls DEF Failure, Status
    <2>2. /\ calls' = [calls EXCEPT ![i] = record]
          /\ UNCHANGED <<pending_requests, leaders, newest, current_leader>>
        BY <1>7 DEF ProposeRaises, Answer, raft
    <2>3. \A n \in Node : i \notin pending_requests[n]
        BY <1>2, <1>7 DEF ProposeRaises, PendingAtLeaders
    <2>. HIDE DEF record
    <2>. QED
        BY <2>1, <2>2, <2>3, OneCall DEF CallsTyped
<1>. QED
    BY <1>4, <1>5, <1>6, <1>7

\* The future of a call is given its result, or the call ends.
LEMMA Ending ==
    ASSUME IInv, NEW i \in Call,
           Resume(i) \/ TimeOut(i) \/ ForwardFails(i)
    PROVE  IInv'
<1>. USE DEF IInv
<1>1. Used(i) /\ calls[i] \in CallRecord
    BY UsedCalls DEF Resume, TimeOut, ForwardFails, Open
<1>2. \A n \in Node : i \in pending_requests[n] <=>
          /\ calls[i].op = "acquire"
          /\ calls[i].at = n
          /\ calls[i].stage \in {"proposing", "waiting"}
          /\ calls[i].result = Nil
    BY <1>1 DEF PendingAreAwaited
<1>3. /\ calls[i].stage = "sent" => calls[i].result = Nil
      /\ calls[i].stage = "waiting" => calls[i].op = "acquire"
      /\ pending_requests \in [Node -> SUBSET Call]
      /\ \A n \in Node : i \in pending_requests[n] => n \in leaders
    BY <1>1 DEF CallsInOrder, CallsTyped, PendingAtLeaders
<1>4. ASSUME NEW status \in Status,
             calls' = [calls EXCEPT ![i] = Answered(i, status)],
             UNCHANGED <<leaders, newest, current_leader>>,
             pending_requests' = Without(calls[i].at, i)
      PROVE  IInv'
    <2>. DEFINE record == Answered(i, status)
    <2>1. record \in CallRecord /\ record.stage = "done"
        BY <1>1, AnsweredCalls
    <2>2. /\ pending_requests' \in [Node -> SUBSET Call]
          /\ \A n \in Node : \A j \in Call \ {i} :
                j \in pending_requests'[n] <=> j \in pending_requests[n]
          /\ \A n \in Node : i \notin pending_requests'[n]
        BY <1>1, <1>2, <1>4 DEF Without, CallsTyped, CallRecord
    <2>3. calls' = [calls EXCEPT ![i] = record]
        BY <1>4
    <2>. HIDE DEF record
    <2>. QED
        BY <1>4, <2>1, <2>2, <2>3, OneCall
<1>5. (\A n \in Node : i \notin pending_requests[n])
        => pending_requests = Without(calls[i].at, i)
    BY DEF Without, CallsTyped
<1>6. CASE Resume(i)
    <2>1. calls[i].result \in Status /\ \A n \in Node : i \notin pending_requests[n]
        BY <1>1, <1>2, <1>6 DEF Resume, CallRecord
    <2>. QED
        BY <1>4, <1>5, <1>6, <2>1 DEF Resume, Answer, raft
<1>7. CASE TimeOut(i)
    <2>1. "timeout" \in Status
        BY DEF Status
    <2>2. calls' = [calls EXCEPT ![i] = Answered(i, "timeout")]
        BY <1>7 DEF TimeOut, Answer
    <2>3. /\ pending_requests' = Without(calls[i].at, i)
          /\ UNCHANGED <<leaders, newest, current_leader>>
        BY <1>7 DEF TimeOut, raft
    <2>. QED
        BY <1>4, <2>1, <2>2, <2>3
<1>8. CASE ForwardFails(i)
    <2>1. CASE calls' = [calls EXCEPT ![i].told = "denied"]
        <3>. DEFINE record == [calls[i] EXCEPT !.told = "denied"]
        <3>1. /\ record \in CallRecord
              /\ record.op = calls[i].op /\ record.at = calls[i].at
              /\ record.stage = calls[i].stage /\ record.result = calls[i].result
            BY <1>1 DEF CallRecord, Status
        <3>2. /\ calls' = [calls EXCEPT ![i] = record]
              /\ UNCHANGED <<pending_requests, leaders, newest, current_leader>>
            BY <1>8, <2>1 DEF ForwardFails, raft
        <3>. HIDE DEF record
        <3>3. /\ record.stage = "sent" => record.result = Nil
              /\ record.stage = "waiting" => record.op = "acquire"
            BY <1>3, <3>1
        <3>4. \A n \in Node : i \in pending_requests'[n] <=>
                /\ record.op = "acquire"
                /\ record.at = n
                /\ record.stage \in {"proposing", "waiting"}
                /\ record.result = Nil
            BY <1>2, <3>1, <3>2
        <3>5. /\ pending_requests' \in [Node -> SUBSET Call]
              /\ \A n \in Node : i \in pending_requests'[n] => n \in leaders
            BY <1>3, <3>2
        <3>. QED
            BY <3>1, <3>2, <3>3, <3>4, <3>5, OneCall
    <2>2. CASE calls[i].stage = "sent" /\ calls' = [calls EXCEPT ![i] = Answered(i, "denied")]
        BY <1>2, <1>4, <1>5, <1>8, <2>2 DEF ForwardFails, raft, Status
    <2>. QED
        BY <1>8, <2>1, <2>2 DEF ForwardFails
<1>. QED
    BY <1>6, <1>7, <1>8

\* A node executes a command: at most the future of its call is resolved.
LEMMA Applying ==
    ASSUME IInv, NEW n \in Node, Apply(n)
    PROVE  IInv'
<1>. USE DEF IInv
<1>. DEFINE i == agreed[last_applied[n] + 1]
            status == Table!AcquireStatus(locks[n], wait_for_graph[n],
                          calls[i].client, calls[i].resource, calls[i].type)
<1>1. UNCHANGED <<leaders, newest, current_leader>>
    BY SMTT(60) DEF Apply
<1>2. \/ /\ i \in pending_requests[n]
         /\ status \in {"acquired", "deadlock"}
         /\ pending_requests' = Without(n, i)
         /\ calls' = [calls EXCEPT ![i].result = status]
      \/ UNCHANGED <<pending_requests, calls>>
    BY DEF Apply, Resolves
<1>. HIDE DEF i, status
<1>3. CASE UNCHANGED <<pending_requests, calls>>
    BY <1>1, <1>3 DEF CallsTyped, CallsInOrder, PendingAreAwaited, PendingAtLeaders, Used
<1>4. CASE /\ i \in pending_requests[n]
           /\ status \in {"acquired", "deadlock"}
           /\ pending_requests' = Without(n, i)
           /\ calls' = [calls EXCEPT ![i].result = status]
    <2>. DEFINE record == [calls[i] EXCEPT !.result = status]
    <2>1. i \in Call
        BY <1>4 DEF CallsTyped
    <2>2. /\ Used(i) /\ calls[i] \in CallRecord
          /\ calls[i].op = "acquire" /\ calls[i].at = n
          /\ calls[i].stage \in {"proposing", "waiting"}
        BY <1>4, <2>1, UsedCalls DEF PendingAreAwaited
    <2>3. \A m \in Node : i \in pending_requests[m] => m = n
        BY <2>1, <2>2 DEF PendingAreAwaited
    <2>4. status \in Status /\ status # Nil
        BY <1>4, NilAssumption DEF Status
    <2>5. /\ record \in CallRecord
          /\ record.stage = calls[i].stage /\ record.result # Nil
          /\ record.op = "acquire"
        BY <2>2, <2>4 DEF CallRecord
    <2>6. /\ pending_requests' \in [Node -> SUBSET Call]
          /\ \A m \in Node : \A j \in Call \ {i} :
                j \in pending_requests'[m] <=> j \in pending_requests[m]
          /\ \A m \in Node : i \notin pending_requests'[m]
        BY <1>4, <2>3 DEF Without, CallsTyped
    <2>7. calls' = [calls EXCEPT ![i] = record]
        BY <1>4
    <2>. HIDE DEF record
    <2>. QED
        BY <1>1, <2>1, <2>2, <2>5, <2>6, <2>7, OneCall
<1>. QED
    BY <1>2, <1>3, <1>4

\* A node is elected, hears from the leader, or commands are agreed: the calls
\* stay where they are, and nobody stops being a leader.
LEMMA Consensus ==
    ASSUME IInv,
           \/ \E n \in Node : Elect(n) \/ Follow(n)
           \/ Agree
    PROVE  IInv'
<1>1. UNCHANGED <<calls, pending_requests>> /\ leaders \subseteq leaders'
    BY DEF Elect, Follow, Agree, service
<1>2. CallsTyped'
    BY <1>1, ZenonT(60) DEF IInv, CallsTyped, Elect, Follow, Agree
<1>. QED
    BY <1>1, <1>2 DEF IInv, CallsInOrder, PendingAreAwaited, PendingAtLeaders, Used

\* A node loses the leadership, or restarts: its futures go, and none of its
\* calls waits for one.
LEMMA Falling ==
    ASSUME IInv, NEW n \in Node, StepDown(n) \/ Restart(n)
    PROVE  IInv'
<1>. USE DEF IInv
<1>1. /\ pending_requests' = [pending_requests EXCEPT ![n] = {}]
      /\ leaders' = leaders \ {n}
      /\ newest' = IF newest = n THEN Nil ELSE newest
      /\ current_leader' \in [Node -> Node \cup {Nil}]
    BY DEF StepDown, Restart, CallsTyped
<1>2. ASSUME NEW i \in Call
      PROVE  \/ calls'[i] = calls[i] /\ i \notin pending_requests[n]
                 /\ (Used(i) => \/ calls[i].at # n
                                \/ ~ /\ calls[i].op = "acquire"
                                     /\ calls[i].stage \in {"proposing", "waiting"}
                                     /\ calls[i].result = Nil)
             \/ /\ Used(i) /\ calls[i].at = n /\ calls'[i] \in CallRecord
                /\ calls'[i].stage = "done"
             \/ /\ i \in pending_requests[n]
                /\ calls'[i] = [calls[i] EXCEPT !.result = "denied"]
    <2>1. i \in pending_requests[n] <=>
              /\ Used(i)
              /\ calls[i].op = "acquire"
              /\ calls[i].at = n
              /\ calls[i].stage \in {"proposing", "waiting"}
              /\ calls[i].result = Nil
        BY DEF PendingAreAwaited
    <2>2. CASE StepDown(n)
        BY <2>1, <2>2 DEF StepDown, Deposed
    <2>3. CASE Restart(n) /\ Used(i) /\ calls[i].at = n
        BY <2>3, AnsweredCalls DEF Restart, Failure, Status
    <2>4. CASE Restart(n) /\ ~(Used(i) /\ calls[i].at = n)
        BY <2>1, <2>4 DEF Restart
    <2>. QED
        BY <2>2, <2>3, <2>4
<1>3. ASSUME NEW i \in Call
      PROVE  /\ calls'[i] \in {Unused} \cup CallRecord
             /\ calls'[i] # Unused =>
                    /\ calls'[i].stage = "sent" => calls'[i].result = Nil
                    /\ calls'[i].stage = "waiting" => calls'[i].op = "acquire"
             /\ \A m \in Node : i \in pending_requests'[m] <=>
                    /\ calls'[i] # Unused
                    /\ calls'[i].op = "acquire"
                    /\ calls'[i].at = m
                    /\ calls'[i].stage \in {"proposing", "waiting"}
                    /\ calls'[i].result = Nil
    <2>1. \A m \in Node : i \in pending_requests[m] <=>
              /\ Used(i)
              /\ calls[i].op = "acquire"
              /\ calls[i].at = m
              /\ calls[i].stage \in {"proposing", "waiting"}
              /\ calls[i].result = Nil
        BY DEF PendingAreAwaited
    <2>2. /\ pending_requests'[n] = {}
          /\ \A m \in Node \ {n} : pending_requests'[m] = pending_requests[m]
        BY <1>1 DEF CallsTyped
    <2>3. /\ calls[i] \in {Unused} \cup CallRecord
          /\ Used(i) => /\ calls[i].stage = "sent" => calls[i].result = Nil
                        /\ calls[i].stage = "waiting" => calls[i].op = "acquire"
        BY DEF CallsTyped, CallsInOrder
    <2>4. CASE calls'[i] = calls[i] /\ i \notin pending_requests[n]
        BY <2>1, <2>2, <2>3, <2>4 DEF Used
    <2>5. CASE /\ Used(i) /\ calls[i].at = n /\ calls'[i] \in CallRecord
               /\ calls'[i].stage = "done"
        BY <2>1, <2>2, <2>5
    <2>6. CASE /\ i \in pending_requests[n]
               /\ calls'[i] = [calls[i] EXCEPT !.result = "denied"]
        <3>1. Used(i) /\ calls[i] \in CallRecord
            BY <2>1, <2>6, UsedCalls
        <3>2. "denied" \in Status /\ "denied" # Nil
            BY NilAssumption DEF Status
        <3>3. /\ calls'[i] \in CallRecord /\ calls'[i].result # Nil
              /\ calls'[i].op = calls[i].op /\ calls'[i].stage = calls[i].stage
            BY <2>6, <3>1, <3>2 DEF CallRecord
        <3>. QED
            BY <2>1, <2>2, <2>6, <3>3
    <2>. QED
        BY <1>2, <2>4, <2>5, <2>6
<1>4. CallsTyped'
    <2>1. calls' = [i \in Call |-> calls'[i]]
        BY DEF StepDown, Deposed, Restart
    <2>2. calls' \in [Call -> {Unused} \cup CallRecord]
        BY <1>3, <2>1
    <2>. QED
        BY <1>1, <2>2 DEF CallsTyped
<1>5. CallsInOrder'
    BY <1>3 DEF CallsInOrder, Used
<1>6. PendingAreAwaited'
    BY <1>3, <1>4 DEF PendingAreAwaited, CallsTyped, Used
<1>7. PendingAtLeaders'
    BY <1>1 DEF PendingAtLeaders, CallsTyped
<1>. QED
    BY <1>4, <1>5, <1>6, <1>7

LEMMA Stuttering ==
    ASSUME IInv, UNCHANGED vars
    PROVE  IInv'
BY DEF IInv, CallsTyped, CallsInOrder, PendingAreAwaited, PendingAtLeaders, Used,
       vars, service, raft

LEMMA Inductive == Spec => []IInv
<1>1. ASSUME IInv, Next
      PROVE  IInv'
    <2>1. ASSUME NEW i \in Call, NEW c \in Client, NEW r \in Resource, NEW n \in Node,
                 \/ \E type \in Table!LockType : Ask(i, "acquire", c, r, type, n)
                 \/ Ask(i, "release", c, r, Exclusive, n)
          PROVE  IInv'
        BY <1>1, <2>1, BeforeProposal DEF Table!LockType
    <2>2. ASSUME NEW i \in Call,
                 \/ Propose(i) \/ Forward(i) \/ DenyWithoutLeader(i)
                 \/ ProposeEnds(i) \/ ProposeRaises(i)
                 \/ Resume(i) \/ TimeOut(i) \/ ForwardFails(i)
          PROVE  IInv'
        BY <1>1, <2>2, BeforeProposal, Proposing, Ending
    <2>3. ASSUME NEW n \in Node,
                 Apply(n) \/ Elect(n) \/ StepDown(n) \/ Follow(n) \/ Restart(n)
          PROVE  IInv'
        BY <1>1, <2>3, Applying, Consensus, Falling
    <2>4. CASE Agree
        BY <1>1, <2>4, Consensus
    <2>. QED
        BY <1>1, <2>1, <2>2, <2>3, <2>4 DEF Next
<1>. QED
    BY <1>1, Initially, Stuttering, PTL DEF Spec

-----------------------------------------------------------------------------
(* The tables and the logs *)

\* What LockTableProofs shows of the commands, for any table.
TP == INSTANCE LockTableProofs WITH
    MaxWaiting <- 0, locks <- <<>>, wait_for_graph <- <<>>, grants <- {}

\* The table of every node is one the commands can make.
TablesOK ==
    /\ DOMAIN locks = Node
    /\ wait_for_graph \in [Node -> TP!Graph]
    /\ \A n \in Node :
        /\ TP!TableOK(locks[n])
        /\ TP!GraphOK(wait_for_graph[n], locks[n])

\* The logs hold calls that were made, and nothing else.
Asked == {i \in Call : Used(i)}

LogsOK ==
    /\ tail \in [Node -> Seq(Asked)]
    /\ agreed \in Seq(Asked)
    /\ last_applied \in [Node -> Nat]
    /\ \A n \in Node : last_applied[n] <= Len(agreed)
    /\ newest \in leaders \cup {Nil}

CountsOK ==
    /\ held \subseteq Client \X Resource
    /\ elections \in 0..MaxElections
    /\ restarts \in 0..MaxRestarts

\* A call once made stays made.
LEMMA CallsStay ==
    ASSUME IInv, Next, NEW i \in Call, Used(i)
    PROVE  Used(i)'
<1>1. /\ DOMAIN calls = Call
      /\ \A j \in Call : Used(j) => calls[j] \in CallRecord
    BY UsedCalls DEF IInv, CallsTyped
<1>2. SUFFICES calls'[i].stage # "unused"
    BY DEF Used, Unused
<1>3. calls[i].stage # "unused"
    BY <1>1 DEF CallRecord
<1>4. ASSUME NEW j \in Call, Used(j), NEW status
      PROVE  Answered(j, status).stage = "done"
    BY <1>1, <1>4 DEF Answered, CallRecord
<1>5. ASSUME NEW j \in Call, NEW c \in Client, NEW r \in Resource, NEW n \in Node,
             NEW op, NEW type, Ask(j, op, c, r, type, n)
      PROVE  calls'[i].stage # "unused"
    BY <1>1, <1>3, <1>5 DEF Ask
<1>6. ASSUME NEW j \in Call,
             \/ Propose(j) \/ Forward(j) \/ DenyWithoutLeader(j)
             \/ ProposeEnds(j) \/ ProposeRaises(j)
             \/ Resume(j) \/ TimeOut(j) \/ ForwardFails(j)
      PROVE  calls'[i].stage # "unused"
    <2>1. Used(j)
        BY <1>6 DEF Propose, Forward, DenyWithoutLeader, ProposeEnds,
                    ProposeRaises, Resume, TimeOut, ForwardFails, Open
    <2>2. CASE j # i
        BY <1>1, <1>3, <1>6, <2>2 DEF Propose, Forward, DenyWithoutLeader, ProposeEnds,
                    ProposeRaises, Resume, TimeOut, ForwardFails, Answer
    <2>3. CASE j = i
        <3>1. calls[i] \in CallRecord
            BY <1>1, <2>1, <2>3
        <3>2. CASE Propose(i) \/ Forward(i)
            BY <1>1, <3>1, <3>2, ZenonT(60) DEF Propose, Forward, CallRecord
        <3>3. CASE DenyWithoutLeader(i) \/ ProposeRaises(i) \/ Resume(i) \/ TimeOut(i)
            BY <1>1, <1>4, <2>1, <2>3, <3>3
               DEF DenyWithoutLeader, ProposeRaises, Resume, TimeOut, Answer
        <3>4. CASE ProposeEnds(i)
            BY <1>1, <1>4, <2>1, <2>3, <3>1, <3>4 DEF ProposeEnds, Answer, CallRecord
        <3>5. CASE ForwardFails(i)
            BY <1>1, <1>4, <2>1, <2>3, <3>1, <3>5 DEF ForwardFails, CallRecord
        <3>. QED
            BY <1>6, <2>3, <3>2, <3>3, <3>4, <3>5
    <2>. QED
        BY <2>2, <2>3
<1>7. ASSUME NEW n \in Node, Apply(n)
      PROVE  calls'[i].stage # "unused"
    <2>. DEFINE j == agreed[last_applied[n] + 1]
    <2>1. \/ calls' = calls
          \/ j \in pending_requests[n] /\ \E status : calls' = [calls EXCEPT ![j].result = status]
        BY <1>7 DEF Apply
    <2>. HIDE DEF j
    <2>2. j \in pending_requests[n] => j \in Call /\ Used(j)
        BY DEF IInv, PendingAreAwaited
    <2>. QED
        BY <1>1, <1>3, <2>1, <2>2, SMTT(60) DEF CallRecord
<1>8. ASSUME NEW n \in Node, Elect(n) \/ Follow(n)
      PROVE  calls'[i].stage # "unused"
    BY <1>3, <1>8 DEF Elect, Follow, service
<1>9. ASSUME NEW n \in Node, StepDown(n)
      PROVE  calls'[i].stage # "unused"
    BY <1>1, <1>3, <1>9 DEF StepDown, Deposed, CallRecord
<1>10. ASSUME NEW n \in Node, Restart(n)
       PROVE  calls'[i].stage # "unused"
    BY <1>1, <1>3, <1>4, <1>10 DEF Restart
<1>11. CASE Agree
    BY <1>3, <1>11 DEF Agree, service
<1>. QED
    BY <1>5, <1>6, <1>7, <1>8, <1>9, <1>10, <1>11 DEF Next

\* What the two modules name alike is the same.
LEMMA SameTable ==
    ASSUME NEW ls, NEW g, NEW c, NEW r, NEW type
    PROVE  /\ Table!LocksAfterAcquire(ls, g, c, r, type)
                = TP!LocksAfterAcquire(ls, g, c, r, type)
           /\ Table!GraphAfterAcquire(ls, g, c, r, type)
                = TP!GraphAfterAcquire(ls, g, c, r, type)
           /\ Table!LocksAfterRelease(ls, c, r) = TP!LocksAfterRelease(ls, c, r)
           /\ Table!GraphAfterRelease(ls, g, c, r)
                = TP!GraphAfterRelease(ls, g, c, r)
           /\ Table!Holds(ls, c, r) = TP!Holds(ls, c, r)
BY DEF Table!LocksAfterAcquire, Table!GraphAfterAcquire, Table!LocksAfterRelease,
       Table!GraphAfterRelease, Table!Holds, Table!AcquireStatus, Table!Entry,
       Table!CanAcquire, Table!HasCycle, Table!AddWait, Table!Put, Table!Remove,
       Table!Grant, Table!LockAfterRelease, Table!PassesOn, Table!ProcessWaiting,
       Table!Served, Table!ServedClients, Table!RunEnd, Table!Stops,
       Table!RemoveWaits, Table!RemoveHolder,
       TP!LocksAfterAcquire, TP!GraphAfterAcquire, TP!LocksAfterRelease,
       TP!GraphAfterRelease, TP!Holds, TP!AcquireStatus, TP!Entry,
       TP!CanAcquire, TP!HasCycle, TP!AddWait, TP!Put, TP!Remove,
       TP!Grant, TP!LockAfterRelease, TP!PassesOn, TP!ProcessWaiting,
       TP!Served, TP!ServedClients, TP!RunEnd, TP!Stops,
       TP!RemoveWaits, TP!RemoveHolder

LEMMA TablesInit == Init => TablesOK
<1>. SUFFICES ASSUME Init PROVE TablesOK
    OBVIOUS
<1>1. ASSUME NEW n \in Node
      PROVE  /\ TP!TableOK(locks[n])
             /\ TP!GraphOK(wait_for_graph[n], locks[n])
    <2>1. locks[n] = NoLocks /\ wait_for_graph[n] = NoWaits
        BY DEF Init
    <2>2. TP!TableOK(NoLocks)
        BY DEF TP!TableOK, NoLocks
    <2>3. TP!GraphOK(NoWaits, NoLocks)
        BY DEF TP!GraphOK, TP!Graph, TP!Acyclic, TP!HasCycle, NoWaits
    <2>. QED
        BY <2>1, <2>2, <2>3
<1>2. NoWaits \in TP!Graph
    BY DEF NoWaits, TP!Graph
<1>. QED
    BY <1>1, <1>2 DEF Init, TablesOK

\* A command that was agreed is one of the two, of a client on a resource, and
\* finds a good table in whatever order the commands were agreed.
LEMMA TablesStep ==
    ASSUME IInv, LogsOK, TablesOK, Next
    PROVE  TablesOK'
<1>1. ASSUME NEW n \in Node, Apply(n)
      PROVE  TablesOK'
    <2>. DEFINE i == agreed[last_applied[n] + 1]
                c == calls[i].client
                r == calls[i].resource
                type == calls[i].type
                ls == locks[n]
                g == wait_for_graph[n]
    <2>1. /\ TP!TableOK(ls) /\ TP!GraphOK(g, ls)
          /\ DOMAIN locks = Node /\ wait_for_graph \in [Node -> TP!Graph]
        BY DEF TablesOK
    <2>2. /\ c \in Client /\ r \in Resource /\ type \in {Shared, Exclusive}
          /\ calls[i].op \in {"acquire", "release"}
        <3>1. last_applied[n] + 1 \in 1 .. Len(agreed)
            BY <1>1 DEF Apply, LogsOK
        <3>2. i \in Asked
            BY <3>1 DEF LogsOK
        <3>3. calls[i] \in CallRecord
            BY <3>2, UsedCalls DEF IInv, Asked
        <3>. HIDE DEF i
        <3>. QED
            BY <3>3 DEF CallRecord
    <2>3. \/ /\ locks' = [locks EXCEPT ![n] = TP!LocksAfterAcquire(ls, g, c, r, type)]
             /\ wait_for_graph' =
                    [wait_for_graph EXCEPT ![n] = TP!GraphAfterAcquire(ls, g, c, r, type)]
          \/ /\ TP!Holds(ls, c, r)
             /\ locks' = [locks EXCEPT ![n] = TP!LocksAfterRelease(ls, c, r)]
             /\ wait_for_graph' =
                    [wait_for_graph EXCEPT ![n] = TP!GraphAfterRelease(ls, g, c, r)]
          \/ UNCHANGED <<locks, wait_for_graph>>
        BY <1>1, SameTable DEF Apply
    <2>. HIDE DEF i, c, r, type, ls, g
    <2>4. ASSUME NEW new, NEW graph, TP!TableOK(new), TP!GraphOK(graph, new),
                 locks' = [locks EXCEPT ![n] = new],
                 wait_for_graph' = [wait_for_graph EXCEPT ![n] = graph]
          PROVE  TablesOK'
        <3>1. graph \in TP!Graph
            BY <2>4 DEF TP!GraphOK
        <3>. QED
            BY <2>1, <2>4, <3>1 DEF TablesOK
    <2>5. CASE /\ locks' = [locks EXCEPT ![n] = TP!LocksAfterAcquire(ls, g, c, r, type)]
               /\ wait_for_graph' =
                    [wait_for_graph EXCEPT ![n] = TP!GraphAfterAcquire(ls, g, c, r, type)]
        <3>1. \A new, graph :
                 /\ new = TP!LocksAfterAcquire(ls, g, c, r, type)
                 /\ graph = TP!GraphAfterAcquire(ls, g, c, r, type)
                 => TP!TableOK(new) /\ TP!GraphOK(graph, new)
            BY <2>1, <2>2, TypeAssumption, TP!AcquireKeeps DEF TP!LockType
        <3>. QED
            BY <2>4, <2>5, <3>1
    <2>6. CASE /\ TP!Holds(ls, c, r)
               /\ locks' = [locks EXCEPT ![n] = TP!LocksAfterRelease(ls, c, r)]
               /\ wait_for_graph' =
                    [wait_for_graph EXCEPT ![n] = TP!GraphAfterRelease(ls, g, c, r)]
        <3>1. \A new, graph :
                 /\ new = TP!LocksAfterRelease(ls, c, r)
                 /\ graph = TP!GraphAfterRelease(ls, g, c, r)
                 => TP!TableOK(new) /\ TP!GraphOK(graph, new)
            BY <2>1, <2>2, <2>6, TypeAssumption, TP!ReleaseKeeps
        <3>. QED
            BY <2>4, <2>6, <3>1
    <2>7. CASE UNCHANGED <<locks, wait_for_graph>>
        BY <2>7 DEF TablesOK
    <2>. QED
        BY <2>3, <2>5, <2>6, <2>7
<1>2. ASSUME NEW n \in Node, Restart(n)
      PROVE  TablesOK'
    <2>1. TP!TableOK(NoLocks)
        BY DEF TP!TableOK, NoLocks
    <2>2. TP!GraphOK(NoWaits, NoLocks)
        BY DEF TP!GraphOK, TP!Graph, TP!Acyclic, TP!HasCycle, NoWaits
    <2>3. /\ locks' = [locks EXCEPT ![n] = NoLocks]
          /\ wait_for_graph' = [wait_for_graph EXCEPT ![n] = NoWaits]
        BY <1>2 DEF Restart
    <2>4. NoWaits \in TP!Graph
        BY DEF NoWaits, TP!Graph
    <2>. QED
        BY <2>1, <2>2, <2>3, <2>4 DEF TablesOK
<1>3. ASSUME UNCHANGED <<locks, wait_for_graph>>
      PROVE  TablesOK'
    BY <1>3, SMTT(60) DEF TablesOK
<1>4. \/ UNCHANGED <<locks, wait_for_graph>>
      \/ \E n \in Node : Apply(n) \/ Restart(n)
    BY ZenonT(60) DEF Next, Ask, Propose, Forward, DenyWithoutLeader, ProposeEnds, ProposeRaises,
           Resume, TimeOut, ForwardFails, Elect, StepDown, Follow, Agree, service
<1>. QED
    BY <1>1, <1>2, <1>3, <1>4

\* The logs grow by calls that were made, and the agreed one by the heads of
\* the newest leader's.
LEMMA LogsStep ==
    ASSUME IInv, LogsOK, Next
    PROVE  LogsOK'
<1>1. Asked \subseteq Asked'
    BY CallsStay DEF Asked
<1>2. Seq(Asked) \subseteq Seq(Asked')
    BY <1>1
<1>3. /\ tail \in [Node -> Seq(Asked)] /\ agreed \in Seq(Asked)
      /\ last_applied \in [Node -> Nat] /\ \A n \in Node : last_applied[n] <= Len(agreed)
      /\ newest \in leaders \cup {Nil} /\ leaders \subseteq Node
    BY DEF LogsOK, IInv, CallsTyped
<1>4. ASSUME tail' \in [Node -> Seq(Asked)], UNCHANGED <<agreed, last_applied>>,
             newest' \in leaders' \cup {Nil}
      PROVE  LogsOK'
    BY <1>2, <1>3, <1>4 DEF LogsOK
<1>5. ASSUME NEW i \in Call, Propose(i)
      PROVE  LogsOK'
    <2>1. i \in Asked /\ calls[i].at \in Node
        BY <1>5, UsedCalls DEF Propose, Asked, IInv, CallRecord
    <2>2. Append(tail[calls[i].at], i) \in Seq(Asked)
        BY <1>3, <2>1
    <2>. QED
        BY <1>3, <1>4, <1>5, <2>1, <2>2 DEF Propose
<1>6. ASSUME NEW n \in Node, Apply(n)
      PROVE  LogsOK'
    <2>1. /\ last_applied' \in [Node -> Nat]
          /\ \A m \in Node : last_applied'[m] <= Len(agreed)
          /\ UNCHANGED <<tail, agreed, newest, leaders>>
        BY <1>3, <1>6 DEF Apply
    <2>. QED
        BY <1>2, <1>3, <2>1 DEF LogsOK
<1>7. ASSUME NEW n \in Node, Elect(n) \/ StepDown(n) \/ Follow(n)
      PROVE  LogsOK'
    <2>1. tail' \in [Node -> Seq(Asked)]
        BY <1>3, <1>7, NilAssumption DEF Elect, StepDown, Follow
    <2>2. newest' \in leaders' \cup {Nil}
        BY <1>3, <1>7 DEF Elect, StepDown, Follow
    <2>. QED
        BY <1>4, <1>7, <2>1, <2>2 DEF Elect, StepDown, Follow
<1>8. ASSUME NEW n \in Node, Restart(n)
      PROVE  LogsOK'
    <2>1. /\ last_applied' = [last_applied EXCEPT ![n] = 0]
          /\ UNCHANGED <<tail, agreed>>
          /\ newest' \in leaders' \cup {Nil}
        BY <1>3, <1>8 DEF Restart
    <2>2. Len(agreed) \in Nat
        BY <1>3
    <2>3. /\ last_applied' \in [Node -> Nat]
          /\ \A m \in Node : last_applied'[m] <= Len(agreed)
        BY <1>3, <2>1, <2>2
    <2>. QED
        BY <1>2, <1>3, <2>1, <2>3 DEF LogsOK
<1>9. CASE Agree
    <2>. DEFINE i == Head(tail[newest])
    <2>1. /\ tail[newest] \in Seq(Asked) /\ tail[newest] # <<>>
          /\ newest \in Node
        BY <1>3, <1>9 DEF Agree
    <2>2. i \in Asked
        BY <2>1
    <2>3. agreed' = Append(agreed, i) /\ UNCHANGED <<newest, leaders, last_applied>>
        BY <1>9 DEF Agree
    <2>. HIDE DEF i
    <2>4. agreed' \in Seq(Asked) /\ Len(agreed') = Len(agreed) + 1 /\ Len(agreed) \in Nat
        BY <1>3, <2>2, <2>3
    <2>5. tail' \in [Node -> Seq(Asked)]
        <3>1. \A m \in Node : tail[m] # <<>> => Tail(tail[m]) \in Seq(Asked)
            BY <1>3
        <3>2. <<>> \in Seq(Asked)
            OBVIOUS
        <3>3. PICK same \in SUBSET Node :
                 /\ \A m \in same : tail[m] # <<>>
                 /\ tail' = [m \in Node |-> IF m \in same THEN Tail(tail[m]) ELSE <<>>]
            BY <1>9, Zenon DEF Agree
        <3>. QED
            BY <3>1, <3>2, <3>3
    <2>6. \A m \in Node : last_applied[m] <= Len(agreed')
        BY <1>3, <2>4
    <2>. QED
        BY <1>2, <1>3, <2>3, <2>4, <2>5, <2>6 DEF LogsOK
<1>10. \/ UNCHANGED raft
       \/ \E i \in Call : Propose(i)
       \/ \E n \in Node : Apply(n) \/ Elect(n) \/ StepDown(n) \/ Follow(n) \/ Restart(n)
       \/ Agree
    BY ZenonT(60) DEF Next, Ask, Forward, DenyWithoutLeader, ProposeEnds, ProposeRaises,
           Resume, TimeOut, ForwardFails
<1>11. CASE UNCHANGED raft
    BY <1>3, <1>4, <1>11 DEF raft
<1>. QED
    BY <1>5, <1>6, <1>7, <1>8, <1>9, <1>10, <1>11

\* A client holds only what it named in a call of its own.
LEMMA CountsStep ==
    ASSUME IInv, IInv', CountsOK, Next
    PROVE  CountsOK'
<1>1. ASSUME NEW i \in Call, NEW status, Answer(i, status)
      PROVE  held' \subseteq Client \X Resource
    <2>1. \A j \in Call : Open(j) => calls'[j] \in CallRecord
        BY CallsStay, UsedCalls DEF Open, IInv, CallsTyped, Used
    <2>2. \A j \in Call : Open(j) => /\ calls'[j].client \in Client
                                     /\ calls'[j].resource \in Resource
        BY <2>1 DEF CallRecord
    <2>. QED
        BY <1>1, <2>2 DEF Answer, HeldAfter, CountsOK
<1>2. held' \subseteq Client \X Resource
    BY <1>1, ZenonT(60) DEF Next, CountsOK, Ask, Propose, Forward, DenyWithoutLeader, ProposeEnds,
           ProposeRaises, Resume, TimeOut, ForwardFails, Apply, Elect, StepDown, Follow,
           Restart, Agree, service
<1>3. elections' \in 0..MaxElections
    <2>1. UNCHANGED elections \/ \E n \in Node : Elect(n)
        BY ZenonT(60) DEF Next, Ask, Propose, Forward, DenyWithoutLeader, ProposeEnds,
               ProposeRaises, Resume, TimeOut, ForwardFails, Apply, Restart,
               StepDown, Follow, Agree
    <2>2. UNCHANGED elections \/ (elections < MaxElections /\ elections' = elections + 1)
        BY <2>1 DEF Elect
    <2>. QED
        BY <2>2, BoundsAssumption DEF CountsOK
<1>4. restarts' \in 0..MaxRestarts
    <2>1. UNCHANGED restarts \/ \E n \in Node : Restart(n)
        BY ZenonT(60) DEF Next, Ask, Propose, Forward, DenyWithoutLeader, ProposeEnds,
               ProposeRaises, Resume, TimeOut, ForwardFails, Apply, Elect,
               StepDown, Follow, Agree
    <2>2. UNCHANGED restarts \/ (restarts < MaxRestarts /\ restarts' = restarts + 1)
        BY <2>1 DEF Restart
    <2>. QED
        BY <2>2, BoundsAssumption DEF CountsOK
<1>. QED
    BY <1>2, <1>3, <1>4 DEF CountsOK

\* The calls, the tables and the logs together.
ServiceInv == IInv /\ TablesOK /\ LogsOK /\ CountsOK

LEMMA ServiceInductive == Spec => []ServiceInv
<1>1. Init => ServiceInv
    <2>. SUFFICES ASSUME Init PROVE LogsOK /\ CountsOK
        BY Initially, TablesInit DEF ServiceInv
    <2>1. LogsOK
        BY DEF Init, LogsOK
    <2>2. CountsOK
        BY BoundsAssumption DEF Init, CountsOK
    <2>. QED
        BY <2>1, <2>2
<1>2. ASSUME ServiceInv, IInv', Next
      PROVE  ServiceInv'
    BY <1>2, TablesStep, LogsStep, CountsStep DEF ServiceInv
<1>3. ASSUME ServiceInv, IInv', UNCHANGED vars
      PROVE  ServiceInv'
    <2>1. UNCHANGED <<locks, wait_for_graph, calls, tail, agreed, last_applied,
                      newest, leaders, held, elections, restarts>>
        BY <1>3 DEF vars, service, raft
    <2>2. Asked' = Asked
        BY <2>1 DEF Asked, Used
    <2>. QED
        BY <1>3, <2>1, <2>2 DEF ServiceInv, TablesOK, LogsOK, CountsOK
<1>4. ServiceInv /\ IInv' /\ [Next]_vars => ServiceInv'
    BY <1>2, <1>3
<1>. QED
    BY <1>1, <1>4, Inductive, PTL DEF Spec

-----------------------------------------------------------------------------
(* Theorems *)

\* Every variable keeps its type: in the logs are calls that were made, and a
\* client holds only what it asked for.
THEOREM TypeCorrect == Spec => []TypeOK
<1>1. ASSUME ServiceInv
      PROVE  TypeOK
    <2>1. /\ IInv /\ LogsOK /\ CountsOK
          /\ \A n \in Node : TP!TableOK(locks[n]) /\ TP!GraphOK(wait_for_graph[n], locks[n])
        BY <1>1 DEF ServiceInv, TablesOK
    <2>2. \A n \in Node :
             /\ DOMAIN locks[n] \subseteq Resource
             /\ \A r \in DOMAIN locks[n] : locks[n][r] \in Table!Lock
        BY <2>1 DEF TP!TableOK, TP!Lock, TP!LockType, TP!Request,
                    Table!Lock, Table!LockType, Table!Request
    <2>3. wait_for_graph \in [Node -> TP!Graph]
        BY <1>1 DEF ServiceInv, TablesOK
    <2>4. TP!Graph = Table!Graph
        BY DEF TP!Graph, Table!Graph
    <2>5. /\ tail \in [Node -> Seq(Call)] /\ agreed \in Seq(Call)
          /\ \A n \in Node : last_applied[n] \in 0..Len(agreed)
        <3>1. Asked \subseteq Call
            BY DEF Asked
        <3>. QED
            BY <2>1, <3>1 DEF LogsOK
    <2>. QED
        BY <2>1, <2>2, <2>3, <2>4, <2>5 DEF TypeOK, IInv, CallsTyped, LogsOK, CountsOK
<1>. QED
    BY <1>1, ServiceInductive, PTL

\* What LockTable promises of its one table and its one graph holds of those of
\* every node, at every point of its log: an exclusive lock has one holder, a
\* lock has a holder, the head of a queue conflicts, the graph has no cycle.
THEOREM EveryTableIsSafe == Spec => [](\A n \in Node :
    /\ \A r \in DOMAIN locks[n] : LET l == locks[n][r] IN
        /\ l.holders # {}
        /\ l.lock_type = Exclusive => \E c \in Client : l.holders = {c}
        /\ l.lock_type = Shared /\ l.waiting # <<>>
             => l.waiting[1].lock_type = Exclusive
    /\ \A c \in Client : ~Table!HasCycle(wait_for_graph[n], c))
<1>1. ServiceInv => \A n \in Node :
         /\ \A r \in DOMAIN locks[n] : LET l == locks[n][r] IN
             /\ l.holders # {}
             /\ l.lock_type = Exclusive => \E c \in Client : l.holders = {c}
             /\ l.lock_type = Shared /\ l.waiting # <<>>
                  => l.waiting[1].lock_type = Exclusive
         /\ \A c \in Client : ~Table!HasCycle(wait_for_graph[n], c)
    BY DEF ServiceInv, TablesOK, TP!TableOK, TP!LockOK, TP!GraphOK, TP!Acyclic,
           TP!HasCycle, Table!HasCycle
<1>. QED
    BY <1>1, ServiceInductive, PTL

\* A node keeps the future of a call exactly while the call is in progress there
\* and unanswered: acquire_lock, _apply_acquire and _on_lose_leadership
\* between them lose none and leave none.
THEOREM FuturesAreAwaited == Spec => []PendingAreAwaited
<1>1. IInv => PendingAreAwaited
    BY DEF IInv
<1>. QED
    BY <1>1, Inductive, PTL

\* No call waits for its future where it will not be resolved: on a node that is
\* not a leader any more.
THEOREM FollowersHaveNoWaiters == Spec => []NobodyWaitsAtFollowers
<1>1. ASSUME IInv, NEW i \in Call, Used(i),
             calls[i].stage = "waiting", calls[i].result = Nil
      PROVE  calls[i].at \in leaders
    <2>1. calls[i] \in CallRecord /\ calls[i].op = "acquire"
        BY <1>1, UsedCalls DEF IInv, CallsInOrder
    <2>2. calls[i].at \in Node
        BY <2>1 DEF CallRecord
    <2>3. i \in pending_requests[calls[i].at]
        BY <1>1, <2>1, <2>2 DEF IInv, PendingAreAwaited
    <2>. QED
        BY <1>1, <2>2, <2>3 DEF IInv, PendingAtLeaders
<1>2. IInv => NobodyWaitsAtFollowers
    BY <1>1 DEF NobodyWaitsAtFollowers
<1>. QED
    BY <1>2, Inductive, PTL

-----------------------------------------------------------------------------
(* What clients hold *)

\* The log of a node.
Log(n) == agreed \o tail[n]

\* What the command of a call makes of a table and its graph.
Effect(t, call) ==
    LET c == call.client
        r == call.resource
    IN  CASE call.op = "acquire" ->
               [locks |-> TP!LocksAfterAcquire(t.locks, t.graph, c, r, call.type),
                graph |-> TP!GraphAfterAcquire(t.locks, t.graph, c, r, call.type)]
          [] call.op = "release" /\ TP!Holds(t.locks, c, r) ->
               [locks |-> TP!LocksAfterRelease(t.locks, c, r),
                graph |-> TP!GraphAfterRelease(t.locks, t.graph, c, r)]
          [] OTHER -> t

NoTable == [locks |-> NoLocks, graph |-> NoWaits]

GoodTable(t) == TP!TableOK(t.locks) /\ TP!GraphOK(t.graph, t.locks)

Releases(call, c, r) == call.op = "release" /\ call.client = c /\ call.resource = r

\* T[k] is what k agreed commands make of an empty table, and every node has the
\* one of the commands it executed. Only a release of its own takes a lock from
\* a client.
Tables(T) ==
    /\ T[0] = NoTable
    /\ \A k \in 1 .. Len(agreed) : T[k] = Effect(T[k - 1], calls[agreed[k]])
    /\ \A k \in 0 .. Len(agreed) : GoodTable(T[k])
    /\ \A n \in Node :
          /\ locks[n] = T[last_applied[n]].locks
          /\ wait_for_graph[n] = T[last_applied[n]].graph
    /\ \A k, p \in 0 .. Len(agreed), c \in Client, r \in Resource :
          /\ p <= k
          /\ TP!Holds(T[p].locks, c, r)
          /\ \A q \in p + 1 .. k : ~Releases(calls[agreed[q]], c, r)
          => TP!Holds(T[k].locks, c, r)

\* A client has one call in progress at a time, as far as it knows.
OneOpen ==
    \A i, j \in Call : Open(i) /\ Open(j) /\ calls[i].client = calls[j].client => i = j

\* What a release is told: RELEASED when it is over.
ReleasesTold ==
    \A i \in Call : Used(i) /\ calls[i].op = "release" =>
        /\ calls[i].result = Nil
        /\ calls[i].told \in {Nil, "released", "denied", "error"}
        /\ calls[i].told = "released" => calls[i].stage = "done"

\* Every release of the lock was answered RELEASED.
Quiet(c, r) ==
    \A j \in Call : Used(j) /\ Releases(calls[j], c, r) => calls[j].told = "released"

\* In every log the releases of a lock come before the request for it whose
\* client still waits.
AcquiresLast ==
    \A i \in Call, c \in Client, r \in Resource :
        /\ Open(i)
        /\ calls[i].op = "acquire"
        /\ calls[i].client = c /\ calls[i].resource = r
        => \/ FailedRelease(c, r)
           \/ /\ Quiet(c, r)
              /\ \A n \in Node : \A p, q \in DOMAIN Log(n) :
                    p < q /\ Log(n)[p] = i => ~Releases(calls[Log(n)[q]], c, r)

\* A future that was given ACQUIRED is the one of an agreed command that got
\* the lock.
ResultsTrue(T) ==
    \A i \in Call : Used(i) /\ calls[i].result = "acquired" =>
        \E p \in 1 .. Len(agreed) :
            /\ agreed[p] = i
            /\ TP!Holds(T[p].locks, calls[i].client, calls[i].resource)

\* What is held was got by an agreed command, and no log has a release of it
\* behind that.
HeldCovered(T) ==
    \A c \in Client, r \in Resource : <<c, r>> \in held =>
        \/ FailedRelease(c, r)
        \/ /\ Quiet(c, r)
           /\ \E p \in 1 .. Len(agreed) :
                 /\ TP!Holds(T[p].locks, c, r)
                 /\ \A n \in Node : \A q \in DOMAIN Log(n) :
                       q > p => ~Releases(calls[Log(n)[q]], c, r)

HeldInv ==
    /\ OneOpen
    /\ ReleasesTold
    /\ AcquiresLast
    /\ \E T : Tables(T) /\ ResultsTrue(T) /\ HeldCovered(T)

-----------------------------------------------------------------------------
(* What a step keeps of a call *)

\* The command of a call does not change, nor does what its client was told.
SameCall(new, old) ==
    /\ new.op = old.op
    /\ new.client = old.client
    /\ new.resource = old.resource
    /\ new.type = old.type
    /\ old.told # Nil => new.told = old.told

LEMMA CallsKeep ==
    ASSUME IInv, Next, NEW i \in Call, Used(i)
    PROVE  SameCall(calls'[i], calls[i])
<1>1. /\ DOMAIN calls = Call
      /\ \A j \in Call : Used(j) => calls[j] \in CallRecord
    BY UsedCalls DEF IInv, CallsTyped
<1>2. calls[i] \in CallRecord
    BY <1>1
<1>3. ASSUME calls'[i] = calls[i]
      PROVE  SameCall(calls'[i], calls[i])
    BY <1>3 DEF SameCall
<1>4. ASSUME NEW status, calls'[i] = Answered(i, status)
      PROVE  SameCall(calls'[i], calls[i])
    BY <1>2, <1>4 DEF SameCall, Answered, CallRecord
<1>5. ASSUME NEW j \in Call, NEW c \in Client, NEW r \in Resource, NEW n \in Node,
             NEW op, NEW type, Ask(j, op, c, r, type, n)
      PROVE  SameCall(calls'[i], calls[i])
    BY <1>1, <1>3, <1>5 DEF Ask
<1>6. ASSUME NEW j \in Call,
             \/ Propose(j) \/ Forward(j) \/ DenyWithoutLeader(j)
             \/ ProposeEnds(j) \/ ProposeRaises(j)
             \/ Resume(j) \/ TimeOut(j) \/ ForwardFails(j)
      PROVE  SameCall(calls'[i], calls[i])
    <2>1. CASE j # i
        BY <1>1, <1>3, <1>6, <2>1 DEF Propose, Forward, DenyWithoutLeader, ProposeEnds,
                    ProposeRaises, Resume, TimeOut, ForwardFails, Answer
    <2>2. CASE j = i
        <3>1. CASE Propose(i)
            BY <1>1, <1>2, <3>1 DEF Propose, CallRecord, SameCall
        <3>5. CASE Forward(i)
            <4>1. calls'[i] = [calls[i] EXCEPT !.at = current_leader[calls[i].at],
                                               !.forwarded = TRUE]
                BY <1>1, <3>5 DEF Forward
            <4>. QED
                BY <1>2, <4>1 DEF CallRecord, SameCall
        <3>2. CASE DenyWithoutLeader(i) \/ ProposeRaises(i) \/ Resume(i) \/ TimeOut(i)
            BY <1>1, <1>4, <3>2 DEF DenyWithoutLeader, ProposeRaises, Resume, TimeOut, Answer
        <3>3. CASE ProposeEnds(i)
            <4>1. CASE Returned(calls[i].op) # Nil
                BY <1>1, <1>4, <3>3, <4>1 DEF ProposeEnds, Answer
            <4>2. CASE Returned(calls[i].op) = Nil
                BY <1>1, <1>2, <3>3, <4>2 DEF ProposeEnds, SameCall, CallRecord
            <4>. QED
                BY <4>1, <4>2
        <3>4. CASE ForwardFails(i)
            BY <1>1, <1>2, <1>4, <3>4 DEF ForwardFails, CallRecord, SameCall, Open
        <3>. QED
            BY <1>6, <2>2, <3>1, <3>2, <3>3, <3>4, <3>5
    <2>. QED
        BY <2>1, <2>2
<1>7. ASSUME NEW n \in Node, Apply(n)
      PROVE  SameCall(calls'[i], calls[i])
    <2>. DEFINE j == agreed[last_applied[n] + 1]
    <2>1. \/ calls' = calls
          \/ j \in Call /\ \E status : calls' = [calls EXCEPT ![j].result = status]
        BY <1>7 DEF Apply, IInv, CallsTyped
    <2>. HIDE DEF j
    <2>. QED
        BY <1>1, <1>2, <1>3, <2>1, SMTT(60) DEF CallRecord, SameCall
<1>8. ASSUME NEW n \in Node, Elect(n) \/ Follow(n)
      PROVE  SameCall(calls'[i], calls[i])
    BY <1>3, <1>8 DEF Elect, Follow, service
<1>9. ASSUME NEW n \in Node, StepDown(n)
      PROVE  SameCall(calls'[i], calls[i])
    BY <1>1, <1>2, <1>9 DEF StepDown, Deposed, CallRecord, SameCall
<1>10. ASSUME NEW n \in Node, Restart(n)
       PROVE  SameCall(calls'[i], calls[i])
    <2>1. calls'[i] = calls[i] \/ calls'[i] = Answered(i, Failure(i))
        BY <1>1, <1>10 DEF Restart
    <2>. QED
        BY <1>3, <1>4, <2>1
<1>11. CASE Agree
    BY <1>3, <1>11 DEF Agree, service
<1>. QED
    BY <1>5, <1>6, <1>7, <1>8, <1>9, <1>10, <1>11 DEF Next

-----------------------------------------------------------------------------
(* The table that the agreed commands make *)

LEMMA EffectSame ==
    ASSUME NEW t, NEW a, NEW b, SameCall(a, b)
    PROVE  Effect(t, a) = Effect(t, b) /\ \A c, r : Releases(a, c, r) <=> Releases(b, c, r)
BY DEF SameCall, Effect, Releases

\* A command keeps a good table good, and the locks of everybody but the client
\* it is a release of.
LEMMA EffectKeeps ==
    ASSUME NEW t, GoodTable(t), NEW call \in CallRecord
    PROVE  /\ GoodTable(Effect(t, call))
           /\ \A c, r : TP!Holds(t.locks, c, r) /\ ~Releases(call, c, r)
                            => TP!Holds(Effect(t, call).locks, c, r)
           /\ /\ call.op = "acquire"
              /\ TP!AcquireStatus(t.locks, t.graph, call.client, call.resource, call.type)
                    = "acquired"
              => TP!Holds(Effect(t, call).locks, call.client, call.resource)
<1>. DEFINE c == call.client
            r == call.resource
            type == call.type
            ls == t.locks
            g == t.graph
<1>1. /\ c \in Client /\ r \in Resource /\ type \in {Shared, Exclusive}
      /\ call.op \in {"acquire", "release"}
    BY DEF CallRecord
<1>2. TP!TableOK(ls) /\ TP!GraphOK(g, ls)
    BY DEF GoodTable
<1>3. CASE call.op = "acquire"
    <2>. DEFINE new == TP!LocksAfterAcquire(ls, g, c, r, type)
                graph == TP!GraphAfterAcquire(ls, g, c, r, type)
    <2>1. Effect(t, call).locks = new /\ Effect(t, call).graph = graph
        BY <1>3 DEF Effect
    <2>2. /\ TP!TableOK(new) /\ TP!GraphOK(graph, new)
          /\ \A x, q : TP!Holds(ls, x, q) => TP!Holds(new, x, q)
          /\ TP!AcquireStatus(ls, g, c, r, type) = "acquired" => TP!Holds(new, c, r)
        <3>. HIDE DEF c, r, type, ls, g
        <3>1. \A n, h :
                 n = new /\ h = graph
                 => /\ TP!TableOK(n) /\ TP!GraphOK(h, n)
                    /\ \A x, q : TP!Holds(ls, x, q) => TP!Holds(n, x, q)
                    /\ TP!AcquireStatus(ls, g, c, r, type) = "acquired" => TP!Holds(n, c, r)
            BY <1>1, <1>2, TypeAssumption, TP!AcquireKeeps DEF TP!LockType
        <3>. QED
            BY <3>1
    <2>. HIDE DEF new, graph
    <2>. QED
        BY <2>1, <2>2 DEF GoodTable
<1>4. CASE call.op = "release" /\ TP!Holds(ls, c, r)
    <2>. DEFINE new == TP!LocksAfterRelease(ls, c, r)
                graph == TP!GraphAfterRelease(ls, g, c, r)
    <2>1. Effect(t, call).locks = new /\ Effect(t, call).graph = graph
        BY <1>4 DEF Effect
    <2>2. /\ TP!TableOK(new) /\ TP!GraphOK(graph, new)
          /\ \A x, q : TP!Holds(ls, x, q) /\ (x # c \/ q # r) => TP!Holds(new, x, q)
        <3>. HIDE DEF c, r, type, ls, g
        <3>1. \A n, h :
                 n = new /\ h = graph
                 => /\ TP!TableOK(n) /\ TP!GraphOK(h, n)
                    /\ \A x, q : TP!Holds(ls, x, q) /\ (x # c \/ q # r)
                                    => TP!Holds(n, x, q)
            BY <1>1, <1>2, <1>4, TypeAssumption, TP!ReleaseKeeps
        <3>. QED
            BY <3>1
    <2>. HIDE DEF new, graph
    <2>. QED
        BY <1>4, <2>1, <2>2 DEF GoodTable, Releases
<1>5. CASE call.op = "release" /\ ~TP!Holds(ls, c, r)
    <2>1. Effect(t, call) = t
        BY <1>5 DEF Effect
    <2>. QED
        BY <1>5, <2>1
<1>. QED
    BY <1>1, <1>3, <1>4, <1>5

\* What Apply does to the table of its node.
LEMMA ApplyEffect ==
    ASSUME IInv, TablesOK, LogsOK, NEW n \in Node, Apply(n),
           NEW t, t.locks = locks[n], t.graph = wait_for_graph[n]
    PROVE  LET i == agreed[last_applied[n] + 1] IN
           /\ locks'[n] = Effect(t, calls[i]).locks
           /\ wait_for_graph'[n] = Effect(t, calls[i]).graph
           /\ \A m \in Node \ {n} :
                 locks'[m] = locks[m] /\ wait_for_graph'[m] = wait_for_graph[m]
<1>. DEFINE i == agreed[last_applied[n] + 1]
            c == calls[i].client
            r == calls[i].resource
            type == calls[i].type
            ls == locks[n]
            g == wait_for_graph[n]
<1>1. DOMAIN locks = Node /\ DOMAIN wait_for_graph = Node
    BY SMTT(60) DEF TablesOK
<1>2. \/ /\ calls[i].op = "acquire"
         /\ locks' = [locks EXCEPT ![n] = TP!LocksAfterAcquire(ls, g, c, r, type)]
         /\ wait_for_graph' =
                [wait_for_graph EXCEPT ![n] = TP!GraphAfterAcquire(ls, g, c, r, type)]
      \/ /\ calls[i].op = "release"
         /\ TP!Holds(ls, c, r)
         /\ locks' = [locks EXCEPT ![n] = TP!LocksAfterRelease(ls, c, r)]
         /\ wait_for_graph' =
                [wait_for_graph EXCEPT ![n] = TP!GraphAfterRelease(ls, g, c, r)]
      \/ /\ calls[i].op # "acquire"
         /\ ~(calls[i].op = "release" /\ TP!Holds(ls, c, r))
         /\ UNCHANGED <<locks, wait_for_graph>>
    BY SameTable DEF Apply
<1>. HIDE DEF i
<1>. SUFFICES /\ locks'[n] = Effect(t, calls[i]).locks
              /\ wait_for_graph'[n] = Effect(t, calls[i]).graph
              /\ \A m \in Node \ {n} :
                    locks'[m] = locks[m] /\ wait_for_graph'[m] = wait_for_graph[m]
    BY DEF i
<1>. QED
    BY <1>1, <1>2 DEF Effect
(* The logs *)

LEMMA AppendLast ==
    ASSUME NEW S, NEW s \in Seq(S), NEW t \in Seq(S), NEW e \in S
    PROVE  s \o Append(t, e) = Append(s \o t, e)
OBVIOUS

LEMMA HeadMoves ==
    ASSUME NEW S, NEW s \in Seq(S), NEW t \in Seq(S), t # <<>>
    PROVE  Append(s, Head(t)) \o Tail(t) = s \o t
OBVIOUS

\* Begins(a, b): a is what b begins with.
Begins(a, b) == Len(a) <= Len(b) /\ \A q \in 1 .. Len(a) : a[q] = b[q]

\* A log grows by the command of a call at its node, and becomes otherwise only
\* what some log begins with.
LEMMA LogsFrom ==
    ASSUME IInv, LogsOK, Next, NEW n \in Node
    PROVE  \/ \E m \in Node : Begins(Log(n)', Log(m))
           \/ \E i \in Call : Propose(i) /\ Log(n)' = Append(Log(n), i)
<1>1. /\ tail \in [Node -> Seq(Asked)] /\ agreed \in Seq(Asked)
      /\ newest \in leaders \cup {Nil} /\ leaders \subseteq Node
    BY DEF LogsOK, IInv, CallsTyped
<1>2. \A m \in Node : Log(m) \in Seq(Asked)
    BY <1>1 DEF Log
<1>3. ASSUME NEW m \in Node, Log(n)' = Log(m)
      PROVE  Begins(Log(n)', Log(m))
    <2>1. Len(Log(m)) \in Nat
        BY <1>2
    <2>. QED
        BY <1>3, <2>1 DEF Begins
<1>4. CASE UNCHANGED <<tail, agreed>>
    <2>1. Log(n)' = Log(n)
        BY <1>4 DEF Log
    <2>. QED
        BY <1>3, <2>1
<1>5. ASSUME NEW i \in Call, Propose(i)
      PROVE  \/ Log(n)' = Log(n)
             \/ Log(n)' = Append(Log(n), i)
    <2>1. i \in Asked /\ UNCHANGED agreed /\ tail' = [tail EXCEPT ![calls[i].at] = Append(@, i)]
        BY <1>5 DEF Propose, Asked
    <2>2. CASE n # calls[i].at
        BY <1>1, <2>1, <2>2, SMTT(60) DEF Log
    <2>3. CASE n = calls[i].at
        <3>1. Log(n)' = agreed \o Append(tail[n], i)
            BY <1>1, <2>1, <2>3 DEF Log
        <3>. QED
            BY <1>1, <2>1, <3>1, AppendLast, SMTT(60) DEF Log
    <2>. QED
        BY <2>2, <2>3
<1>6. ASSUME NEW k \in Node, Follow(k)
      PROVE  \E m \in Node : Log(n)' = Log(m)
    <2>1. newest \in Node /\ UNCHANGED agreed
          /\ \/ tail' = tail
             \/ tail' = [tail EXCEPT ![k] = tail[newest]]
        BY <1>1, <1>6 DEF Follow
    <2>2. tail'[n] = tail[n] \/ tail'[n] = tail[newest]
        BY <1>1, <2>1
    <2>. QED
        BY <2>1, <2>2 DEF Log
<1>7. CASE Agree
    <2>. DEFINE i == Head(tail[newest])
    <2>1. newest \in Node /\ tail[newest] # <<>> /\ tail[newest] \in Seq(Asked)
        BY <1>1, <1>7 DEF Agree
    <2>2. PICK same \in SUBSET Node :
             /\ \A m \in same : tail[m] # <<>> /\ Head(tail[m]) = i
             /\ tail' = [m \in Node |-> IF m \in same THEN Tail(tail[m]) ELSE <<>>]
        BY <1>7, Zenon DEF Agree
    <2>3. agreed' = Append(agreed, i) /\ i \in Asked
        BY <1>7, <2>1 DEF Agree
    <2>4. CASE n \in same
        <3>1. Log(n)' = Append(agreed, Head(tail[n])) \o Tail(tail[n])
            BY <2>2, <2>3, <2>4 DEF Log
        <3>2. tail[n] \in Seq(Asked) /\ tail[n] # <<>>
            BY <1>1, <2>2, <2>4
        <3>3. Log(n)' = Log(n)
            BY <1>1, <3>1, <3>2, HeadMoves DEF Log
        <3>. QED
            BY <1>3, <3>3
    <2>5. CASE n \notin same
        <3>1. Log(n)' = Append(agreed, i) \o <<>>
            BY <2>2, <2>3, <2>5 DEF Log
        <3>2. Log(newest) = Append(agreed, i) \o Tail(tail[newest])
            BY <1>1, <2>1, HeadMoves DEF Log
        <3>3. Append(agreed, i) \in Seq(Asked) /\ Tail(tail[newest]) \in Seq(Asked)
            BY <1>1, <2>1, <2>3
        <3>4. \A a, b \in Seq(Asked) : Begins(a \o <<>>, a \o b)
            BY DEF Begins
        <3>. QED
            BY <2>1, <3>1, <3>2, <3>3, <3>4
    <2>. QED
        BY <2>4, <2>5
<1>8. \/ UNCHANGED <<tail, agreed>>
      \/ \E i \in Call : Propose(i)
      \/ \E k \in Node : Follow(k)
      \/ Agree
    <2>1. ASSUME NEW i \in Call, NEW c \in Client, NEW r \in Resource, NEW k \in Node,
                 \/ \E type \in Table!LockType : Ask(i, "acquire", c, r, type, k)
                 \/ Ask(i, "release", c, r, Exclusive, k)
          PROVE  UNCHANGED <<tail, agreed>>
        BY <2>1 DEF Ask, raft
    <2>2. ASSUME NEW i \in Call,
                 \/ Forward(i) \/ DenyWithoutLeader(i) \/ ProposeEnds(i)
                 \/ ProposeRaises(i) \/ Resume(i) \/ TimeOut(i) \/ ForwardFails(i)
          PROVE  UNCHANGED <<tail, agreed>>
        BY <2>2, SMTT(60) DEF Forward, DenyWithoutLeader, ProposeEnds, ProposeRaises, Resume,
                    TimeOut, ForwardFails, raft
    <2>3. ASSUME NEW k \in Node, Apply(k) \/ Elect(k) \/ StepDown(k) \/ Restart(k)
          PROVE  UNCHANGED <<tail, agreed>>
        BY <2>3, SMTT(60) DEF Apply, Elect, StepDown, Restart
    <2>. QED
        BY <2>1, <2>2, <2>3 DEF Next
<1>. QED
    BY <1>3, <1>4, <1>5, <1>6, <1>7, <1>8

\* What is agreed stays agreed, and a command is added at a time.
LEMMA AgreedFrom ==
    ASSUME IInv, LogsOK, Next
    PROVE  \/ UNCHANGED agreed
           \/ /\ \E i \in Asked : agreed' = Append(agreed, i)
              /\ UNCHANGED <<calls, locks, wait_for_graph, last_applied>>
<1>1. CASE Agree
    <2>1. tail[newest] \in Seq(Asked) /\ tail[newest] # <<>>
        BY <1>1 DEF Agree, LogsOK, IInv, CallsTyped
    <2>2. Head(tail[newest]) \in Asked
        BY <2>1
    <2>. QED
        BY <1>1, <2>2 DEF Agree, service
<1>. QED
    BY <1>1, ZenonT(60) DEF Next, Ask, Propose, Forward, DenyWithoutLeader, ProposeEnds, ProposeRaises,
           Resume, TimeOut, ForwardFails, Apply, Elect, StepDown, Follow, Restart, raft

\* Who changes tables: a node that executes a command, and one that restarts.
LEMMA TablesFrom ==
    ASSUME Next
    PROVE  \/ UNCHANGED <<locks, wait_for_graph, last_applied>>
           \/ \E n \in Node : Apply(n) \/ Restart(n)
<1>1. ASSUME NEW i \in Call, NEW c \in Client, NEW r \in Resource, NEW k \in Node,
             \/ \E type \in Table!LockType : Ask(i, "acquire", c, r, type, k)
             \/ Ask(i, "release", c, r, Exclusive, k)
      PROVE  UNCHANGED <<locks, wait_for_graph, last_applied>>
    BY <1>1 DEF Ask, raft
<1>2. ASSUME NEW i \in Call,
             \/ Propose(i) \/ Forward(i) \/ DenyWithoutLeader(i)
             \/ ProposeEnds(i) \/ ProposeRaises(i)
             \/ Resume(i) \/ TimeOut(i) \/ ForwardFails(i)
      PROVE  UNCHANGED <<locks, wait_for_graph, last_applied>>
    BY <1>2 DEF Propose, Forward, DenyWithoutLeader, ProposeEnds, ProposeRaises, Resume,
                TimeOut, ForwardFails, raft
<1>3. ASSUME NEW k \in Node, Elect(k) \/ StepDown(k) \/ Follow(k)
      PROVE  UNCHANGED <<locks, wait_for_graph, last_applied>>
    BY <1>3 DEF Elect, StepDown, Follow, service
<1>4. Agree => UNCHANGED <<locks, wait_for_graph, last_applied>>
    BY DEF Agree, service
<1>. QED
    BY <1>1, <1>2, <1>3, <1>4 DEF Next

\* Commands that were agreed are of calls that were made.
LEMMA AgreedCalls ==
    ASSUME IInv, LogsOK, NEW k \in 1 .. Len(agreed)
    PROVE  /\ agreed[k] \in Call /\ Used(agreed[k])
           /\ calls[agreed[k]] \in CallRecord
<1>1. agreed[k] \in Asked
    BY DEF LogsOK
<1>. QED
    BY <1>1, UsedCalls DEF Asked, IInv

LEMMA TablesFollow ==
    ASSUME ServiceInv, Next, NEW T, Tables(T)
    PROVE  \E U : Tables(U)' /\ \A k \in 0 .. Len(agreed) : U[k] = T[k]
<1>. USE DEF ServiceInv
<1>1. /\ agreed \in Seq(Asked) /\ Len(agreed) \in Nat
      /\ last_applied \in [Node -> Nat]
      /\ \A n \in Node : last_applied[n] <= Len(agreed)
    BY DEF LogsOK
<1>2. CASE UNCHANGED agreed
    <2>1. \A k \in 1 .. Len(agreed) :
             /\ Effect(T[k - 1], calls'[agreed[k]]) = Effect(T[k - 1], calls[agreed[k]])
             /\ \A c, r : Releases(calls'[agreed[k]], c, r) <=> Releases(calls[agreed[k]], c, r)
        BY AgreedCalls, CallsKeep, EffectSame
    <2>2. \A k, p \in 0 .. Len(agreed), c \in Client, r \in Resource :
             /\ p <= k
             /\ TP!Holds(T[p].locks, c, r)
             /\ \A q \in p + 1 .. k : ~Releases(calls'[agreed[q]], c, r)
             => TP!Holds(T[k].locks, c, r)
        <3>. SUFFICES ASSUME NEW k \in 0 .. Len(agreed), NEW p \in 0 .. Len(agreed),
                             NEW c \in Client, NEW r \in Resource,
                             p <= k, TP!Holds(T[p].locks, c, r),
                             \A q \in p + 1 .. k : ~Releases(calls'[agreed[q]], c, r)
                      PROVE  TP!Holds(T[k].locks, c, r)
            OBVIOUS
        <3>1. \A q \in p + 1 .. k : ~Releases(calls[agreed[q]], c, r)
            BY <1>1, <2>1
        <3>. QED
            BY <3>1 DEF Tables
    <2>3. \A n \in Node :
             /\ locks'[n] = T[last_applied'[n]].locks
             /\ wait_for_graph'[n] = T[last_applied'[n]].graph
        <3>1. CASE UNCHANGED <<locks, wait_for_graph, last_applied>>
            BY <3>1 DEF Tables
        <3>2. ASSUME NEW m \in Node, Apply(m), NEW n \in Node
              PROVE  /\ locks'[n] = T[last_applied'[n]].locks
                     /\ wait_for_graph'[n] = T[last_applied'[n]].graph
            <4>. DEFINE k == last_applied[m]
            <4>1. /\ k \in 0 .. Len(agreed) /\ k + 1 \in 1 .. Len(agreed)
                  /\ last_applied' = [last_applied EXCEPT ![m] = k + 1]
                BY <1>1, <3>2 DEF Apply
            <4>2. T[k].locks = locks[m] /\ T[k].graph = wait_for_graph[m]
                BY DEF Tables
            <4>3. /\ locks'[m] = Effect(T[k], calls[agreed[k + 1]]).locks
                  /\ wait_for_graph'[m] = Effect(T[k], calls[agreed[k + 1]]).graph
                  /\ \A j \in Node \ {m} :
                        locks'[j] = locks[j] /\ wait_for_graph'[j] = wait_for_graph[j]
                BY <3>2, <4>2, ApplyEffect
            <4>. HIDE DEF k
            <4>4. T[k + 1] = Effect(T[k], calls[agreed[k + 1]])
                BY <4>1 DEF Tables
            <4>5. CASE n = m
                BY <1>1, <4>1, <4>3, <4>4, <4>5
            <4>6. CASE n # m
                BY <1>1, <4>1, <4>3, <4>6 DEF Tables
            <4>. QED
                BY <4>5, <4>6
        <3>3. ASSUME NEW m \in Node, Restart(m), NEW n \in Node
              PROVE  /\ locks'[n] = T[last_applied'[n]].locks
                     /\ wait_for_graph'[n] = T[last_applied'[n]].graph
            <4>1. /\ locks' = [locks EXCEPT ![m] = NoLocks]
                  /\ wait_for_graph' = [wait_for_graph EXCEPT ![m] = NoWaits]
                  /\ last_applied' = [last_applied EXCEPT ![m] = 0]
                BY <3>3 DEF Restart
            <4>2. /\ T[0].locks = NoLocks /\ T[0].graph = NoWaits
                  /\ DOMAIN locks = Node /\ DOMAIN wait_for_graph = Node
                BY DEF Tables, NoTable, TablesOK
            <4>3. CASE n = m
                BY <1>1, <4>1, <4>2, <4>3
            <4>4. CASE n # m
                BY <1>1, <4>1, <4>2, <4>4 DEF Tables
            <4>. QED
                BY <4>3, <4>4
        <3>. QED
            BY <3>1, <3>2, <3>3, TablesFrom
    <2>4. /\ T[0] = NoTable
          /\ \A k \in 1 .. Len(agreed) : T[k] = Effect(T[k - 1], calls'[agreed[k]])
          /\ \A k \in 0 .. Len(agreed) : GoodTable(T[k])
        BY <2>1 DEF Tables
    <2>5. Tables(T)'
        BY <1>2, <2>2, <2>3, <2>4 DEF Tables
    <2>. QED
        BY <2>5
<1>3. ASSUME NEW i \in Asked, agreed' = Append(agreed, i),
             UNCHANGED <<calls, locks, wait_for_graph, last_applied>>
      PROVE  \E U : Tables(U)' /\ \A k \in 0 .. Len(agreed) : U[k] = T[k]
    <2>0. PICK L : L = Len(agreed)
        OBVIOUS
    <2>u. PICK U : U = [k \in 0 .. L + 1 |->
                          IF k <= L THEN T[k] ELSE Effect(T[L], calls[i])]
        OBVIOUS
    <2>1. /\ Len(agreed') = L + 1 /\ L \in Nat
          /\ agreed'[L + 1] = i
          /\ \A k \in 1 .. L : agreed'[k] = agreed[k]
        BY <1>1, <1>3, <2>0
    <2>2. /\ \A k \in 0 .. L : U[k] = T[k]
          /\ U[L + 1] = Effect(T[L], calls[i])
        BY <2>1, <2>u
    <2>3. calls[i] \in CallRecord
        BY UsedCalls DEF Asked, IInv
    <2>4. /\ GoodTable(T[L])
          /\ GoodTable(U[L + 1])
          /\ \A c, r : TP!Holds(T[L].locks, c, r) /\ ~Releases(calls[i], c, r)
                            => TP!Holds(U[L + 1].locks, c, r)
        <3>1. GoodTable(T[L])
            BY <2>0, <2>1 DEF Tables
        <3>. QED
            BY <2>2, <2>3, <3>1, EffectKeeps
    <2>5. U[0] = NoTable
        BY <2>0, <2>1, <2>2 DEF Tables
    <2>6. \A k \in 1 .. L + 1 : U[k] = Effect(U[k - 1], calls[agreed'[k]])
        <3>1. ASSUME NEW k \in 1 .. L
              PROVE  U[k] = Effect(U[k - 1], calls[agreed'[k]])
            <4>1. U[k] = T[k] /\ U[k - 1] = T[k - 1] /\ agreed'[k] = agreed[k]
                BY <2>1, <2>2, <3>1
            <4>. QED
                BY <2>0, <4>1 DEF Tables
        <3>2. U[L + 1] = Effect(U[L + 1 - 1], calls[agreed'[L + 1]])
            BY <2>1, <2>2
        <3>. QED
            BY <2>1, <3>1, <3>2, SMTT(60)
    <2>7. \A k \in 0 .. L + 1 : GoodTable(U[k])
        <3>1. \A k \in 0 .. L : GoodTable(U[k])
            BY <2>0, <2>2 DEF Tables
        <3>. QED
            BY <2>1, <2>4, <3>1
    <2>8. \A n \in Node :
             /\ locks[n] = U[last_applied[n]].locks
             /\ wait_for_graph[n] = U[last_applied[n]].graph
        BY <1>1, <2>0, <2>2 DEF Tables
    <2>9. ASSUME NEW k \in 0 .. L + 1, NEW p \in 0 .. L + 1,
                 NEW c \in Client, NEW r \in Resource,
                 p <= k, TP!Holds(U[p].locks, c, r),
                 \A q \in p + 1 .. k : ~Releases(calls[agreed'[q]], c, r)
          PROVE  TP!Holds(U[k].locks, c, r)
        <3>1. ASSUME p <= L, NEW m \in 0 .. L, p <= m, m <= k
              PROVE  TP!Holds(U[m].locks, c, r)
            <4>1. TP!Holds(T[p].locks, c, r)
                BY <2>1, <2>2, <2>9, <3>1
            <4>2. \A q \in p + 1 .. m : ~Releases(calls[agreed[q]], c, r)
                BY <2>1, <2>9, <3>1
            <4>3. TP!Holds(T[m].locks, c, r)
                BY <2>0, <3>1, <4>1, <4>2, SMTT(60) DEF Tables
            <4>. QED
                BY <2>2, <4>3
        <3>2. CASE k <= L
            BY <2>1, <2>9, <3>1, <3>2
        <3>3. CASE k = L + 1 /\ p <= L
            <4>1. TP!Holds(T[L].locks, c, r)
                BY <2>1, <2>2, <3>1, <3>3
            <4>2. ~Releases(calls[i], c, r)
                BY <2>1, <2>9, <3>3
            <4>. QED
                BY <2>4, <3>3, <4>1, <4>2
        <3>4. CASE k = L + 1 /\ p = L + 1
            BY <2>9, <3>4
        <3>. QED
            BY <2>1, <3>2, <3>3, <3>4
    <2>10. Tables(U)'
        BY <1>3, <2>1, <2>5, <2>6, <2>7, <2>8, <2>9 DEF Tables
    <2>. QED
        BY <2>0, <2>2, <2>10
<1>. QED
    BY <1>2, <1>3, AgreedFrom

\* A call that is there after a step was there before, or a client asked.
LEMMA NewCalls ==
    ASSUME IInv, Next, NEW i \in Call, Used(i)', ~Used(i)
    PROVE  \E op \in {"acquire", "release"}, c \in Client, r \in Resource,
              type \in {Shared, Exclusive}, m \in Node : Ask(i, op, c, r, type, m)
<1>1. DOMAIN calls = Call
    BY DEF IInv, CallsTyped
<1>2. calls'[i] # calls[i]
    BY DEF Used
<1>3. ASSUME NEW j \in Call, NEW c \in Client, NEW r \in Resource, NEW n \in Node,
             \/ \E type \in Table!LockType : Ask(j, "acquire", c, r, type, n)
             \/ Ask(j, "release", c, r, Exclusive, n)
      PROVE  \E op \in {"acquire", "release"}, x \in Client, y \in Resource,
                type \in {Shared, Exclusive}, m \in Node : Ask(i, op, x, y, type, m)
    <2>1. PICK op \in {"acquire", "release"}, type \in {Shared, Exclusive} : Ask(j, op, c, r, type, n)
        BY <1>3 DEF Table!LockType
    <2>2. j = i
        BY <1>1, <1>2, <2>1 DEF Ask
    <2>. QED
        BY <2>1, <2>2
<1>4. ASSUME NEW j \in Call,
             \/ Propose(j) \/ Forward(j) \/ DenyWithoutLeader(j)
             \/ ProposeEnds(j) \/ ProposeRaises(j)
             \/ Resume(j) \/ TimeOut(j) \/ ForwardFails(j)
      PROVE  FALSE
    <2>1. Used(j)
        BY <1>4 DEF Propose, Forward, DenyWithoutLeader, ProposeEnds,
                    ProposeRaises, Resume, TimeOut, ForwardFails, Open
    <2>2. j # i
        BY <2>1
    <2>. QED
        BY <1>1, <1>2, <1>4, <2>2 DEF Propose, Forward, DenyWithoutLeader, ProposeEnds,
                    ProposeRaises, Resume, TimeOut, ForwardFails, Answer
<1>5. \A n \in Node : i \notin pending_requests[n]
    BY DEF IInv, PendingAreAwaited
<1>6. ASSUME NEW n \in Node, Apply(n)
      PROVE  FALSE
    <2>. DEFINE j == agreed[last_applied[n] + 1]
    <2>1. \/ calls' = calls
          \/ j \in pending_requests[n] /\ \E status : calls' = [calls EXCEPT ![j].result = status]
        BY <1>6 DEF Apply
    <2>. HIDE DEF j
    <2>. QED
        BY <1>1, <1>2, <1>5, <2>1, SMTT(60)
<1>7. ASSUME NEW n \in Node, Elect(n) \/ Follow(n) \/ StepDown(n) \/ Restart(n)
      PROVE  FALSE
    BY <1>2, <1>5, <1>7 DEF Elect, Follow, StepDown, Restart, Deposed, service
<1>8. ~Agree
    BY <1>2 DEF Agree, service
<1>9. \E j \in Call, c \in Client, r \in Resource, n \in Node :
         \/ \E type \in Table!LockType : Ask(j, "acquire", c, r, type, n)
         \/ Ask(j, "release", c, r, Exclusive, n)
    BY <1>4, <1>6, <1>7, <1>8, Zenon DEF Next
<1>. QED
    BY <1>3, <1>9

\* What the client of a call is told when.
LEMMA ToldWhen ==
    ASSUME IInv, Next, NEW i \in Call, Used(i), calls'[i].told # calls[i].told
    PROVE  /\ calls[i].told = Nil
           /\ calls'[i].told = "acquired" =>
                 Resume(i) /\ calls[i].op = "acquire" /\ calls[i].result = "acquired"
           /\ calls[i].op = "release" =>
                 /\ calls'[i].told \in {"released", "denied", "error"}
                 /\ calls'[i].told = "released" => calls'[i].stage = "done"
<1>1. /\ DOMAIN calls = Call
      /\ calls[i] \in CallRecord
      /\ calls[i].stage = "waiting" => calls[i].op = "acquire"
    BY UsedCalls DEF IInv, CallsTyped, CallsInOrder
<1>2. calls[i].told = Nil
    BY CallsKeep DEF SameCall
<1>3. ASSUME NEW status, calls'[i] = Answered(i, status)
      PROVE  calls'[i].told = status /\ calls'[i].stage = "done"
    BY <1>1, <1>2, <1>3 DEF Answered, CallRecord
<1>4. \A status \in Status : Nil # status
    BY NilAssumption
<1>5. ASSUME NEW j \in Call, NEW c \in Client, NEW r \in Resource, NEW n \in Node,
             NEW op, NEW type, Ask(j, op, c, r, type, n)
      PROVE  FALSE
    BY <1>1, <1>5 DEF Ask
<1>6. ASSUME NEW j \in Call,
             \/ Propose(j) \/ Forward(j) \/ DenyWithoutLeader(j)
             \/ ProposeEnds(j) \/ ProposeRaises(j)
             \/ Resume(j) \/ TimeOut(j) \/ ForwardFails(j)
      PROVE  /\ calls'[i].told = "acquired" =>
                   Resume(i) /\ calls[i].op = "acquire" /\ calls[i].result = "acquired"
             /\ calls[i].op = "release" =>
                   /\ calls'[i].told \in {"released", "denied", "error"}
                   /\ calls'[i].told = "released" => calls'[i].stage = "done"
    <2>1. j = i
        BY <1>1, <1>6 DEF Propose, Forward, DenyWithoutLeader, ProposeEnds,
                    ProposeRaises, Resume, TimeOut, ForwardFails, Answer
    <2>2. CASE Propose(i)
        BY <1>1, <2>2 DEF Propose, CallRecord
    <2>3. CASE Forward(i)
        <3>1. calls'[i] = [calls[i] EXCEPT !.at = current_leader[calls[i].at],
                                           !.forwarded = TRUE]
            BY <1>1, <2>3 DEF Forward
        <3>. QED
            BY <1>1, <3>1 DEF CallRecord
    <2>4. CASE DenyWithoutLeader(i)
        <3>1. calls'[i] = Answered(i, "denied")
            BY <1>1, <2>4 DEF DenyWithoutLeader, Answer
        <3>. QED
            BY <1>3, <3>1
    <2>5. CASE ProposeEnds(i)
        <3>1. CASE calls[i].op = "release"
            <4>1. calls'[i] = Answered(i, "released")
                BY <1>1, <1>4, <2>5, <3>1 DEF ProposeEnds, Answer, Returned, Status
            <4>. QED
                BY <1>3, <4>1
        <3>2. CASE calls[i].op # "release"
            BY <1>1, <2>5, <3>2 DEF ProposeEnds, Returned, CallRecord
        <3>. QED
            BY <3>1, <3>2
    <2>6. CASE ProposeRaises(i)
        <3>1. calls'[i] = Answered(i, Failure(i))
            BY <1>1, <2>6 DEF ProposeRaises, Answer
        <3>2. Failure(i) \in {"denied", "error"}
            BY DEF Failure
        <3>. QED
            BY <1>3, <3>1, <3>2
    <2>7. CASE Resume(i)
        <3>1. calls'[i] = Answered(i, calls[i].result) /\ calls[i].op = "acquire"
            BY <1>1, <2>7 DEF Resume, Answer
        <3>. QED
            BY <1>3, <2>7, <3>1
    <2>8. CASE TimeOut(i)
        <3>1. calls'[i] = Answered(i, "timeout") /\ calls[i].op = "acquire"
            BY <1>1, <2>8 DEF TimeOut, Answer
        <3>. QED
            BY <1>3, <3>1
    <2>9. CASE ForwardFails(i)
        <3>1. calls'[i] = Answered(i, "denied") \/ calls'[i] = [calls[i] EXCEPT !.told = "denied"]
            BY <1>1, <2>9 DEF ForwardFails
        <3>2. calls'[i].told = "denied"
            BY <1>1, <1>3, <3>1 DEF CallRecord
        <3>. QED
            BY <3>2
    <2>. QED
        BY <1>6, <2>1, <2>2, <2>3, <2>4, <2>5, <2>6, <2>7, <2>8, <2>9
<1>7. ASSUME NEW n \in Node, Apply(n)
      PROVE  FALSE
    <2>. DEFINE j == agreed[last_applied[n] + 1]
    <2>1. \/ calls' = calls
          \/ \E status : calls' = [calls EXCEPT ![j].result = status]
        BY <1>7 DEF Apply
    <2>. HIDE DEF j
    <2>. QED
        BY <1>1, <2>1, SMTT(60) DEF CallRecord
<1>8. ASSUME NEW n \in Node, Elect(n) \/ Follow(n)
      PROVE  FALSE
    BY <1>8 DEF Elect, Follow, service
<1>9. ASSUME NEW n \in Node, StepDown(n)
      PROVE  FALSE
    BY <1>1, <1>9 DEF StepDown, Deposed, CallRecord
<1>10. ASSUME NEW n \in Node, Restart(n)
       PROVE  calls'[i].told \in {"denied", "error"}
    <2>1. calls'[i] = Answered(i, Failure(i))
        BY <1>10 DEF Restart
    <2>2. Failure(i) \in {"denied", "error"}
        BY DEF Failure
    <2>. QED
        BY <1>3, <2>1, <2>2
<1>11. ~Agree
    BY DEF Agree, service
<1>. QED
    BY <1>2, <1>5, <1>6, <1>7, <1>8, <1>9, <1>10, <1>11 DEF Next
(* Inductiveness of what is held *)

\* A failed release stays one.
LEMMA FailureStays ==
    ASSUME IInv, Next, NEW c, NEW r, FailedRelease(c, r)
    PROVE  FailedRelease(c, r)'
<1>1. PICK i \in Call : /\ Used(i) /\ calls[i].op = "release"
                        /\ calls[i].client = c /\ calls[i].resource = r
                        /\ calls[i].told \in {"denied", "error"}
    BY DEF FailedRelease
<1>2. SameCall(calls'[i], calls[i]) /\ Used(i)' /\ calls[i].told # Nil
    BY <1>1, CallsKeep, CallsStay, NilAssumption DEF Status
<1>. QED
    BY <1>1, <1>2 DEF FailedRelease, SameCall

\* A call that is open after a step was open before it, or is new.
LEMMA OpenBefore ==
    ASSUME IInv, Next, NEW i \in Call, Open(i)', Used(i)
    PROVE  Open(i) /\ SameCall(calls'[i], calls[i])
BY CallsKeep DEF Open, SameCall

LEMMA OneOpenStep ==
    ASSUME IInv, OneOpen, Next
    PROVE  OneOpen'
<1>. SUFFICES ASSUME NEW i \in Call, NEW j \in Call, Open(i)', Open(j)',
                     calls'[i].client = calls'[j].client, i # j
              PROVE  FALSE
    BY DEF OneOpen
<1>1. DOMAIN calls = Call
    BY DEF IInv, CallsTyped
<1>2. ASSUME NEW k \in Call, NEW m \in Call, k # m, Open(k)', Open(m)',
             calls'[k].client = calls'[m].client, ~Used(k)
      PROVE  FALSE
    <2>1. PICK op \in {"acquire", "release"}, c \in Client, r \in Resource,
               type \in {Shared, Exclusive}, n \in Node : Ask(k, op, c, r, type, n)
        BY <1>2, NewCalls DEF Open
    <2>2. calls'[k].client = c /\ calls'[m] = calls[m] /\ Open(m)
        BY <1>1, <1>2, <2>1 DEF Ask, Open, Used
    <2>. QED
        BY <1>2, <2>1, <2>2 DEF Ask
<1>3. CASE Used(i) /\ Used(j)
    BY <1>3, OpenBefore DEF OneOpen, SameCall
<1>. QED
    BY <1>2, <1>3

\* Only the future of an acquire has a result.
LEMMA ResultsFrom ==
    ASSUME IInv, Next, NEW i \in Call, Used(i), calls'[i].result # calls[i].result
    PROVE  /\ calls[i].op = "acquire"
           /\ \/ calls'[i].result = "denied"
              \/ \E n \in Node :
                    /\ Apply(n)
                    /\ i = agreed[last_applied[n] + 1]
                    /\ calls'[i].result =
                          Table!AcquireStatus(locks[n], wait_for_graph[n],
                              calls[i].client, calls[i].resource, calls[i].type)
<1>1. /\ DOMAIN calls = Call
      /\ calls[i] \in CallRecord
      /\ \A n \in Node : i \in pending_requests[n] => calls[i].op = "acquire"
    BY UsedCalls DEF IInv, CallsTyped, PendingAreAwaited
<1>2. ASSUME NEW status, calls'[i] = Answered(i, status)
      PROVE  FALSE
    BY <1>1, <1>2 DEF Answered, CallRecord
<1>3. ASSUME NEW j \in Call, NEW c \in Client, NEW r \in Resource, NEW n \in Node,
             NEW op, NEW type, Ask(j, op, c, r, type, n)
      PROVE  FALSE
    BY <1>1, <1>3 DEF Ask
<1>4. ASSUME NEW j \in Call,
             \/ Propose(j) \/ Forward(j) \/ DenyWithoutLeader(j)
             \/ ProposeEnds(j) \/ ProposeRaises(j)
             \/ Resume(j) \/ TimeOut(j) \/ ForwardFails(j)
      PROVE  FALSE
    <2>1. j = i
        BY <1>1, <1>4 DEF Propose, Forward, DenyWithoutLeader, ProposeEnds,
                    ProposeRaises, Resume, TimeOut, ForwardFails, Answer
    <2>2. CASE Propose(i) \/ ForwardFails(i)
        BY <1>1, <1>2, <2>2 DEF Propose, ForwardFails, CallRecord
    <2>3. CASE Forward(i)
        <3>1. calls'[i] = [calls[i] EXCEPT !.at = current_leader[calls[i].at],
                                           !.forwarded = TRUE]
            BY <1>1, <2>3 DEF Forward
        <3>. QED
            BY <1>1, <3>1 DEF CallRecord
    <2>4. CASE DenyWithoutLeader(i) \/ ProposeRaises(i) \/ Resume(i) \/ TimeOut(i)
        BY <1>1, <1>2, <2>4 DEF DenyWithoutLeader, ProposeRaises, Resume, TimeOut, Answer
    <2>5. CASE ProposeEnds(i)
        <3>1. CASE Returned(calls[i].op) # Nil
            BY <1>1, <1>2, <2>5, <3>1 DEF ProposeEnds, Answer
        <3>2. CASE Returned(calls[i].op) = Nil
            BY <1>1, <2>5, <3>2 DEF ProposeEnds, CallRecord
        <3>. QED
            BY <3>1, <3>2
    <2>. QED
        BY <1>4, <2>1, <2>2, <2>3, <2>4, <2>5
<1>5. ASSUME NEW n \in Node, Apply(n)
      PROVE  /\ i \in pending_requests[n]
             /\ i = agreed[last_applied[n] + 1]
             /\ calls'[i].result =
                   Table!AcquireStatus(locks[n], wait_for_graph[n],
                       calls[i].client, calls[i].resource, calls[i].type)
    <2>. DEFINE j == agreed[last_applied[n] + 1]
                status == Table!AcquireStatus(locks[n], wait_for_graph[n],
                              calls[j].client, calls[j].resource, calls[j].type)
    <2>1. \/ calls' = calls
          \/ j \in pending_requests[n] /\ calls' = [calls EXCEPT ![j].result = status]
        BY <1>5 DEF Apply
    <2>2. j = i /\ j \in pending_requests[n] /\ calls' = [calls EXCEPT ![j].result = status]
        <3>. HIDE DEF j, status
        <3>. QED
            BY <1>1, <2>1
    <2>. QED
        BY <1>1, <2>2, SMTT(60) DEF CallRecord
<1>6. ASSUME NEW n \in Node, Elect(n) \/ Follow(n)
      PROVE  FALSE
    BY <1>6 DEF Elect, Follow, service
<1>7. ASSUME NEW n \in Node, StepDown(n)
      PROVE  i \in pending_requests[n] /\ calls'[i].result = "denied"
    BY <1>1, <1>7 DEF StepDown, Deposed, CallRecord
<1>8. ASSUME NEW n \in Node, Restart(n)
      PROVE  FALSE
    BY <1>1, <1>2, <1>8 DEF Restart
<1>9. ~Agree
    BY DEF Agree, service
<1>10. \/ \E n \in Node : Apply(n)
       \/ \E n \in Node : StepDown(n)
    BY <1>3, <1>4, <1>6, <1>8, <1>9 DEF Next
<1>. QED
    BY <1>1, <1>5, <1>7, <1>10

\* A call that is over stays over.
LEMMA DoneStays ==
    ASSUME IInv, Next, NEW i \in Call, Used(i), calls[i].stage = "done"
    PROVE  calls'[i].stage = "done"
<1>1. /\ DOMAIN calls = Call
      /\ calls[i] \in CallRecord
    BY UsedCalls DEF IInv, CallsTyped
<1>2. ASSUME NEW status, calls'[i] = Answered(i, status)
      PROVE  calls'[i].stage = "done"
    BY <1>1, <1>2 DEF Answered, CallRecord
<1>3. ASSUME NEW j \in Call, NEW c \in Client, NEW r \in Resource, NEW n \in Node,
             NEW op, NEW type, Ask(j, op, c, r, type, n)
      PROVE  calls'[i].stage = "done"
    BY <1>1, <1>3 DEF Ask
<1>4. ASSUME NEW j \in Call,
             \/ Propose(j) \/ Forward(j) \/ DenyWithoutLeader(j)
             \/ ProposeEnds(j) \/ ProposeRaises(j)
             \/ Resume(j) \/ TimeOut(j)
      PROVE  calls'[i].stage = "done"
    BY <1>1, <1>4 DEF Propose, Forward, DenyWithoutLeader, ProposeEnds,
                ProposeRaises, Resume, TimeOut, Answer
<1>5. ASSUME NEW j \in Call, ForwardFails(j)
      PROVE  calls'[i].stage = "done"
    BY <1>1, <1>5 DEF ForwardFails, CallRecord
<1>6. ASSUME NEW n \in Node, Apply(n)
      PROVE  calls'[i].stage = "done"
    <2>. DEFINE j == agreed[last_applied[n] + 1]
    <2>1. \/ calls' = calls
          \/ \E status : calls' = [calls EXCEPT ![j].result = status]
        BY <1>6 DEF Apply
    <2>. HIDE DEF j
    <2>. QED
        BY <1>1, <2>1, SMTT(60) DEF CallRecord
<1>7. ASSUME NEW n \in Node, Elect(n) \/ Follow(n)
      PROVE  calls'[i].stage = "done"
    BY <1>7 DEF Elect, Follow, service
<1>8. ASSUME NEW n \in Node, StepDown(n)
      PROVE  calls'[i].stage = "done"
    BY <1>1, <1>8 DEF StepDown, Deposed, CallRecord
<1>9. ASSUME NEW n \in Node, Restart(n)
      PROVE  calls'[i].stage = "done"
    BY <1>2, <1>9 DEF Restart
<1>10. Agree => calls'[i].stage = "done"
    BY DEF Agree, service
<1>. QED
    BY <1>3, <1>4, <1>5, <1>6, <1>7, <1>8, <1>9, <1>10 DEF Next

LEMMA ReleasesToldStep ==
    ASSUME IInv, ReleasesTold, Next
    PROVE  ReleasesTold'
<1>. SUFFICES ASSUME NEW i \in Call, Used(i)', calls'[i].op = "release"
              PROVE  /\ calls'[i].result = Nil
                     /\ calls'[i].told \in {Nil, "released", "denied", "error"}
                     /\ calls'[i].told = "released" => calls'[i].stage = "done"
    BY DEF ReleasesTold
<1>1. CASE Used(i)
    <2>1. calls[i].op = "release" /\ SameCall(calls'[i], calls[i])
        BY <1>1, CallsKeep DEF SameCall
    <2>2. calls'[i].result = Nil
        BY <1>1, <2>1, ResultsFrom DEF ReleasesTold
    <2>3. CASE calls'[i].told # calls[i].told
        BY <1>1, <2>1, <2>2, <2>3, ToldWhen
    <2>4. CASE calls'[i].told = calls[i].told
        <3>1. calls[i].told = "released" => calls'[i].stage = "done"
            BY <1>1, <2>1, DoneStays DEF ReleasesTold
        <3>. QED
            BY <1>1, <2>1, <2>2, <2>4, <3>1 DEF ReleasesTold
    <2>. QED
        BY <2>3, <2>4
<1>2. CASE ~Used(i)
    <2>1. PICK op \in {"acquire", "release"}, c \in Client, r \in Resource,
               type \in {Shared, Exclusive}, n \in Node : Ask(i, op, c, r, type, n)
        BY <1>2, NewCalls
    <2>2. calls'[i].result = Nil /\ calls'[i].told = Nil
        BY <2>1 DEF Ask, IInv, CallsTyped
    <2>. QED
        BY <2>2, NilAssumption DEF Status
<1>. QED
    BY <1>1, <1>2

LEMMA LogsAsked ==
    ASSUME LogsOK, NEW n \in Node
    PROVE  Log(n) \in Seq(Asked) /\ Len(Log(n)) \in Nat
BY DEF LogsOK, Log

\* While every release of a lock is answered, none of them comes into a log
\* but with all that was before it in another one.
LEMMA NoneBehind ==
    ASSUME IInv, LogsOK, ReleasesTold, Next, NEW c, NEW r, Quiet(c, r), NEW n \in Node
    PROVE  \E m \in Node : \A q \in DOMAIN Log(n)' :
              Releases(calls'[Log(n)'[q]], c, r) =>
                 /\ \A p \in 1 .. q : p \in DOMAIN Log(m) /\ Log(n)'[p] = Log(m)[p]
                 /\ Releases(calls[Log(m)[q]], c, r)
<1>1. ASSUME NEW m \in Node, NEW q \in DOMAIN Log(m),
             Releases(calls'[Log(m)[q]], c, r)
      PROVE  Releases(calls[Log(m)[q]], c, r)
    <2>0. Log(m)[q] \in Asked
        BY <1>1, LogsAsked
    <2>1. PICK j \in Call : j = Log(m)[q] /\ Used(j)
        BY <2>0 DEF Asked
    <2>2. SameCall(calls'[j], calls[j])
        BY <2>1, CallsKeep
    <2>. QED
        BY <1>1, <2>1, <2>2 DEF SameCall, Releases
<1>2. CASE \E m \in Node : Begins(Log(n)', Log(m))
    <2>1. PICK m \in Node : Begins(Log(n)', Log(m))
        BY <1>2
    <2>. DEFINE new == Log(n)'
    <2>2. new \in Seq(Asked') /\ Len(new) \in Nat
        <3>1. LogsOK'
            BY LogsStep
        <3>. QED
            BY <3>1 DEF LogsOK, Log
    <2>. HIDE DEF new
    <2>3. Log(m) \in Seq(Asked) /\ Len(Log(m)) \in Nat
        BY LogsAsked
    <2>4. ASSUME NEW q \in DOMAIN new
          PROVE  \A p \in 1 .. q : p \in DOMAIN Log(m) /\ new[p] = Log(m)[p]
        BY <2>1, <2>2, <2>3, <2>4 DEF Begins, new
    <2>5. ASSUME NEW q \in DOMAIN new, Releases(calls'[new[q]], c, r)
          PROVE  Releases(calls[Log(m)[q]], c, r)
        <3>1. q \in 1 .. q
            BY <2>2, <2>5
        <3>2. q \in DOMAIN Log(m) /\ new[q] = Log(m)[q]
            BY <2>4, <3>1
        <3>. QED
            BY <1>1, <2>5, <3>2
    <2>. QED
        BY <2>4, <2>5 DEF new
<1>3. ASSUME NEW i \in Call, Propose(i), Log(n)' = Append(Log(n), i)
      PROVE  \A q \in DOMAIN Log(n)' :
                Releases(calls'[Log(n)'[q]], c, r) =>
                   /\ \A p \in 1 .. q : p \in DOMAIN Log(n) /\ Log(n)'[p] = Log(n)[p]
                   /\ Releases(calls[Log(n)[q]], c, r)
    <2>1. ~Releases(calls'[i], c, r)
        <3>1. Used(i) /\ calls[i].stage = "sent"
            BY <1>3 DEF Propose
        <3>2. SameCall(calls'[i], calls[i])
            BY <3>1, CallsKeep
        <3>. QED
            BY <3>1, <3>2 DEF Quiet, ReleasesTold, Releases, SameCall
    <2>. DEFINE new == Log(n)'
                old == Log(n)
    <2>2. old \in Seq(Asked) /\ Len(old) \in Nat
        BY LogsAsked
    <2>3. new = Append(old, i)
        BY <1>3
    <2>. HIDE DEF new, old
    <2>4. /\ DOMAIN new = 1 .. Len(old) + 1 /\ DOMAIN old = 1 .. Len(old)
          /\ new[Len(old) + 1] = i
          /\ \A p \in 1 .. Len(old) : new[p] = old[p]
        BY <2>2, <2>3
    <2>5. ASSUME NEW q \in DOMAIN new, Releases(calls'[new[q]], c, r)
          PROVE  /\ \A p \in 1 .. q : p \in DOMAIN old /\ new[p] = old[p]
                 /\ Releases(calls[old[q]], c, r)
        <3>1. q \in 1 .. Len(old)
            BY <2>1, <2>2, <2>4, <2>5
        <3>2. \A p \in 1 .. q : p \in DOMAIN old /\ new[p] = old[p]
            BY <2>2, <2>4, <3>1
        <3>3. q \in DOMAIN old /\ new[q] = old[q]
            BY <2>4, <3>1
        <3>. QED
            BY <1>1, <2>5, <3>2, <3>3 DEF old
    <2>. QED
        BY <2>5 DEF new, old
<1>. QED
    BY <1>2, <1>3, LogsFrom

\* While a client waits for an answer, or goes on holding what it has, it asks
\* for no release.
LEMMA QuietStays ==
    ASSUME IInv, Next, NEW c \in Client, NEW r \in Resource, Quiet(c, r),
           \/ \E i \in Call : Open(i) /\ calls[i].client = c
           \/ <<c, r>> \in held'
    PROVE  Quiet(c, r)'
<1>. SUFFICES ASSUME NEW j \in Call, Used(j)', Releases(calls'[j], c, r)
              PROVE  calls'[j].told = "released"
    BY DEF Quiet
<1>1. CASE Used(j)
    <2>1. SameCall(calls'[j], calls[j])
        BY <1>1, CallsKeep
    <2>. QED
        BY <1>1, <2>1, NilAssumption DEF Quiet, Releases, SameCall, Status
<1>2. CASE ~Used(j)
    <2>1. PICK op \in {"acquire", "release"}, d \in Client, q \in Resource,
               type \in {Shared, Exclusive}, n \in Node : Ask(j, op, d, q, type, n)
        BY <1>2, NewCalls
    <2>2. op = "release" /\ d = c /\ q = r
        BY <2>1 DEF Ask, IInv, CallsTyped, Releases
    <2>. QED
        BY <2>1, <2>2 DEF Ask
<1>. QED
    BY <1>1, <1>2

LEMMA AcquiresLastStep ==
    ASSUME IInv, LogsOK, ReleasesTold, AcquiresLast, Next
    PROVE  AcquiresLast'
<1>. SUFFICES ASSUME NEW i \in Call, NEW c \in Client, NEW r \in Resource,
                     Open(i)', calls'[i].op = "acquire",
                     calls'[i].client = c, calls'[i].resource = r,
                     ~FailedRelease(c, r)'
              PROVE  /\ Quiet(c, r)'
                     /\ \A n \in Node : \A p, q \in DOMAIN Log(n)' :
                          p < q /\ Log(n)'[p] = i =>
                              ~Releases(calls'[Log(n)'[q]], c, r)
    BY DEF AcquiresLast
<1>1. CASE Used(i)
    <2>1. /\ Open(i) /\ calls[i].op = "acquire"
          /\ calls[i].client = c /\ calls[i].resource = r
          /\ calls[i] \in CallRecord
        BY <1>1, OpenBefore, UsedCalls DEF SameCall, IInv
    <2>2. ~FailedRelease(c, r)
        BY FailureStays
    <2>3. /\ Quiet(c, r)
          /\ \A n \in Node : \A p, q \in DOMAIN Log(n) :
                p < q /\ Log(n)[p] = i => ~Releases(calls[Log(n)[q]], c, r)
        BY <2>1, <2>2 DEF AcquiresLast
    <2>4. Quiet(c, r)'
        BY <2>1, <2>3, QuietStays
    <2>5. ASSUME NEW n \in Node, NEW p \in DOMAIN Log(n)', NEW q \in DOMAIN Log(n)',
                 p < q, Log(n)'[p] = i, Releases(calls'[Log(n)'[q]], c, r)
          PROVE  FALSE
        <3>1. PICK m \in Node :
                 /\ \A k \in 1 .. q : k \in DOMAIN Log(m) /\ Log(n)'[k] = Log(m)[k]
                 /\ Releases(calls[Log(m)[q]], c, r)
            BY <2>3, <2>5, NoneBehind
        <3>2. p \in 1 .. q /\ q \in 1 .. q
            <4>1. LogsOK'
                BY LogsStep
            <4>2. Log(n)' \in Seq(Asked')
                BY <4>1 DEF LogsOK, Log
            <4>3. p \in Nat \ {0} /\ q \in Nat \ {0}
                BY <2>5, <4>2
            <4>. QED
                BY <2>5, <4>3
        <3>. QED
            BY <2>3, <2>5, <3>1, <3>2
    <2>. QED
        BY <2>4, <2>5
<1>2. CASE ~Used(i)
    <2>1. PICK op \in {"acquire", "release"}, d \in Client, q \in Resource,
               type \in {Shared, Exclusive}, k \in Node : Ask(i, op, d, q, type, k)
        BY <1>2, NewCalls DEF Open
    <2>2. /\ op = "acquire" /\ \A j \in Call \ {i} : calls'[j] = calls[j]
          /\ \A j \in Call : Open(j) => calls[j].client # c
        BY <2>1 DEF Ask, IInv, CallsTyped
    <2>3. ASSUME NEW j \in Call, Used(j)', Releases(calls'[j], c, r),
                 calls'[j].told # "released"
          PROVE  FALSE
        <3>1. Used(j) /\ calls'[j] = calls[j] /\ Releases(calls[j], c, r)
            BY <2>2, <2>3 DEF Releases, Used
        <3>2. calls[j].told # Nil
            BY <2>2, <3>1 DEF Open, Releases
        <3>3. calls[j].told \in {"denied", "error"}
            BY <2>3, <3>1, <3>2 DEF ReleasesTold, Releases
        <3>4. FailedRelease(c, r)
            BY <3>1, <3>3 DEF FailedRelease, Releases
        <3>. QED
            BY <3>4, FailureStays
    <2>4. ASSUME NEW n \in Node, NEW p \in DOMAIN Log(n)', Log(n)'[p] = i
          PROVE  FALSE
        <3>1. Log(n)' = Log(n)
            BY <2>1 DEF Ask, raft, Log
        <3>2. Log(n)[p] \in Asked
            BY <2>4, <3>1, LogsAsked
        <3>. QED
            BY <1>2, <2>4, <3>1, <3>2 DEF Asked
    <2>. QED
        BY <2>3, <2>4 DEF Quiet
<1>. QED
    BY <1>1, <1>2

\* What is executed is answered as the table has it.
LEMMA SameStatus ==
    ASSUME NEW ls, NEW g, NEW c, NEW r, NEW type
    PROVE  Table!AcquireStatus(ls, g, c, r, type) = TP!AcquireStatus(ls, g, c, r, type)
BY DEF Table!AcquireStatus, Table!Entry, Table!CanAcquire, Table!HasCycle, Table!AddWait,
       TP!AcquireStatus, TP!Entry, TP!CanAcquire, TP!HasCycle, TP!AddWait

LEMMA ResultsTrueStep ==
    ASSUME ServiceInv, NEW T, Tables(T), ResultsTrue(T), Next,
           NEW U, Tables(U)', \A k \in 0 .. Len(agreed) : U[k] = T[k]
    PROVE  ResultsTrue(U)'
<1>. USE DEF ServiceInv
<1>1. /\ agreed \in Seq(Asked) /\ Len(agreed) \in Nat
      /\ last_applied \in [Node -> Nat]
    BY DEF LogsOK
<1>2. /\ Len(agreed') \in Nat /\ Len(agreed') >= Len(agreed)
      /\ \A k \in 1 .. Len(agreed) : agreed'[k] = agreed[k]
    BY <1>1, AgreedFrom
<1>. SUFFICES ASSUME NEW i \in Call, Used(i)', calls'[i].result = "acquired"
              PROVE  \E p \in 1 .. Len(agreed') :
                        /\ agreed'[p] = i
                        /\ TP!Holds(U[p].locks, calls'[i].client, calls'[i].resource)
    BY DEF ResultsTrue
<1>3. Used(i)
    <2>. SUFFICES ASSUME ~Used(i) PROVE FALSE
        OBVIOUS
    <2>1. PICK op \in {"acquire", "release"}, d \in Client, q \in Resource,
               type \in {Shared, Exclusive}, k \in Node : Ask(i, op, d, q, type, k)
        BY NewCalls
    <2>2. calls'[i].result = Nil
        BY <2>1 DEF Ask, IInv, CallsTyped
    <2>. QED
        BY <2>2, NilAssumption DEF Status
<1>4. SameCall(calls'[i], calls[i]) /\ calls[i] \in CallRecord
    BY <1>3, CallsKeep, UsedCalls DEF IInv
<1>5. \E p \in 1 .. Len(agreed) :
         /\ agreed[p] = i
         /\ TP!Holds(T[p].locks, calls[i].client, calls[i].resource)
    <2>1. CASE calls'[i].result = calls[i].result
        BY <1>3, <2>1 DEF ResultsTrue
    <2>2. CASE calls'[i].result # calls[i].result
        <3>1. PICK n \in Node :
                 /\ Apply(n)
                 /\ i = agreed[last_applied[n] + 1]
                 /\ calls'[i].result =
                       Table!AcquireStatus(locks[n], wait_for_graph[n],
                           calls[i].client, calls[i].resource, calls[i].type)
            BY <1>3, <2>2, ResultsFrom
        <3>0. calls[i].op = "acquire"
            BY <1>3, <2>2, ResultsFrom
        <3>2. PICK p : p = last_applied[n] + 1
            BY SMTT(60)
        <3>3. p \in 1 .. Len(agreed) /\ p - 1 = last_applied[n] /\ p - 1 \in 0 .. Len(agreed)
            BY <1>1, <3>1, <3>2 DEF Apply
        <3>4. /\ T[p] = Effect(T[p - 1], calls[i])
              /\ GoodTable(T[p - 1])
              /\ T[p - 1].locks = locks[n] /\ T[p - 1].graph = wait_for_graph[n]
            BY <3>1, <3>2, <3>3 DEF Tables
        <3>5. TP!AcquireStatus(T[p - 1].locks, T[p - 1].graph,
                               calls[i].client, calls[i].resource, calls[i].type)
                 = "acquired"
            BY <3>1, <3>4, SameStatus
        <3>6. TP!Holds(T[p].locks, calls[i].client, calls[i].resource)
            BY <1>4, <3>0, <3>4, <3>5, EffectKeeps
        <3>. QED
            BY <3>1, <3>2, <3>3, <3>6
    <2>. QED
        BY <2>1, <2>2
<1>6. PICK p \in 1 .. Len(agreed) :
         /\ agreed[p] = i
         /\ TP!Holds(T[p].locks, calls[i].client, calls[i].resource)
    BY <1>5
<1>7. p \in 1 .. Len(agreed') /\ agreed'[p] = i /\ U[p] = T[p]
    BY <1>1, <1>2, <1>6
<1>. QED
    BY <1>4, <1>6, <1>7 DEF SameCall

\* Who comes to hold something: a client that is told so.
LEMMA HeldFrom ==
    ASSUME IInv, Next, NEW c \in Client, NEW r \in Resource,
           <<c, r>> \in held', <<c, r>> \notin held
    PROVE  \E i \in Call : /\ Open(i) /\ calls[i].op = "acquire"
                           /\ calls[i].client = c /\ calls[i].resource = r
                           /\ calls[i].result = "acquired"
<1>1. UNCHANGED held \/ held' \subseteq held \/ held' = HeldAfter(calls')
    <2>1. ASSUME NEW j \in Call, NEW d \in Client, NEW q \in Resource, NEW n \in Node,
                 NEW op, NEW type, Ask(j, op, d, q, type, n)
          PROVE  held' \subseteq held
        BY <2>1 DEF Ask
    <2>2. ASSUME NEW j \in Call,
                 \/ Propose(j) \/ Forward(j) \/ DenyWithoutLeader(j)
                 \/ ProposeEnds(j) \/ ProposeRaises(j)
                 \/ Resume(j) \/ TimeOut(j) \/ ForwardFails(j)
          PROVE  UNCHANGED held \/ held' = HeldAfter(calls')
        BY <2>2, SMTT(60) DEF Propose, Forward, DenyWithoutLeader, ProposeEnds,
                    ProposeRaises, Resume, TimeOut, ForwardFails, Answer
    <2>3. ASSUME NEW n \in Node,
                 Apply(n) \/ Elect(n) \/ Follow(n) \/ StepDown(n) \/ Restart(n)
          PROVE  UNCHANGED held
        BY <2>3 DEF Apply, Elect, Follow, StepDown, Restart, service
    <2>4. Agree => UNCHANGED held
        BY DEF Agree, service
    <2>. QED
        BY <2>1, <2>2, <2>3, <2>4 DEF Next
<1>2. PICK i \in Call : /\ Open(i) /\ calls'[i].told = "acquired"
                        /\ <<c, r>> = <<calls'[i].client, calls'[i].resource>>
    BY <1>1 DEF HeldAfter
<1>3. Used(i) /\ calls[i].told = Nil /\ SameCall(calls'[i], calls[i])
    BY <1>2, CallsKeep DEF Open
<1>4. calls'[i].told # calls[i].told
    BY <1>2, <1>3, NilAssumption DEF Status
<1>5. calls[i].op = "acquire" /\ calls[i].result = "acquired"
    BY <1>2, <1>3, <1>4, ToldWhen
<1>. QED
    BY <1>2, <1>3, <1>5 DEF SameCall

LEMMA HeldCoveredStep ==
    ASSUME ServiceInv, ReleasesTold, AcquiresLast, Next,
           NEW T, Tables(T), ResultsTrue(T), HeldCovered(T),
           NEW U, Tables(U)', \A k \in 0 .. Len(agreed) : U[k] = T[k]
    PROVE  HeldCovered(U)'
<1>. USE DEF ServiceInv
<1>1. agreed \in Seq(Asked) /\ Len(agreed) \in Nat
    BY DEF LogsOK
<1>2. Len(agreed') \in Nat /\ Len(agreed') >= Len(agreed)
    BY <1>1, AgreedFrom
<1>. SUFFICES ASSUME NEW c \in Client, NEW r \in Resource, <<c, r>> \in held',
                     ~FailedRelease(c, r)'
              PROVE  /\ Quiet(c, r)'
                     /\ \E p \in 1 .. Len(agreed') :
                           /\ TP!Holds(U[p].locks, c, r)
                           /\ \A n \in Node : \A q \in DOMAIN Log(n)' :
                                 q > p => ~Releases(calls'[Log(n)'[q]], c, r)
    BY DEF HeldCovered
<1>3. ~FailedRelease(c, r)
    BY FailureStays
<1>4. /\ Quiet(c, r)
      /\ \E p \in 1 .. Len(agreed) :
            /\ TP!Holds(T[p].locks, c, r)
            /\ \A n \in Node : \A q \in DOMAIN Log(n) :
                  q > p => ~Releases(calls[Log(n)[q]], c, r)
    <2>1. CASE <<c, r>> \in held
        BY <1>3, <2>1 DEF HeldCovered
    <2>2. CASE <<c, r>> \notin held
        <3>1. PICK i \in Call : /\ Open(i) /\ calls[i].op = "acquire"
                                /\ calls[i].client = c /\ calls[i].resource = r
                                /\ calls[i].result = "acquired"
            BY <2>2, HeldFrom
        <3>2. /\ Quiet(c, r)
              /\ \A n \in Node : \A p, q \in DOMAIN Log(n) :
                    p < q /\ Log(n)[p] = i => ~Releases(calls[Log(n)[q]], c, r)
            BY <1>3, <3>1 DEF AcquiresLast
        <3>3. PICK p \in 1 .. Len(agreed) : agreed[p] = i /\ TP!Holds(T[p].locks, c, r)
            BY <3>1 DEF ResultsTrue, Open
        <3>4. ASSUME NEW n \in Node
              PROVE  p \in DOMAIN Log(n) /\ Log(n)[p] = i
            BY <1>1, <3>3 DEF Log, LogsOK
        <3>5. ASSUME NEW n \in Node, NEW q \in DOMAIN Log(n), q > p
              PROVE  ~Releases(calls[Log(n)[q]], c, r)
            <4>1. p < q
                BY <3>5, <1>1, LogsAsked
            <4>. QED
                BY <3>2, <3>4, <3>5, <4>1
        <3>. QED
            BY <3>2, <3>3, <3>5
    <2>. QED
        BY <2>1, <2>2
<1>5. Quiet(c, r)'
    BY <1>4, QuietStays
<1>6. PICK p \in 1 .. Len(agreed) :
         /\ TP!Holds(T[p].locks, c, r)
         /\ \A n \in Node : \A q \in DOMAIN Log(n) :
               q > p => ~Releases(calls[Log(n)[q]], c, r)
    BY <1>4
<1>7. p \in 1 .. Len(agreed') /\ TP!Holds(U[p].locks, c, r)
    BY <1>1, <1>2, <1>6
<1>8. ASSUME NEW n \in Node, NEW q \in DOMAIN Log(n)', q > p,
             Releases(calls'[Log(n)'[q]], c, r)
      PROVE  FALSE
    <2>1. PICK m \in Node :
             /\ \A k \in 1 .. q : k \in DOMAIN Log(m) /\ Log(n)'[k] = Log(m)[k]
             /\ Releases(calls[Log(m)[q]], c, r)
        BY <1>4, <1>8, NoneBehind
    <2>2. q \in 1 .. q
        <3>1. LogsOK'
            BY LogsStep
        <3>2. Log(n)' \in Seq(Asked')
            BY <3>1 DEF LogsOK, Log
        <3>. QED
            BY <1>8, <3>2
    <2>. QED
        BY <1>6, <1>8, <2>1, <2>2
<1>. QED
    BY <1>5, <1>7, <1>8

LEMMA HeldStart == Init => HeldInv
<1>. SUFFICES ASSUME Init PROVE HeldInv
    OBVIOUS
<1>1. /\ \A i \in Call : ~Used(i) /\ ~Open(i)
      /\ held = {} /\ agreed = <<>> /\ Len(agreed) = 0
      /\ locks = [n \in Node |-> NoLocks]
      /\ wait_for_graph = [n \in Node |-> NoWaits]
      /\ last_applied = [n \in Node |-> 0]
    BY DEF Init, Used, Open
<1>2. OneOpen /\ ReleasesTold /\ AcquiresLast
    BY <1>1 DEF OneOpen, ReleasesTold, AcquiresLast
<1>3. PICK T : T = [k \in {0} |-> NoTable]
    OBVIOUS
<1>4. GoodTable(NoTable)
    <2>1. TP!TableOK(NoLocks)
        BY DEF TP!TableOK, NoLocks
    <2>2. TP!GraphOK(NoWaits, NoLocks)
        BY DEF TP!GraphOK, TP!Graph, TP!Acyclic, TP!HasCycle, NoWaits
    <2>. QED
        BY <2>1, <2>2 DEF GoodTable, NoTable
<1>5. Tables(T)
    <2>1. T[0] = NoTable /\ \A k \in 0 .. 0 : k = 0
        BY <1>3
    <2>2. \A n \in Node : locks[n] = NoLocks /\ wait_for_graph[n] = NoWaits /\ last_applied[n] = 0
        BY <1>1
    <2>3. NoTable.locks = NoLocks /\ NoTable.graph = NoWaits
        BY DEF NoTable
    <2>. QED
        BY <1>1, <1>4, <2>1, <2>2, <2>3 DEF Tables
<1>6. ResultsTrue(T) /\ HeldCovered(T)
    BY <1>1 DEF ResultsTrue, HeldCovered
<1>. QED
    BY <1>2, <1>5, <1>6 DEF HeldInv

LEMMA HeldInductive == Spec => []HeldInv
<1>1. ASSUME ServiceInv, HeldInv, Next
      PROVE  HeldInv'
    <2>. USE DEF ServiceInv
    <2>1. PICK T : Tables(T) /\ ResultsTrue(T) /\ HeldCovered(T)
        BY <1>1 DEF HeldInv
    <2>2. PICK U : Tables(U)' /\ \A k \in 0 .. Len(agreed) : U[k] = T[k]
        BY <1>1, <2>1, TablesFollow
    <2>3. OneOpen /\ ReleasesTold /\ AcquiresLast
        BY <1>1 DEF HeldInv
    <2>4. OneOpen' /\ ReleasesTold' /\ AcquiresLast'
        BY <1>1, <2>3, OneOpenStep, ReleasesToldStep, AcquiresLastStep
    <2>5. ResultsTrue(U)'
        BY <1>1, <2>1, <2>2, ResultsTrueStep
    <2>6. HeldCovered(U)'
        BY <1>1, <2>1, <2>2, <2>3, HeldCoveredStep
    <2>. QED
        BY <2>2, <2>4, <2>5, <2>6 DEF HeldInv
<1>2. ASSUME HeldInv, UNCHANGED vars
      PROVE  HeldInv'
    <2>1. PICK T : Tables(T) /\ ResultsTrue(T) /\ HeldCovered(T)
        BY <1>2 DEF HeldInv
    <2>2. UNCHANGED <<calls, held, locks, wait_for_graph, tail, agreed, last_applied>>
        BY <1>2 DEF vars, service, raft
    <2>3. OneOpen' /\ ReleasesTold'
        BY <1>2, <2>2 DEF HeldInv, OneOpen, ReleasesTold, Open, Used
    <2>4. AcquiresLast'
        BY <1>2, <2>2 DEF HeldInv, AcquiresLast, Open, Used, FailedRelease, Quiet, Log
    <2>5. Tables(T)'
        BY <2>1, <2>2 DEF Tables
    <2>6. ResultsTrue(T)'
        BY <2>1, <2>2 DEF ResultsTrue, Used
    <2>7. HeldCovered(T)'
        BY <2>1, <2>2 DEF HeldCovered, Used, FailedRelease, Quiet, Log
    <2>. QED
        BY <2>3, <2>4, <2>5, <2>6, <2>7 DEF HeldInv
<1>. QED
    BY <1>1, <1>2, HeldStart, ServiceInductive, PTL DEF Spec

\* Mutual exclusion as clients see it: what a client was told it acquired, and
\* did not ask to release since, is its own in the table of every node that
\* executed all that is agreed.
THEOREM WhatIsHeldStaysHeld == Spec => []HeldIsHeld
<1>1. ASSUME ServiceInv, HeldInv
      PROVE  HeldIsHeld
    <2>. USE DEF ServiceInv
    <2>. SUFFICES ASSUME NEW x \in held, NEW n \in Node, last_applied[n] = Len(agreed),
                         ~FailedRelease(x[1], x[2])
                  PROVE  Table!Holds(locks[n], x[1], x[2])
        BY DEF HeldIsHeld
    <2>1. PICK T : Tables(T) /\ HeldCovered(T)
        BY <1>1 DEF HeldInv
    <2>2. PICK c \in Client, r \in Resource : x = <<c, r>> /\ c = x[1] /\ r = x[2]
        BY <1>1 DEF CountsOK
    <2>3. PICK p \in 1 .. Len(agreed) :
             /\ TP!Holds(T[p].locks, c, r)
             /\ \A m \in Node : \A q \in DOMAIN Log(m) :
                   q > p => ~Releases(calls[Log(m)[q]], c, r)
        BY <2>1, <2>2 DEF HeldCovered
    <2>4. PICK L \in Nat : L = Len(agreed)
        BY <1>1 DEF LogsOK
    <2>5. \A q \in p + 1 .. L : ~Releases(calls[agreed[q]], c, r)
        <3>1. ASSUME NEW q \in p + 1 .. L
              PROVE  q \in DOMAIN Log(n) /\ Log(n)[q] = agreed[q] /\ q > p
            BY <1>1, <2>3, <2>4, <3>1 DEF LogsOK, Log
        <3>. QED
            BY <2>3, <3>1
    <2>6. TP!Holds(T[L].locks, c, r)
        <3>1. L \in 0 .. Len(agreed) /\ p \in 0 .. Len(agreed) /\ p <= L
            BY <2>3, <2>4
        <3>. QED
            BY <2>1, <2>3, <2>5, <3>1 DEF Tables
    <2>7. locks[n] = T[L].locks
        BY <2>1, <2>4 DEF Tables
    <2>. QED
        BY <2>2, <2>6, <2>7, SameTable
<1>. QED
    BY <1>1, ServiceInductive, HeldInductive, PTL
=============================================================================
