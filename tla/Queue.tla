-------------------------------- MODULE Queue --------------------------------
(***************************************************************************)
(* The distributed queue of src/nodes/queue_node.py: publish, consume and  *)
(* ack on any node, their handlers, the consumer loop and the redelivery   *)
(* loop, for one queue.  Every node places messages by its own hash ring,  *)
(* which follows its failure detector, and keeps them in a message store   *)
(* with a file.                                                            *)
(*                                                                         *)
(* The calls send to one node after the other and go on whatever comes of  *)
(* a send.  Handlers do not wait, and their answers carry nothing that is  *)
(* kept: a send that is answered is one step, with the handler in it.      *)
(***************************************************************************)
EXTENDS Ring, MessageStore

CONSTANTS
    QueueName,
    Consumer,           \* the nodes whose application subscribed to the queue
    ReplicationFactor,
    PendingLimit,       \* messages that one pass of the consumer loop takes
    ConsumeLimit,       \* messages that a client takes
    Asked,              \* bound: the nodes that clients ask
    Call,               \* slots for the calls in progress
    MaxCalls,           \* bound: calls of clients
    MaxFaults,          \* bound: sends that fail, restarts, torn files
    Silent, SuspectThreshold, DeadThreshold, MaxTasks   \* of the failure detectors

ASSUME KeyAssumption == Key = Message \cup {QueueName} /\ QueueName \notin Message
ASSUME ConsumerAssumption == Consumer \cup Asked \subseteq Node
ASSUME LimitsAssumption ==
    /\ {ReplicationFactor, PendingLimit, ConsumeLimit} \subseteq Nat \ {0}
    /\ {MaxCalls, MaxFaults} \subseteq Nat
ASSUME CallAssumption == Call \subseteq Nat /\ Call \cap Node = {}
ASSUME ThresholdsAssumption ==
    /\ {SuspectThreshold, DeadThreshold} \subseteq Nat \ {0}
    /\ SuspectThreshold < DeadThreshold
ASSUME SilentAssumption ==
    Silent \in [Node -> SUBSET Node] /\ \A n \in Node : n \notin Silent[n]
ASSUME TasksAssumption == MaxTasks \in Nat

VARIABLES
    store,      \* per node: QueueNode.store
    in_flight,  \* per node: the keys of QueueNode.in_flight
    loop,       \* per node: the local variables of _consumer_loop
    calls,      \* the local variables of publish, consume and ack calls
    late,       \* requests to handle whose senders do not wait any more
    asked,      \* how many calls there were
    faults,     \* how many faults there were
    acked,      \* history, per node: the messages acknowledged there
    rings,      \* history, per message: the rings it was published by
    settling,   \* history: the acks in progress that will settle a message
    settled,    \* history: the messages that an ack settled
    status, missed, tasks, ring     \* of the failure detectors

queues == <<store, in_flight, loop>>
history == <<acked, rings, settling, settled>>
detector == <<status, missed, tasks, ring>>
vars == <<queues, calls, late, asked, faults, history, detector>>

Detector == INSTANCE FailureDetector

Durable == INSTANCE DurableQueue WITH
    waiting <- [n \in Node |-> {m \in Message : IsPending(store[n], m)}],
    done <- acked

\* todo: the nodes to send to, the nearest first.
CallRecord == [op : {"publish", "ack", "consume"}, at : Node, id : Key, todo : SUBSET Node]

NoCall == [op |-> "none"]

\* nr: tells requests apart that say the same.
Request == [op : {"publish", "ack", "consume"}, to : Node, id : Key, nr : Nat]

\* rest: the messages of this pass that are not dealt with, the one in hand
\* first. todo: the nodes to send its acknowledgment to.
LoopRecord == [stage : {"idle", "handling", "acking"}, rest : Seq(Message),
               todo : SUBSET Node]

Asleep == [stage |-> "idle", rest |-> <<>>, todo |-> {}]

Init ==
    /\ store = [n \in Node |-> EmptyStore]
    /\ in_flight = [n \in Node |-> {}]
    /\ loop = [n \in Node |-> Asleep]
    /\ calls = [i \in Call |-> NoCall]
    /\ late = {}
    /\ asked = 0
    /\ faults = 0
    /\ acked = [n \in Node |-> {}]
    /\ rings = [m \in Message |-> {}]
    /\ settling = {}
    /\ settled = {}
    /\ Detector!Init

-----------------------------------------------------------------------------
(* Handlers, and what a node does for itself *)

\* Where publish puts a message.
TargetNodes(n, m) == NodesForKey(m, ring[n], ReplicationFactor)

\* Mutant of ResponsibleNodes: the nodes of the queue's name.
ResponsibleForQueue(n, m) == NodesForKey(QueueName, ring[n], ReplicationFactor)

\* Whom ack tells.
ResponsibleNodes(n, m) == NodesForKey(m, ring[n], ReplicationFactor)

\* Mutant of PublishHere: the handler adds like publish does.
PublishAnyway(s, m) == Add(s, m)

\* _handle_publish: not what is there already.
PublishHere(s, m) == IF s.messages[m] = "absent" THEN Add(s, m) ELSE s

\* consume, _handle_consume: what a client takes is in flight.
TakeFrom(n) ==
    [in_flight EXCEPT ![n] = @ \cup Range(GetPending(store[n], ConsumeLimit))]

\* The handler of a request at node n.
Handle(op, n, m) ==
    /\ store' = CASE op = "publish" -> [store EXCEPT ![n] = PublishHere(@, m)]
                  [] op = "ack"     -> [store EXCEPT ![n] = AckMessage(@, m)]
                  [] op = "consume" -> store
    /\ acked' = IF op = "ack" /\ IsPending(store[n], m)
                THEN [acked EXCEPT ![n] = @ \cup {m}]
                ELSE acked

\* What is in flight once node n handled a request.
InFlightAfter(op, n, m) ==
    CASE op = "publish" -> in_flight
      [] op = "ack"     -> [in_flight EXCEPT ![n] = @ \ {m}]
      [] op = "consume" -> TakeFrom(n)

\* The part of ack that node n does for itself, if it is responsible.
AckHere(n, m) ==
    IF n \in ResponsibleNodes(n, m) THEN Handle("ack", n, m) ELSE UNCHANGED <<store, acked>>

InFlightAfterAck(n, m) ==
    IF n \in ResponsibleNodes(n, m) THEN InFlightAfter("ack", n, m) ELSE in_flight

-----------------------------------------------------------------------------
(* History: what an ack settles *)

\* An ack of m at n meets m as it was published: by the same ring, and nothing
\* of a publish is still under way.
Undisturbed(n, m) ==
    /\ rings[m] \subseteq {ring[n]}
    /\ \A i \in Call : calls[i] # NoCall => ~(calls[i].op = "publish" /\ calls[i].id = m)
    /\ \A r \in late : ~(r.op = "publish" /\ r.id = m)

\* Ack k of m has `todo` to send to, and may settle m.
Progress(k, m, todo, may) ==
    /\ settling' = IF may /\ todo # {} THEN settling \cup {<<k, m>>}
                   ELSE settling \ {<<k, m>>}
    /\ settled' = IF may /\ todo = {} THEN settled \cup {m} ELSE settled

-----------------------------------------------------------------------------
(* publish, consume, ack *)

\* A call begins in the first free slot; with nobody to send to it returns.
Begin(i, call) ==
    /\ asked < MaxCalls
    /\ calls[i] = NoCall
    /\ \A j \in Call : j < i => calls[j] # NoCall
    /\ calls' = [calls EXCEPT ![i] = IF call.todo = {} THEN NoCall ELSE call]
    /\ asked' = asked + 1

\* The id is the client's, new or used before.
Publish(i, n, m) ==
    LET here == n \in TargetNodes(n, m) IN
    /\ Begin(i, [op |-> "publish", at |-> n, id |-> m, todo |-> TargetNodes(n, m) \ {n}])
    /\ store' = IF here THEN [store EXCEPT ![n] = Add(@, m)] ELSE store
    /\ acked' = IF here THEN [acked EXCEPT ![n] = @ \ {m}] ELSE acked
    /\ rings' = [rings EXCEPT ![m] = @ \cup {ring[n]}]
    /\ settling' = {s \in settling : s[2] # m}
    /\ settled' = settled \ {m}
    /\ UNCHANGED <<in_flight, loop, late, faults, detector>>

\* An ack of a message the node does not have returns False.
Ack(i, n, m) ==
    LET todo == ResponsibleNodes(n, m) \ {n} IN
    /\ store[n].messages[m] # "absent"
    /\ Begin(i, [op |-> "ack", at |-> n, id |-> m, todo |-> todo])
    /\ AckHere(n, m)
    /\ in_flight' = InFlightAfterAck(n, m)
    /\ Progress(i, m, todo, Undisturbed(n, m))
    /\ UNCHANGED <<loop, late, faults, rings, detector>>

\* The node that is asked is the one of the hash of the queue's name.
Consume(i, n) ==
    LET home == NodeForKey(QueueName, ring[n]) IN
    /\ Begin(i, [op |-> "consume", at |-> n, id |-> QueueName, todo |-> {home} \ {n}])
    /\ in_flight' = IF home = n THEN TakeFrom(n) ELSE in_flight
    /\ UNCHANGED <<store, loop, late, faults, history, detector>>

\* The send of call i is over; settles: it was handled.
Sent(i, handled) ==
    LET c == calls[i]
        todo == c.todo \ {Nearest(c.id, c.todo)}
    IN  /\ calls' = [calls EXCEPT ![i] = IF todo = {} THEN NoCall ELSE [@ EXCEPT !.todo = todo]]
        /\ IF c.op = "ack"
           THEN Progress(i, c.id, todo, handled /\ <<i, c.id>> \in settling)
           ELSE UNCHANGED <<settling, settled>>

SendAnswered(i) ==
    LET c == calls[i]
        n == Nearest(c.id, c.todo)
    IN  /\ c # NoCall
        /\ Handle(c.op, n, c.id)
        /\ in_flight' = InFlightAfter(c.op, n, c.id)
        /\ Sent(i, TRUE)
        /\ UNCHANGED <<loop, late, asked, faults, rings, detector>>

\* A request nobody waits for any more is lost, or will be handled.
GiveUp(op, n, m) ==
    /\ faults < MaxFaults
    /\ faults' = faults + 1
    /\ late' \in {late, late \cup {[op |-> op, to |-> n, id |-> m, nr |-> faults]}}

SendFails(i) ==
    LET c == calls[i] IN
    /\ c # NoCall
    /\ GiveUp(c.op, Nearest(c.id, c.todo), c.id)
    /\ Sent(i, FALSE)
    /\ UNCHANGED <<queues, asked, acked, rings, detector>>

HandleLate(r) ==
    /\ r \in late
    /\ late' = late \ {r}
    /\ Handle(r.op, r.to, r.id)
    /\ in_flight' = InFlightAfter(r.op, r.to, r.id)
    /\ UNCHANGED <<loop, calls, asked, faults, rings, settling, settled, detector>>

-----------------------------------------------------------------------------
(* _consumer_loop *)

\* The messages of `rest` from the first one on that is not in flight.
Deliverable(rest, flying) ==
    LET free == {i \in DOMAIN rest : rest[i] \notin flying} IN
    IF free = {} THEN <<>>
    ELSE SubSeq(rest, CHOOSE i \in free : \A j \in free : i <= j, Len(rest))

\* The loop at n goes on with `rest`, while `flight` is in flight: the next
\* message is handed to the handler, or the pass is over.
GoOn(n, rest, flight) ==
    LET next == Deliverable(rest, flight[n]) IN
    /\ loop' = [loop EXCEPT ![n] =
           IF next = <<>> THEN Asleep
           ELSE [stage |-> "handling", rest |-> next, todo |-> {}]]
    /\ in_flight' = IF next = <<>> THEN flight
                    ELSE [flight EXCEPT ![n] = @ \cup {Head(next)}]

\* A pass begins with what is pending now; later passes see what comes later.
LoopWakes(n) ==
    LET messages == GetPending(store[n], PendingLimit) IN
    /\ n \in Consumer
    /\ loop[n].stage = "idle"
    /\ Deliverable(messages, in_flight[n]) # <<>>
    /\ GoOn(n, messages, in_flight)
    /\ UNCHANGED <<store, calls, late, asked, faults, history, detector>>

InHand(n) == Head(loop[n].rest)

\* Mutant of LoopAcks: the loop waits for an answer, asked or not.
LoopAwaits(n, todo, flight) ==
    /\ loop' = [loop EXCEPT ![n].stage = "acking", ![n].todo = todo]
    /\ in_flight' = flight

\* The loop at n acknowledges what it has in hand; with nobody left to tell it
\* goes on.
LoopAcks(n, todo, flight) ==
    IF todo = {} THEN GoOn(n, Tail(loop[n].rest), flight)
    ELSE /\ loop' = [loop EXCEPT ![n].stage = "acking", ![n].todo = todo]
         /\ in_flight' = flight

HandlerSucceeds(n) ==
    LET m == InHand(n)
        todo == ResponsibleNodes(n, m) \ {n}
    IN  /\ loop[n].stage = "handling"
        /\ AckHere(n, m)
        /\ LoopAcks(n, todo, InFlightAfterAck(n, m))
        /\ Progress(n, m, todo, Undisturbed(n, m))
        /\ UNCHANGED <<calls, late, asked, faults, rings, detector>>

\* Every handler failed, or the only one.
HandlerFails(n) ==
    /\ loop[n].stage = "handling"
    /\ GoOn(n, Tail(loop[n].rest), [in_flight EXCEPT ![n] = @ \ {InHand(n)}])
    /\ UNCHANGED <<store, calls, late, asked, faults, history, detector>>

\* A send of the acknowledgment is over, with `flight` in flight.
LoopSent(n, flight, handled) ==
    LET m == InHand(n)
        todo == loop[n].todo \ {Nearest(m, loop[n].todo)}
    IN  /\ LoopAcks(n, todo, flight)
        /\ Progress(n, m, todo, handled /\ <<n, m>> \in settling)
        /\ UNCHANGED <<calls, asked, rings, detector>>

LoopSendAnswered(n) ==
    LET m == InHand(n)
        p == Nearest(m, loop[n].todo)
    IN  /\ loop[n].stage = "acking"
        /\ Handle("ack", p, m)
        /\ LoopSent(n, InFlightAfter("ack", p, m), TRUE)
        /\ UNCHANGED <<late, faults>>

LoopSendFails(n) ==
    /\ loop[n].stage = "acking"
    /\ GiveUp("ack", Nearest(InHand(n), loop[n].todo), InHand(n))
    /\ LoopSent(n, in_flight, FALSE)
    /\ UNCHANGED <<store, acked>>

\* Mutant of Redeliver: the message stays in flight.
RedeliverLater(n, m) ==
    /\ m \in in_flight[n]
    /\ store' = [store EXCEPT ![n] = Nack(@, m)]
    /\ UNCHANGED <<in_flight, loop, calls, late, asked, faults, history, detector>>

\* _redelivery_loop: m is in flight for longer than ack_timeout, whether its
\* handler still runs or not.
Redeliver(n, m) ==
    /\ m \in in_flight[n]
    /\ store' = [store EXCEPT ![n] = Nack(@, m)]
    /\ in_flight' = [in_flight EXCEPT ![n] = @ \ {m}]
    /\ UNCHANGED <<loop, calls, late, asked, faults, history, detector>>

-----------------------------------------------------------------------------
(* Crashes *)

\* The process of n ends, with its calls and its loop, and starts again from
\* `file`; `kept` are the acknowledgments that are remembered.
Reboot(n, file, kept) ==
    LET here == {i \in Call : calls[i] # NoCall /\ calls[i].at = n} IN
    /\ faults < MaxFaults
    /\ faults' = faults + 1
    /\ store' = [store EXCEPT ![n] = Load(file)]
    /\ in_flight' = [in_flight EXCEPT ![n] = {}]
    /\ loop' = [loop EXCEPT ![n] = Asleep]
    /\ calls' = [i \in Call |-> IF i \in here THEN NoCall ELSE calls[i]]
    /\ acked' = [acked EXCEPT ![n] = kept]
    /\ settling' = {s \in settling : s[1] \notin here \cup {n}}
    /\ Detector!Restart(n)
    /\ UNCHANGED <<late, asked, rings, settled>>

\* What was acknowledged in a process is remembered by the next one.
Restart(n) == Reboot(n, store[n].file, acked[n] \cap Range(store[n].queue))

\* A crash inside _save_queue, which truncates the file before it writes it.
CrashInSave(n) == Reboot(n, Torn, {})

-----------------------------------------------------------------------------
ClientStep ==
    \E i \in Call, n \in Asked :
        \/ \E m \in Message : Publish(i, n, m) \/ Ack(i, n, m)
        \/ Consume(i, n)

SendStep(i) == SendAnswered(i) \/ SendFails(i)

LoopStep(n) ==
    \/ LoopWakes(n)
    \/ HandlerSucceeds(n) \/ HandlerFails(n)
    \/ LoopSendAnswered(n) \/ LoopSendFails(n)

DetectorStep(n) ==
    Detector!Detect(n) /\ UNCHANGED <<queues, calls, late, asked, faults, history>>

Next ==
    \/ ClientStep
    \/ \E i \in Call : SendStep(i)
    \/ \E r \in late : HandleLate(r)
    \/ \E n \in Node :
          \/ LoopStep(n)
          \/ \E m \in Message : Redeliver(n, m)
          \/ Restart(n) \/ CrashInSave(n)
          \/ DetectorStep(n)

Spec == Init /\ [][Next]_vars

\* The consumer loop sleeps a tenth of a second, a send ends within five, the
\* redelivery loop runs every five; that a handler returns is up to the
\* application.
Fairness ==
    \A n \in Consumer :
        /\ WF_vars(LoopStep(n))
        /\ \A m \in Message : WF_vars(Redeliver(n, m))

FairSpec == Spec /\ Fairness

-----------------------------------------------------------------------------
(* Properties *)

TypeOK ==
    /\ store \in [Node -> Store]
    /\ in_flight \in [Node -> SUBSET Message]
    /\ loop \in [Node -> LoopRecord]
    /\ \A n \in Node :
          /\ (loop[n].stage = "idle") = (loop[n].rest = <<>>)
          /\ (loop[n].stage = "acking") = (loop[n].todo # {})
    /\ calls \in [Call -> CallRecord \cup {NoCall}]
    /\ \A i \in Call : calls[i] # NoCall => calls[i].todo # {}
    /\ late \subseteq Request
    /\ asked \in 0 .. MaxCalls /\ faults \in 0 .. MaxFaults
    /\ acked \in [Node -> SUBSET Message]
    /\ rings \in [Message -> SUBSET SUBSET Node]
    /\ settling \subseteq (Call \cup Node) \X Message
    /\ settled \subseteq Message
    /\ Detector!TypeOK

\* Every operation saves what a restart needs: a process that started now from
\* its file would deliver what this one would deliver, in the same order.
FileIsCurrent ==
    \A n \in Node :
        LET unacked == Unacked(store[n].file) IN
        Pending(store[n]) = [i \in DOMAIN unacked |-> unacked[i].id]

\* A message that was published by one ring, and acknowledged by a call with
\* that ring after the publish was over and with every node answering, waits on
\* no node until it is published again, and nobody takes it: no consume, and no
\* pass of a consumer loop that begins. The code promises no more: a pass that
\* had it in its list when it was settled hands it over all the same.
SettledIsOver ==
    [][\A n \in Node :
          /\ \A m \in settled' : ~IsPending(store'[n], m)
          /\ \A m \in settled :
                /\ m \in Range(loop'[n].rest) => m \in Range(loop[n].rest)
                /\ m \in in_flight'[n] => m \in in_flight[n] \cup Range(loop[n].rest)]_vars

\* No callback of the failure detector is lost for the ring that the queue
\* places messages by, in whatever order they come.
LiveNodesStay == Detector!LiveNodesStay

\* On every node, a copy waits until it is acknowledged there, one that was
\* acknowledged does not come back by a late or repeated publish from
\* elsewhere, and a restart changes neither.
ImplementsDurableQueue == Durable!Spec

\* What is among the first pending messages of a node with a consumer is handed
\* to its handler again and again until it is acknowledged.
Redelivered ==
    \A n \in Consumer, m \in Message :
        []<>(m \in Range(GetPending(store[n], PendingLimit)) =>
                loop[n].stage = "handling" /\ InHand(n) = m)
=============================================================================
