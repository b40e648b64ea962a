---------------------------- MODULE MessageStore ----------------------------
(***************************************************************************)
(* The MessageStore of src/nodes/queue_node.py, for one queue, as          *)
(* operators on a record: the messages by id, the ids of the queue in      *)
(* order, and what the file of the queue holds.  A message is its id and   *)
(* whether it is acknowledged; the id of an acknowledged message stays in  *)
(* the queue until the process ends.                                       *)
(***************************************************************************)
EXTENDS Integers, Sequences, FiniteSets, SequencesExt

CONSTANTS
    Message,    \* message ids
    Torn        \* a file that cannot be read

Status == {"absent", "pending", "acked"}

\* QueueMessage.to_dict
Saved == [id : Message, acked : BOOLEAN]

ASSUME TornAssumption == Torn \notin Seq(Saved)

Store == [messages : [Message -> Status], queue : Seq(Message),
          file : Seq(Saved) \cup {Torn}]

EmptyStore == [messages |-> [m \in Message |-> "absent"], queue |-> <<>>, file |-> <<>>]

\* The k-th of the positions I.
Position(I, k) == CHOOSE i \in I : Cardinality({j \in I : j <= i}) = k

\* The elements of s at the positions I, in order. (SelectSeq would do, but the
\* provers do not know it.)
Picked(s, I) == [k \in 1 .. Cardinality(I) |-> s[Position(I, k)]]

\* What _save_queue writes.
Contents(s) ==
    [i \in DOMAIN s.queue |->
        [id |-> s.queue[i], acked |-> s.messages[s.queue[i]] = "acked"]]

SaveQueue(s) == [s EXCEPT !.file = Contents(s)]

\* add asks nobody whether there is such a message.
Add(s, m) ==
    SaveQueue([s EXCEPT !.messages[m] = "pending", !.queue = Append(@, m)])

\* Mutant of AckMessage: the acknowledgment is not saved.
AckUnsaved(s, m) ==
    IF s.messages[m] = "absent" THEN s ELSE [s EXCEPT !.messages[m] = "acked"]

\* ack
AckMessage(s, m) ==
    IF s.messages[m] = "absent" THEN s
    ELSE SaveQueue([s EXCEPT !.messages[m] = "acked"])

\* nack counts an attempt, and saves.
Nack(s, m) == IF s.messages[m] = "absent" THEN s ELSE SaveQueue(s)

IsPending(s, m) == s.messages[m] = "pending"

\* The ids in q of messages to deliver, in order.
Pending(s) == Picked(s.queue, {i \in DOMAIN s.queue : IsPending(s, s.queue[i])})

\* get_pending
GetPending(s, limit) ==
    LET pending == Pending(s) IN
    IF Len(pending) <= limit THEN pending ELSE SubSeq(pending, 1, limit)

Records(file) == IF file = Torn THEN <<>> ELSE file

Unacked(file) ==
    LET records == Records(file) IN Picked(records, {i \in DOMAIN records : ~records[i].acked})

\* _load: every message of the file, the last record of each; in the queue are
\* those without an acknowledgment only.
Load(file) ==
    LET records == Records(file)
        last(m) == CHOOSE i \in DOMAIN records :
            /\ records[i].id = m
            /\ \A j \in DOMAIN records : records[j].id = m => j <= i
        unacked == Unacked(file)
    IN  [messages |-> [m \in Message |->
             IF \A i \in DOMAIN records : records[i].id # m THEN "absent"
             ELSE IF records[last(m)].acked THEN "acked" ELSE "pending"],
         queue |-> [i \in DOMAIN unacked |-> unacked[i].id],
         file |-> file]
=============================================================================
