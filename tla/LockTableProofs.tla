--------------------------- MODULE LockTableProofs ---------------------------
(***************************************************************************)
(* Proofs about LockTable, for every set of clients and resources.         *)
(***************************************************************************)
EXTENDS LockTable, Extrema, SequenceTheorems, TLAPS

-----------------------------------------------------------------------------
(* Queues *)

\* Before RunEnd(w) every request is shared; at RunEnd(w) one is exclusive, or
\* the queue is over.
LEMMA RunEndProperties ==
    ASSUME NEW w \in Seq(Request)
    PROVE  /\ RunEnd(w) \in 1 .. Len(w) + 1
           /\ \A i \in 1 .. RunEnd(w) - 1 : w[i].lock_type = Shared
           /\ RunEnd(w) <= Len(w) => w[RunEnd(w)].lock_type = Exclusive
<1>1. Len(w) \in Nat /\ \A i \in 1 .. Len(w) : w[i] \in Request
    BY ElementOfSeq, LenProperties
<1>2. Stops(w) \subseteq Nat /\ Stops(w) # {}
    BY <1>1 DEF Stops
<1>3. RunEnd(w) \in Stops(w) /\ \A j \in Stops(w) : RunEnd(w) <= j
    BY <1>2, MinExists DEF RunEnd
<1>4. RunEnd(w) \in 1 .. Len(w) + 1
    BY <1>1, <1>3 DEF Stops
<1>5. ASSUME NEW i \in 1 .. RunEnd(w) - 1
      PROVE  w[i].lock_type = Shared
    <2>1. i \notin Stops(w) /\ i \in 1 .. Len(w)
        BY <1>1, <1>3, <1>4
    <2>. QED
        BY <2>1, <1>1 DEF Stops, Request, LockType
<1>6. RunEnd(w) <= Len(w) => w[RunEnd(w)].lock_type = Exclusive
    BY <1>1, <1>3 DEF Stops
<1>. QED
    BY <1>4, <1>5, <1>6

\* _process_waiting serves at least one request and at most the whole queue;
\* after a shared run the next request is exclusive.
LEMMA ServedProperties ==
    ASSUME NEW w \in Seq(Request), w # <<>>
    PROVE  /\ Served(w) \in 1 .. Len(w)
           /\ w[1].lock_type = Exclusive => Served(w) = 1
           /\ w[1].lock_type = Shared /\ Served(w) < Len(w)
                => w[Served(w) + 1].lock_type = Exclusive
           /\ ServedClients(w) \subseteq Client
           /\ w[1].client_id \in ServedClients(w)
<1>1. Len(w) \in Nat \ {0} /\ \A i \in 1 .. Len(w) : w[i] \in Request
    BY ElementOfSeq, LenProperties, EmptySeq
<1>2. /\ RunEnd(w) \in 1 .. Len(w) + 1
      /\ RunEnd(w) <= Len(w) => w[RunEnd(w)].lock_type = Exclusive
    BY RunEndProperties
<1>3. w[1].lock_type # Exclusive => RunEnd(w) # 1
    BY <1>1, <1>2
<1>4. Served(w) \in 1 .. Len(w)
    BY <1>1, <1>2, <1>3 DEF Served
<1>5. w[1].lock_type = Shared /\ Served(w) < Len(w)
        => w[Served(w) + 1].lock_type = Exclusive
    BY <1>1, <1>2, LockTypeAssumption DEF Served
<1>6. ServedClients(w) \subseteq Client /\ w[1].client_id \in ServedClients(w)
    BY <1>1, <1>4 DEF ServedClients, Request
<1>. QED
    BY <1>4, <1>5, <1>6 DEF Served

-----------------------------------------------------------------------------
(* One lock *)

\* WriterAlone, NoLostWakeup and HeadConflicts, of one lock.
LockOK(l) ==
    /\ l.holders # {}
    /\ l.lock_type = Exclusive => \E c \in Client : l.holders = {c}
    /\ l.lock_type = Shared /\ l.waiting # <<>>
         => l.waiting[1].lock_type = Exclusive

\* A lock that nobody holds, as _apply_acquire makes it, has no queue.
Fresh(l) == l.holders = {} /\ l.waiting = <<>>

LEMMA GrantProperties ==
    ASSUME NEW l \in Lock, LockOK(l) \/ Fresh(l),
           NEW c \in Client, NEW type \in LockType, CanAcquire(l, c, type)
    PROVE  /\ Grant(l, c, type) \in Lock
           /\ LockOK(Grant(l, c, type))
           /\ Grant(l, c, type).holders = l.holders \cup {c}
           /\ Grant(l, c, type).waiting = l.waiting
<1>. DEFINE g == Grant(l, c, type)
<1>1. /\ g.holders = l.holders \cup {c}
      /\ g.waiting = l.waiting
      /\ g.lock_type = IF l.holders = {} THEN type ELSE l.lock_type
      /\ g \in Lock
    BY ZenonT(60) DEF Grant, Lock
<1>2. ASSUME Fresh(l)
      PROVE  LockOK(g)
    <2>. HIDE DEF g
    <2>. QED
        BY <1>1, <1>2 DEF LockOK, Fresh
<1>3. ASSUME LockOK(l)
      PROVE  LockOK(g)
    <2>. HIDE DEF g
    <2>. QED
        BY <1>1, <1>3, LockTypeAssumption DEF LockOK, CanAcquire
<1>. QED
    BY <1>1, <1>2, <1>3

\* The lock with a request of c at the end of its queue.
Enqueue(l, c, type) ==
    [l EXCEPT !.waiting = Append(@, [client_id |-> c, lock_type |-> type])]

LEMMA EnqueueProperties ==
    ASSUME NEW l \in Lock, LockOK(l),
           NEW c \in Client, NEW type \in LockType, ~CanAcquire(l, c, type)
    PROVE  /\ Enqueue(l, c, type) \in Lock
           /\ LockOK(Enqueue(l, c, type))
           /\ Enqueue(l, c, type).holders = l.holders
           /\ Len(Enqueue(l, c, type).waiting) = Len(l.waiting) + 1
           /\ Enqueue(l, c, type).waiting[Len(l.waiting) + 1].client_id = c
           /\ \A i \in 1 .. Len(l.waiting) :
                Enqueue(l, c, type).waiting[i] = l.waiting[i]
<1>. DEFINE q == Enqueue(l, c, type)
            e == [client_id |-> c, lock_type |-> type]
<1>1. l.waiting \in Seq(Request) /\ Len(l.waiting) \in Nat
    BY LenProperties DEF Lock
<1>2. Append(l.waiting, e) \in Seq(Request)
    BY <1>1 DEF Request
<1>3. /\ q.holders = l.holders
      /\ q.waiting = Append(l.waiting, e)
      /\ q.lock_type = l.lock_type
      /\ q \in Lock
    BY <1>2 DEF Enqueue, Lock
<1>4. /\ Len(q.waiting) = Len(l.waiting) + 1
      /\ q.waiting[Len(l.waiting) + 1] = e
      /\ \A i \in 1 .. Len(l.waiting) : q.waiting[i] = l.waiting[i]
    BY <1>3, <1>1
<1>5. LockOK(q)
    <2>1. ASSUME l.lock_type = Shared
          PROVE  q.waiting[1].lock_type = Exclusive
        <3>1. type = Exclusive
            BY <2>1 DEF CanAcquire, LockType
        <3>2. CASE l.waiting = <<>>
            BY <1>4, <3>1, <3>2
        <3>3. CASE l.waiting # <<>>
            <4>1. 1 \in 1 .. Len(l.waiting)
                BY <1>1, <3>3, EmptySeq
            <4>. QED
                BY <1>4, <2>1, <3>3, <4>1 DEF LockOK
        <3>. QED
            BY <3>2, <3>3
    <2>. QED
        BY <1>3, <2>1 DEF LockOK
<1>. QED
    BY <1>3, <1>4, <1>5

\* A release by a holder leaves a good lock or one that is dropped, and keeps
\* the other holders and the queue unless the queue is served.
LEMMA ReleaseProperties ==
    ASSUME NEW l \in Lock, LockOK(l), NEW c \in l.holders
    PROVE  /\ LockAfterRelease(l, c) \in Lock
           /\ LockOK(LockAfterRelease(l, c)) \/ Fresh(LockAfterRelease(l, c))
           /\ ~PassesOn(l, c) =>
                /\ LockAfterRelease(l, c).holders = l.holders \ {c}
                /\ LockAfterRelease(l, c).waiting = l.waiting
<1>. DEFINE left == [l EXCEPT !.holders = @ \ {c}]
            w == l.waiting
<1>1. /\ left \in Lock
      /\ left.holders = l.holders \ {c}
      /\ left.waiting = w
      /\ left.lock_type = l.lock_type
      /\ w \in Seq(Request) /\ Len(w) \in Nat
    BY LenProperties DEF Lock
<1>2. CASE ~PassesOn(l, c)
    <2>1. LockAfterRelease(l, c) = left
        BY <1>2 DEF LockAfterRelease
    <2>2. left.holders = {} => w = <<>>
        BY <1>1, <1>2 DEF PassesOn
    <2>. QED
        BY <1>1, <2>1, <2>2 DEF LockOK, Fresh
<1>3. CASE PassesOn(l, c)
    <2>. DEFINE n == Served(w)
                p == ProcessWaiting(left)
    <2>1. LockAfterRelease(l, c) = p /\ left.holders = {} /\ w # <<>>
        BY <1>1, <1>3 DEF LockAfterRelease, PassesOn
    <2>2. /\ n \in 1 .. Len(w)
          /\ w[1].lock_type = Exclusive => n = 1
          /\ w[1].lock_type = Shared /\ n < Len(w)
               => w[n + 1].lock_type = Exclusive
          /\ ServedClients(w) \subseteq Client
          /\ w[1].client_id \in ServedClients(w)
        BY <1>1, <2>1, ServedProperties
    <2>3. w[1] \in Request /\ \A i \in n + 1 .. Len(w) : w[i] \in Request
        BY <1>1, <2>2, ElementOfSeq
    <2>4. /\ p.lock_type = w[1].lock_type
          /\ p.holders = ServedClients(w)
          /\ p.waiting = SubSeq(w, n + 1, Len(w))
          /\ p = [lock_type |-> p.lock_type, holders |-> p.holders,
                  waiting |-> p.waiting]
        BY <1>1, <2>1 DEF ProcessWaiting
    <2>5. /\ p.waiting \in Seq(Request)
          /\ n = Len(w) => p.waiting = <<>>
          /\ n < Len(w) => p.waiting[1] = w[n + 1]
        <3>1. n + 1 \in Int /\ Len(w) \in Int
            BY <1>1, <2>2
        <3>2. /\ SubSeq(w, n + 1, Len(w)) \in Seq(Request)
              /\ \A i \in 1 .. Len(w) - (n + 1) + 1 :
                    SubSeq(w, n + 1, Len(w))[i] = w[n + 1 + i - 1]
            BY <2>3, <3>1, SubSeqProperties
        <3>3. n = Len(w) => SubSeq(w, n + 1, Len(w)) = <<>>
            BY <1>1, <3>1, SubSeqEmpty
        <3>4. n < Len(w) => SubSeq(w, n + 1, Len(w))[1] = w[n + 1]
            BY <1>1, <2>2, <3>2, SMTT(60)
        <3>. QED
            BY <2>4, <3>2, <3>3, <3>4
    <2>6. p \in Lock
        BY <2>2, <2>3, <2>4, <2>5 DEF Lock, Request
    <2>7. LockOK(p)
        <3>1. p.holders # {}
            BY <2>2, <2>4
        <3>2. p.lock_type = Exclusive => p.holders = {w[1].client_id}
            <4>. SUFFICES ASSUME n = 1
                          PROVE  ServedClients(w) = {w[1].client_id}
                BY <2>2, <2>4
            <4>. QED
                BY DEF ServedClients
        <3>3. p.lock_type = Shared /\ p.waiting # <<>>
                => p.waiting[1].lock_type = Exclusive
            BY <1>1, <2>2, <2>4, <2>5, SMTT(60)
        <3>. QED
            BY <3>1, <3>2, <3>3, <2>3 DEF LockOK, Request
    <2>. QED
        BY <1>3, <2>1, <2>6, <2>7
<1>. QED
    BY <1>2, <1>3

-----------------------------------------------------------------------------
(* The wait-for graph *)

Acyclic(g) == \A c \in Client : ~HasCycle(g, c)

\* Every walk of a smaller graph is a walk of the larger one.
LEMMA CycleMonotonic ==
    ASSUME NEW g, NEW h, \A c \in Client : h[c] \subseteq g[c],
           NEW c \in Client, HasCycle(h, c)
    PROVE  HasCycle(g, c)
<1>1. PICK S \in SUBSET Client : c \in S /\ \A x \in S : h[x] \cap S # {}
    BY DEF HasCycle
<1>2. \A x \in S : g[x] \cap S # {}
    BY <1>1
<1>. QED
    BY <1>1, <1>2 DEF HasCycle

\* A new wait of c that closes no cycle at c closes none anywhere: a walk that
\* never ends either meets c or uses old edges only.
LEMMA AddWaitAcyclic ==
    ASSUME NEW g \in Graph, Acyclic(g), NEW c \in Client,
           NEW hs \in SUBSET Client, ~HasCycle(AddWait(g, c, hs), c)
    PROVE  AddWait(g, c, hs) \in Graph /\ Acyclic(AddWait(g, c, hs))
<1>. DEFINE a == AddWait(g, c, hs)
<1>1. a \in Graph /\ \A x \in Client \ {c} : a[x] = g[x]
    BY DEF AddWait, Graph
<1>2. ASSUME NEW x \in Client, HasCycle(a, x)
      PROVE  FALSE
    <2>1. PICK S \in SUBSET Client : x \in S /\ \A y \in S : a[y] \cap S # {}
        BY <1>2 DEF HasCycle
    <2>2. c \notin S
        BY <2>1 DEF HasCycle
    <2>3. \A y \in S : g[y] \cap S # {}
        BY <1>1, <2>1, <2>2
    <2>. QED
        BY <2>1, <2>3 DEF Acyclic, HasCycle
<1>. QED
    BY <1>1, <1>2 DEF Acyclic

\* c really waits for h: h holds what c is queued on.
EdgeReal(ls, c, h) ==
    h # c /\ \E r \in DOMAIN ls : Queued(ls, c, r) /\ h \in ls[r].holders

LEMMA WaitsRealIsEdgeReal ==
    ASSUME wait_for_graph \in Graph
    PROVE  WaitsReal <=>
             \A c \in Client : \A h \in wait_for_graph[c] : EdgeReal(locks, c, h)
<1>1. \A c \in Client : \A h \in wait_for_graph[c] : h \in Client
    BY DEF Graph
<1>. QED
    BY <1>1 DEF WaitsReal, RealWaits, EdgeReal

-----------------------------------------------------------------------------
(* The inductive invariant *)

TableOK(ls) ==
    /\ DOMAIN ls \subseteq Resource
    /\ \A r \in DOMAIN ls : ls[r] \in Lock /\ LockOK(ls[r])

GraphOK(g, ls) ==
    /\ g \in Graph
    /\ Acyclic(g)
    /\ \A c \in Client : \A h \in g[c] : EdgeReal(ls, c, h)

\* c holds r, and in exclusive mode.
HoldsExclusive(ls, c, r) == Holds(ls, c, r) /\ ls[r].lock_type = Exclusive

GrantsOK(gr, ls) ==
    /\ gr \subseteq Grants
    /\ \A x \in gr : Holds(ls, x.client_id, x.resource_id)
    /\ \A x \in gr : x.lock_type = Exclusive /\ ~x.upgrade =>
         HoldsExclusive(ls, x.client_id, x.resource_id)

IInv == TableOK(locks) /\ GraphOK(wait_for_graph, locks) /\ GrantsOK(grants, locks)

\* Storing a good lock for r, with no fewer holders and no shorter a queue
\* than r had, keeps the table good and every real wait real.
LEMMA PutProperties ==
    ASSUME NEW ls, TableOK(ls), NEW r \in Resource, NEW l \in Lock, LockOK(l),
           r \in DOMAIN ls =>
             /\ ls[r].holders \subseteq l.holders
             /\ \A i \in DOMAIN ls[r].waiting :
                    /\ i \in DOMAIN l.waiting
                    /\ l.waiting[i] = ls[r].waiting[i]
    PROVE  /\ TableOK(Put(ls, r, l))
           /\ \A c, h : EdgeReal(ls, c, h) => EdgeReal(Put(ls, r, l), c, h)
           /\ \A c, q : Holds(ls, c, q) => Holds(Put(ls, r, l), c, q)
<1>. DEFINE n == Put(ls, r, l)
<1>1. /\ DOMAIN n = DOMAIN ls \cup {r}
      /\ n[r] = l
      /\ \A q \in DOMAIN ls \ {r} : n[q] = ls[q]
    BY DEF Put
<1>. HIDE DEF n
<1>2. TableOK(n)
    BY <1>1 DEF TableOK
<1>3. ASSUME NEW c, NEW h, EdgeReal(ls, c, h)
      PROVE  EdgeReal(n, c, h)
    <2>1. PICK q \in DOMAIN ls : Queued(ls, c, q) /\ h \in ls[q].holders
        BY <1>3 DEF EdgeReal
    <2>2. Queued(n, c, q) /\ h \in n[q].holders
        BY <1>1, <2>1 DEF Queued
    <2>. QED
        BY <1>1, <1>3, <2>1, <2>2 DEF EdgeReal
<1>4. ASSUME NEW c, NEW q, Holds(ls, c, q)
      PROVE  Holds(n, c, q)
    BY <1>1, <1>4 DEF Holds
<1>. QED
    BY <1>2, <1>3, <1>4 DEF n

-----------------------------------------------------------------------------
(* The steps *)

\* The lock _apply_acquire works on.
LEMMA EntryProperties ==
    ASSUME NEW ls, TableOK(ls), NEW r \in Resource, NEW type \in LockType
    PROVE  /\ Entry(ls, r, type) \in Lock
           /\ r \in DOMAIN ls =>
                Entry(ls, r, type) = ls[r] /\ LockOK(Entry(ls, r, type))
           /\ r \notin DOMAIN ls => Fresh(Entry(ls, r, type))
<1>1. CASE r \in DOMAIN ls
    BY <1>1 DEF Entry, TableOK
<1>2. CASE r \notin DOMAIN ls
    <2>1. [lock_type |-> type, holders |-> {}, waiting |-> <<>>] \in Lock
        BY EmptySeq DEF Lock
    <2>. QED
        BY <1>2, <2>1 DEF Entry, Fresh
<1>. QED
    BY <1>1, <1>2

\* An acquire leaves a good table and a good graph: whatever was held is held
\* on, and so is what is answered ACQUIRED.
LEMMA AcquireKeeps ==
    ASSUME NEW ls, TableOK(ls), NEW g, GraphOK(g, ls),
           NEW c \in Client, NEW r \in Resource, NEW type \in LockType,
           NEW new, new = LocksAfterAcquire(ls, g, c, r, type),
           NEW graph, graph = GraphAfterAcquire(ls, g, c, r, type)
    PROVE  /\ TableOK(new) /\ GraphOK(graph, new)
           /\ \A x, q : Holds(ls, x, q) => Holds(new, x, q)
           /\ AcquireStatus(ls, g, c, r, type) = "acquired" => Holds(new, c, r)
<1>. DEFINE l == Entry(ls, r, type)
            status == AcquireStatus(ls, g, c, r, type)
<1>1. /\ l \in Lock /\ l.holders \in SUBSET Client
      /\ r \in DOMAIN ls => l = ls[r] /\ LockOK(l)
      /\ r \notin DOMAIN ls => Fresh(l)
    BY EntryProperties DEF Lock
<1>2. /\ g \in Graph /\ Acyclic(g)
      /\ \A x \in Client : \A h \in g[x] : EdgeReal(ls, x, h)
    BY DEF GraphOK
<1>. DEFINE fewer == RemoveWaits(g, {c})
<1>4. /\ fewer \in Graph /\ Acyclic(fewer)
      /\ \A x \in Client : fewer[x] \subseteq g[x]
    <2>1. fewer \in Graph /\ \A x \in Client : fewer[x] \subseteq g[x]
        BY <1>2 DEF RemoveWaits, Graph
    <2>. HIDE DEF fewer
    <2>. QED
        BY <1>2, <2>1, CycleMonotonic DEF Acyclic
<1>5. CASE CanAcquire(l, c, type)
    <2>. DEFINE n == Grant(l, c, type)
    <2>1. status = "acquired"
        BY <1>5 DEF AcquireStatus
    <2>2. new = Put(ls, r, n) /\ graph = fewer
        BY <2>1 DEF LocksAfterAcquire, GraphAfterAcquire
    <2>3. /\ n \in Lock /\ LockOK(n)
          /\ n.holders = l.holders \cup {c} /\ n.waiting = l.waiting
        BY <1>1, <1>5, GrantProperties
    <2>. HIDE DEF n, fewer, l
    <2>4. /\ TableOK(new)
          /\ \A x, h : EdgeReal(ls, x, h) => EdgeReal(new, x, h)
          /\ \A x, q : Holds(ls, x, q) => Holds(new, x, q)
        BY <1>1, <2>2, <2>3, PutProperties
    <2>5. Holds(new, c, r)
        BY <2>2, <2>3 DEF Holds, Put
    <2>7. GraphOK(graph, new)
        BY <1>2, <1>4, <2>2, <2>4 DEF GraphOK
    <2>. QED
        BY <2>4, <2>5, <2>7
<1>6. CASE /\ ~CanAcquire(l, c, type)
           /\ HasCycle(AddWait(g, c, l.holders), c)
    <2>1. status = "deadlock"
        BY <1>6 DEF AcquireStatus
    <2>2. new = ls /\ graph = fewer
        BY <2>1 DEF LocksAfterAcquire, GraphAfterAcquire
    <2>. HIDE DEF fewer
    <2>. QED
        BY <1>2, <1>4, <2>1, <2>2 DEF GraphOK
<1>7. CASE /\ ~CanAcquire(l, c, type)
           /\ ~HasCycle(AddWait(g, c, l.holders), c)
    <2>. DEFINE n == Enqueue(l, c, type)
                a == AddWait(g, c, l.holders)
    <2>1. status = "waiting"
        BY <1>7 DEF AcquireStatus
    <2>2. new = Put(ls, r, n) /\ graph = a
        BY <2>1 DEF LocksAfterAcquire, GraphAfterAcquire, Enqueue
    <2>3. LockOK(l) /\ Len(l.waiting) \in Nat /\ l.waiting \in Seq(Request)
        BY <1>1, <1>7, LenProperties DEF CanAcquire, Fresh, Lock
    <2>4. /\ n \in Lock /\ LockOK(n) /\ n.holders = l.holders
          /\ Len(n.waiting) = Len(l.waiting) + 1
          /\ n.waiting[Len(l.waiting) + 1].client_id = c
          /\ \A i \in 1 .. Len(l.waiting) : n.waiting[i] = l.waiting[i]
        BY <1>1, <1>7, <2>3, EnqueueProperties
    <2>5. /\ DOMAIN l.waiting = 1 .. Len(l.waiting)
          /\ DOMAIN n.waiting = 1 .. Len(l.waiting) + 1
        BY <2>3, <2>4, LenProperties DEF Lock
    <2>6. a \in Graph /\ Acyclic(a)
        BY <1>1, <1>2, <1>7, AddWaitAcyclic
    <2>7. \A x \in Client : \A h \in a[x] :
             h \in g[x] \/ (x = c /\ h \in l.holders \ {c})
        BY <1>2 DEF AddWait, Graph
    <2>. HIDE DEF n, a, l
    <2>8. /\ TableOK(new)
          /\ \A x, h : EdgeReal(ls, x, h) => EdgeReal(new, x, h)
          /\ \A x, q : Holds(ls, x, q) => Holds(new, x, q)
        BY <1>1, <2>2, <2>4, <2>5, PutProperties
    <2>9. \A h \in l.holders \ {c} : EdgeReal(new, c, h)
        <3>1. r \in DOMAIN new /\ new[r] = n
            BY <2>2 DEF Put
        <3>2. Queued(new, c, r)
            BY <2>3, <2>4, <2>5, <3>1 DEF Queued
        <3>. QED
            BY <2>4, <3>1, <3>2 DEF EdgeReal
    <2>10. GraphOK(graph, new)
        BY <1>2, <2>2, <2>6, <2>7, <2>8, <2>9 DEF GraphOK
    <2>. QED
        BY <2>1, <2>8, <2>10
<1>. QED
    BY <1>5, <1>6, <1>7

\* A lock keeps its mode while somebody holds it, and a grant that is no
\* upgrade is in the mode that was asked for.
LEMMA AcquireMode ==
    ASSUME NEW ls, TableOK(ls), NEW g,
           NEW c \in Client, NEW r \in Resource, NEW type \in LockType,
           NEW new, new = LocksAfterAcquire(ls, g, c, r, type)
    PROVE  /\ \A x, q : HoldsExclusive(ls, x, q) => HoldsExclusive(new, x, q)
           /\ /\ AcquireStatus(ls, g, c, r, type) = "acquired"
              /\ type = Exclusive /\ ~Upgrade(ls, c, r, type)
              => HoldsExclusive(new, c, r)
<1>. DEFINE l == Entry(ls, r, type)
            status == AcquireStatus(ls, g, c, r, type)
<1>1. /\ l \in Lock
      /\ r \in DOMAIN ls => l = ls[r]
      /\ r \notin DOMAIN ls => l.holders = {}
    BY EntryProperties DEF Fresh
<1>2. CASE status = "acquired"
    <2>. DEFINE n == Grant(l, c, type)
    <2>1. /\ n.lock_type = IF l.holders = {} THEN type ELSE l.lock_type
          /\ n.holders = l.holders \cup {c}
        <3>. HIDE DEF l
        <3>. QED
            BY <1>1, SMTT(60) DEF Grant, Lock
    <2>2. new = Put(ls, r, n)
        BY <1>2 DEF LocksAfterAcquire
    <2>3. CanAcquire(l, c, type)
        BY <1>2 DEF AcquireStatus
    <2>. HIDE DEF n, l, status
    <2>4. /\ DOMAIN new = DOMAIN ls \cup {r} /\ new[r] = n
          /\ \A q \in DOMAIN ls \ {r} : new[q] = ls[q]
        BY <2>2 DEF Put
    <2>5. \A x, q : HoldsExclusive(ls, x, q) => HoldsExclusive(new, x, q)
        BY <1>1, <2>1, <2>4 DEF HoldsExclusive, Holds
    <2>6. ASSUME type = Exclusive, ~Upgrade(ls, c, r, type)
          PROVE  HoldsExclusive(new, c, r)
        <3>1. CASE l.holders = {}
            BY <2>1, <2>4, <2>6, <3>1 DEF HoldsExclusive, Holds
        <3>2. CASE l.holders # {}
            <4>1. r \in DOMAIN ls /\ l = ls[r] /\ c \in l.holders
                BY <1>1, <2>3, <2>6, <3>2, LockTypeAssumption DEF CanAcquire
            <4>2. l.lock_type \in {Shared, Exclusive} /\ l.lock_type # Shared
                BY <1>1, <2>6, <4>1 DEF Upgrade, Holds, Lock, LockType
            <4>3. n.lock_type = Exclusive /\ c \in n.holders
                BY <2>1, <3>2, <4>2
            <4>. QED
                BY <2>4, <4>3 DEF HoldsExclusive, Holds
        <3>. QED
            BY <3>1, <3>2
    <2>. QED
        BY <2>5, <2>6 DEF status
<1>3. CASE status = "waiting"
    <2>. DEFINE n == Enqueue(l, c, type)
    <2>1. n.lock_type = l.lock_type /\ n.holders = l.holders
        BY <1>1 DEF Enqueue, Lock
    <2>2. new = Put(ls, r, n)
        BY <1>3 DEF LocksAfterAcquire, Enqueue
    <2>. HIDE DEF n, l
    <2>. QED
        BY <1>1, <1>3, <2>1, <2>2 DEF Put, HoldsExclusive, Holds
<1>4. CASE status = "deadlock"
    BY <1>4 DEF LocksAfterAcquire
<1>. QED
    BY <1>2, <1>3, <1>4 DEF AcquireStatus

LEMMA ReleaseMode ==
    ASSUME NEW ls, TableOK(ls), NEW c \in Client, NEW r \in Resource,
           Holds(ls, c, r), NEW new, new = LocksAfterRelease(ls, c, r)
    PROVE  \A x, q : HoldsExclusive(ls, x, q) /\ (x # c \/ q # r)
                        => HoldsExclusive(new, x, q)
<1>. SUFFICES ASSUME NEW x, NEW q, HoldsExclusive(ls, x, q), x # c \/ q # r
              PROVE  HoldsExclusive(new, x, q)
    OBVIOUS
<1>1. q # r
    BY LockTypeAssumption DEF TableOK, LockOK, HoldsExclusive, Holds
<1>2. q \in DOMAIN new /\ new[q] = ls[q]
    BY <1>1 DEF LocksAfterRelease, Put, Remove, HoldsExclusive, Holds
<1>. QED
    BY <1>2 DEF HoldsExclusive, Holds

LEMMA AcquireStep ==
    ASSUME IInv, NEW c \in Client, NEW r \in Resource, NEW type \in LockType,
           Acquire(c, r, type)
    PROVE  IInv'
<1>. DEFINE status == AcquireStatus(locks, wait_for_graph, c, r, type)
<1>1. /\ locks' = LocksAfterAcquire(locks, wait_for_graph, c, r, type)
      /\ wait_for_graph' = GraphAfterAcquire(locks, wait_for_graph, c, r, type)
      /\ status = "acquired" => grants' = grants \cup
            {[client_id |-> c, resource_id |-> r, lock_type |-> type,
              upgrade |-> Upgrade(locks, c, r, type)]}
      /\ status # "acquired" => grants' = grants
    BY DEF Acquire
<1>2. /\ TableOK(locks') /\ GraphOK(wait_for_graph', locks')
      /\ \A x, q : Holds(locks, x, q) => Holds(locks', x, q)
      /\ status = "acquired" => Holds(locks', c, r)
    BY <1>1, AcquireKeeps DEF IInv
<1>3. /\ \A x, q : HoldsExclusive(locks, x, q) => HoldsExclusive(locks', x, q)
      /\ status = "acquired" /\ type = Exclusive /\ ~Upgrade(locks, c, r, type)
            => HoldsExclusive(locks', c, r)
    BY <1>1, AcquireMode DEF IInv
<1>4. Upgrade(locks, c, r, type) \in BOOLEAN
    BY DEF Upgrade
<1>. HIDE DEF status
<1>5. GrantsOK(grants', locks')
    BY <1>1, <1>2, <1>3, <1>4 DEF IInv, GrantsOK, Grants
<1>. QED
    BY <1>2, <1>5 DEF IInv

\* A release leaves a good table and a good graph, and the locks of the others.
LEMMA ReleaseKeeps ==
    ASSUME NEW ls, TableOK(ls), NEW g, GraphOK(g, ls),
           NEW c \in Client, NEW r \in Resource, Holds(ls, c, r),
           NEW new, new = LocksAfterRelease(ls, c, r),
           NEW graph, graph = GraphAfterRelease(ls, g, c, r)
    PROVE  /\ TableOK(new) /\ GraphOK(graph, new)
           /\ \A x, q : Holds(ls, x, q) /\ (x # c \/ q # r) => Holds(new, x, q)
<1>. DEFINE l == ls[r]
            n == LockAfterRelease(l, c)
<1>1. /\ r \in DOMAIN ls /\ c \in l.holders
      /\ l \in Lock /\ LockOK(l)
    BY DEF TableOK, Holds
<1>2. /\ n \in Lock
      /\ LockOK(n) \/ Fresh(n)
      /\ ~PassesOn(l, c) => n.holders = l.holders \ {c} /\ n.waiting = l.waiting
    BY <1>1, ReleaseProperties
<1>. HIDE DEF n
<1>3. /\ DOMAIN ls \ {r} \subseteq DOMAIN new
      /\ DOMAIN new \subseteq DOMAIN ls
      /\ \A q \in DOMAIN ls \ {r} : new[q] = ls[q]
      /\ r \in DOMAIN new => LockOK(n) /\ new[r] = n
      /\ n.holders # {} => r \in DOMAIN new
    BY <1>1, <1>2 DEF LocksAfterRelease, Put, Remove, Fresh, n
<1>4. TableOK(new)
    BY <1>2, <1>3 DEF TableOK
<1>5. ASSUME NEW x, NEW h \in l.holders \ {c}
      PROVE  /\ r \in DOMAIN new /\ h \in new[r].holders
             /\ Queued(ls, x, r) => Queued(new, x, r)
    <2>1. ~PassesOn(l, c)
        BY DEF PassesOn
    <2>2. n.holders = l.holders \ {c} /\ n.waiting = l.waiting
        BY <1>2, <2>1
    <2>. QED
        BY <1>3, <2>2 DEF Queued
<1>6. ASSUME NEW x \in Client, NEW h, h # c, EdgeReal(ls, x, h)
      PROVE  EdgeReal(new, x, h)
    <2>1. PICK q \in DOMAIN ls : Queued(ls, x, q) /\ h \in ls[q].holders
        BY <1>6 DEF EdgeReal
    <2>2. CASE q = r
        BY <1>5, <1>6, <2>1, <2>2 DEF EdgeReal
    <2>3. CASE q # r
        BY <1>3, <1>6, <2>1, <2>3 DEF EdgeReal, Queued
    <2>. QED
        BY <2>2, <2>3
<1>7. /\ graph \in Graph
      /\ \A x \in Client : graph[x] \subseteq g[x] \ {c}
    BY <1>1 DEF GraphAfterRelease, RemoveWaits, RemoveHolder, Graph, GraphOK
<1>8. GraphOK(graph, new)
    <2>1. Acyclic(graph)
        BY <1>7, CycleMonotonic DEF Acyclic, GraphOK
    <2>. QED
        BY <1>6, <1>7, <2>1 DEF GraphOK
<1>9. ASSUME NEW x, NEW q, Holds(ls, x, q), x # c \/ q # r
      PROVE  Holds(new, x, q)
    <2>1. CASE q = r
        BY <1>5, <1>9, <2>1 DEF Holds
    <2>2. CASE q # r
        BY <1>3, <1>9, <2>2 DEF Holds
    <2>. QED
        BY <2>1, <2>2
<1>. QED
    BY <1>4, <1>8, <1>9

LEMMA ReleaseStep ==
    ASSUME IInv, NEW c \in Client, NEW r \in Resource, Release(c, r)
    PROVE  IInv'
<1>1. /\ Holds(locks, c, r)
      /\ locks' = LocksAfterRelease(locks, c, r)
      /\ wait_for_graph' = GraphAfterRelease(locks, wait_for_graph, c, r)
      /\ grants' = {x \in grants : x.client_id # c \/ x.resource_id # r}
    BY DEF Release
<1>2. /\ TableOK(locks') /\ GraphOK(wait_for_graph', locks')
      /\ \A x, q : Holds(locks, x, q) /\ (x # c \/ q # r) => Holds(locks', x, q)
    BY <1>1, ReleaseKeeps DEF IInv
<1>3. \A x, q : HoldsExclusive(locks, x, q) /\ (x # c \/ q # r)
                   => HoldsExclusive(locks', x, q)
    BY <1>1, ReleaseMode DEF IInv
<1>4. GrantsOK(grants', locks')
    BY <1>1, <1>2, <1>3 DEF IInv, GrantsOK
<1>. QED
    BY <1>2, <1>4 DEF IInv

LEMMA Inductive == Spec => []IInv
<1>1. Init => IInv
    <2>. SUFFICES ASSUME Init
                  PROVE  IInv
        OBVIOUS
    <2>1. TableOK(locks) /\ GrantsOK(grants, locks)
        BY DEF Init, TableOK, GrantsOK
    <2>2. GraphOK(wait_for_graph, locks)
        BY DEF Init, GraphOK, Graph, Acyclic, HasCycle
    <2>. QED
        BY <2>1, <2>2 DEF IInv
<1>2. IInv /\ [Next]_vars => IInv'
    <2>. SUFFICES ASSUME IInv, [Next]_vars
                  PROVE  IInv'
        OBVIOUS
    <2>1. CASE Next
        BY <2>1, AcquireStep, ReleaseStep DEF Next
    <2>2. CASE UNCHANGED vars
        BY <2>2 DEF vars, IInv
    <2>. QED
        BY <2>1, <2>2
<1>. QED
    BY <1>1, <1>2, PTL DEF Spec

\* The table, the graph and the history of grants keep their types.
THEOREM TypeCorrect == Spec => []TypeOK
<1>1. IInv => TypeOK
    BY DEF IInv, TableOK, GraphOK, GrantsOK, TypeOK
<1>. QED
    BY <1>1, Inductive, PTL

\* However repeated requests, releases and hand-overs follow each other, a lock
\* in exclusive mode has one holder, and who was granted it in that mode has it
\* so until its own release.
THEOREM ExclusiveHasOneHolder == Spec => []WriterAlone
<1>1. IInv => WriterAlone
    BY DEF IInv, TableOK, LockOK, GrantsOK, HoldsExclusive, WriterAlone
<1>. QED
    BY <1>1, Inductive, PTL

\* A queue is never left without a holder whose release will serve it.
THEOREM QueuesAreServed == Spec => []NoLostWakeup
<1>1. IInv => NoLostWakeup
    BY DEF IInv, TableOK, LockOK, NoLostWakeup
<1>. QED
    BY <1>1, Inductive, PTL

\* The request at the head of a queue is one its lock cannot grant yet: no
\* call of _process_waiting was forgotten after the holders changed.
THEOREM HeadsAlwaysConflict == Spec => []HeadConflicts
<1>1. IInv => HeadConflicts
    BY DEF IInv, TableOK, LockOK, HeadConflicts
<1>. QED
    BY <1>1, Inductive, PTL

\* Who was told ACQUIRED is a holder until it releases.
THEOREM GrantsAreHeld == Spec => []GrantsHeld
<1>1. IInv => GrantsHeld
    BY DEF IInv, GrantsOK, GrantsHeld
<1>. QED
    BY <1>1, Inductive, PTL

\* The detector's graph stays acyclic and holds only waits that are real.
THEOREM GraphIsSound == Spec => []WaitsAcyclic
<1>1. IInv => WaitsAcyclic
    BY ZenonT(60) DEF IInv, GraphOK, Acyclic, WaitsAcyclic
<1>. QED
    BY <1>1, Inductive, PTL

\* An edge of the detector's graph leads from a client to a holder of a lock
\* it waits for: no release leaves a wait behind that is over.
THEOREM WaitsAreReal == Spec => []WaitsReal
<1>1. IInv => WaitsReal
    BY WaitsRealIsEdgeReal DEF IInv, GraphOK
<1>. QED
    BY <1>1, Inductive, PTL

\* A request is answered DEADLOCK only when it would close a circle of
\* clients that really wait for each other.
THEOREM DeadlockAnswersAreReal == Spec => []NoFalseDeadlock
<1>1. ASSUME IInv, NEW c \in Client, NEW r \in Resource, NEW type \in LockType,
             AcquireStatus(locks, wait_for_graph, c, r, type) = "deadlock"
      PROVE  HasCycle(AddWait(RealWaits(locks), c, Entry(locks, r, type).holders), c)
    <2>. DEFINE hs == Entry(locks, r, type).holders
                g  == wait_for_graph
                rw == RealWaits(locks)
    <2>1. HasCycle(AddWait(g, c, hs), c)
        BY <1>1 DEF AcquireStatus
    <2>2. g \in Graph /\ \A x \in Client : g[x] \subseteq rw[x]
        BY <1>1, WaitsRealIsEdgeReal DEF IInv, GraphOK, WaitsReal
    <2>3. DOMAIN rw = Client /\ DOMAIN g = Client
        BY <2>2 DEF RealWaits, Graph
    <2>. HIDE DEF hs, g, rw
    <2>4. \A x \in Client : AddWait(g, c, hs)[x] \subseteq AddWait(rw, c, hs)[x]
        BY <2>2, <2>3, ZenonT(60) DEF AddWait
    <2>. QED
        BY <2>1, <2>4, CycleMonotonic DEF hs, g, rw
<1>2. IInv => NoFalseDeadlock
    BY <1>1 DEF NoFalseDeadlock
<1>. QED
    BY <1>2, Inductive, PTL
==============================================================================
