----------------------------- MODULE QueueProofs -----------------------------
(***************************************************************************)
(* Proofs about Ring, MessageStore and Queue, for every set of nodes,      *)
(* points, keys and messages and every bound.                              *)
(***************************************************************************)
EXTENDS Queue, Extrema, FiniteSetTheorems, SequenceTheorems, TLAPS

-----------------------------------------------------------------------------
(* The hash ring: what get_node and get_nodes_for_key find exists and is    *)
(* determined, and a node that leaves the ring moves its own keys only.     *)

\* A remainder is less than the size of the circle.
LEMMA ClockwiseType ==
    ASSUME NEW k \in Key, NEW x \in 0 .. Space - 1
    PROVE  Clockwise(k, x) \in 0 .. Space - 1
<1>1. Hash[k] \in 0 .. Space - 1
    BY HashAssumption
<1>2. x - Hash[k] \in Int
    BY <1>1, SpaceAssumption
<1>. QED
    BY <1>2, SpaceAssumption DEF Clockwise

\* How far it is: the difference, once around the circle if it is negative.
LEMMA ClockwiseValue ==
    ASSUME NEW k \in Key, NEW x \in 0 .. Space - 1
    PROVE  Clockwise(k, x) = IF Hash[k] <= x THEN x - Hash[k] ELSE x - Hash[k] + Space
<1>1. \A a \in Int : 0 <= a /\ a < Space => a % Space = a
    BY SpaceAssumption
<1>2. \A a \in Int : a < 0 /\ 0 < a + Space => a % Space = a + Space
    BY SpaceAssumption
<1>3. Hash[k] \in 0 .. Space - 1
    BY HashAssumption
<1>4. CASE Hash[k] <= x
    BY <1>1, <1>3, <1>4, SpaceAssumption DEF Clockwise
<1>5. CASE ~(Hash[k] <= x)
    BY <1>2, <1>3, <1>5, SpaceAssumption DEF Clockwise
<1>. QED
    BY <1>4, <1>5

\* Two points are not equally far from a key.
LEMMA ClockwiseInjective ==
    ASSUME NEW k \in Key, NEW x \in 0 .. Space - 1, NEW y \in 0 .. Space - 1,
           Clockwise(k, x) = Clockwise(k, y)
    PROVE  x = y
<1>1. Hash[k] \in 0 .. Space - 1
    BY HashAssumption
<1>. QED
    BY <1>1, ClockwiseValue, SpaceAssumption

\* The distance of a node is that of one of its points.
LEMMA DistanceOfPoint ==
    ASSUME NEW k \in Key, NEW n \in Node
    PROVE  /\ Distance[k][n] \in Nat
           /\ \E x \in Points[n] : Distance[k][n] = Clockwise(k, x)
<1>. DEFINE D == {Clockwise(k, x) : x \in Points[n]}
<1>1. Points[n] \subseteq 0 .. Space - 1 /\ Points[n] # {}
    BY PointsAssumption
<1>2. D \subseteq Nat /\ D # {}
    BY <1>1, ClockwiseType
<1>3. \E d \in D : \A e \in D : d <= e
    BY <1>2, MinExists
<1>4. Distance[k][n] = CHOOSE d \in D : \A x \in Points[n] : d <= Clockwise(k, x)
    BY DEF Distance
<1>5. Distance[k][n] \in D
    BY <1>3, <1>4
<1>. QED
    BY <1>2, <1>5

\* Two nodes have no point in common, so they are not equally far.
LEMMA DistancesDiffer ==
    ASSUME NEW k \in Key, NEW n \in Node, NEW p \in Node, n # p
    PROVE  Distance[k][n] # Distance[k][p]
<1>1. PICK x \in Points[n] : Distance[k][n] = Clockwise(k, x)
    BY DistanceOfPoint
<1>2. PICK y \in Points[p] : Distance[k][p] = Clockwise(k, y)
    BY DistanceOfPoint
<1>3. x \in 0 .. Space - 1 /\ y \in 0 .. Space - 1 /\ x # y
    BY PointsAssumption
<1>. QED
    BY <1>1, <1>2, <1>3, ClockwiseInjective

\* A set of nodes has one that comes first.
LEMMA NearestExists ==
    ASSUME NEW k \in Key, NEW S \in SUBSET Node, S # {}
    PROVE  Nearest(k, S) \in S /\ Nearer(k, S, Nearest(k, S)) = {}
<1>. DEFINE D == {Distance[k][n] : n \in S}
<1>1. D \subseteq Nat /\ D # {}
    BY DistanceOfPoint
<1>2. PICK d \in D : \A e \in D : d <= e
    BY <1>1, MinExists
<1>3. PICK n \in S : d = Distance[k][n]
    BY <1>2
<1>4. \A p \in S : ~(Distance[k][p] < Distance[k][n])
  <2>1. \A p \in S : Distance[k][p] \in D
      OBVIOUS
  <2>. HIDE DEF D
  <2>2. \A p \in S : Distance[k][p] \in Nat /\ Distance[k][n] <= Distance[k][p]
      BY <1>1, <1>2, <1>3, <2>1
  <2>. QED
      BY <2>2
<1>5. Nearer(k, S, n) = {}
    BY <1>4 DEF Nearer
<1>. QED
    BY <1>5 DEF Nearest

\* get_node is the only node that comes first.
THEOREM NodeForKeyIsUnique ==
    ASSUME NEW k \in Key, NEW nodes \in SUBSET Node, NEW n \in nodes,
           Nearer(k, nodes, n) = {}
    PROVE  NodeForKey(k, nodes) = n
<1>. DEFINE p == NodeForKey(k, nodes)
<1>1. p \in nodes /\ Nearer(k, nodes, p) = {}
    BY NearestExists DEF NodeForKey
<1>2. ~(Distance[k][n] < Distance[k][p]) /\ ~(Distance[k][p] < Distance[k][n])
    BY <1>1 DEF Nearer
<1>3. Distance[k][n] \in Nat /\ Distance[k][p] \in Nat
    BY <1>1, DistanceOfPoint
<1>. QED
    BY <1>1, <1>2, <1>3, DistancesDiffer

\* "Minimal Redistribution" of report.md: a node that leaves the ring moves its
\* own keys only. Of the nodes a key is placed on the others keep it, and a key
\* that was not placed on it stays where it is.
THEOREM MinimalRedistribution ==
    ASSUME NEW k \in Key, NEW nodes \in SUBSET Node, NEW n \in nodes, NEW count \in Nat
    PROVE  LET before == NodesForKey(k, nodes, count)
               after == NodesForKey(k, nodes \ {n}, count)
           IN  before \ {n} \subseteq after /\ (n \notin before => after = before)
<1>. DEFINE before == NodesForKey(k, nodes, count)
            after == NodesForKey(k, nodes \ {n}, count)
            closer(R, p) == Cardinality(Nearer(k, R, p))
<1>1. \A R \in SUBSET nodes, p \in nodes : IsFiniteSet(Nearer(k, R, p)) /\ closer(R, p) \in Nat
  <2>1. IsFiniteSet(nodes)
      BY NodeAssumption, FS_Subset
  <2>. QED
      BY <2>1, FS_Subset, FS_CardinalityType DEF Nearer
<1>2. \A p \in nodes : closer(nodes \ {n}, p) <= closer(nodes, p)
  <2>1. \A p \in nodes : Nearer(k, nodes \ {n}, p) \subseteq Nearer(k, nodes, p)
      BY DEF Nearer
  <2>. QED
      BY <1>1, <2>1, FS_Subset
<1>3. before \ {n} \subseteq after
    BY <1>1, <1>2 DEF NodesForKey
<1>4. ASSUME n \notin before, NEW p \in after, p \notin before
      PROVE  FALSE
  <2>1. p \in nodes /\ closer(nodes \ {n}, p) < count /\ ~(closer(nodes, p) < count)
      BY <1>4 DEF NodesForKey
  <2>2. n \in Nearer(k, nodes, p)
    <3>1. ASSUME n \notin Nearer(k, nodes, p)
          PROVE  Nearer(k, nodes \ {n}, p) = Nearer(k, nodes, p)
        BY <3>1 DEF Nearer
    <3>. QED
        BY <2>1, <3>1
  <2>3. Nearer(k, nodes, n) \subseteq Nearer(k, nodes \ {n}, p)
    <3>1. \A q \in nodes : Distance[k][q] \in Nat
        BY DistanceOfPoint
    <3>. QED
        BY <2>1, <2>2, <3>1 DEF Nearer
  <2>4. closer(nodes, n) <= closer(nodes \ {n}, p)
      BY <1>1, <2>1, <2>3, FS_Subset
  <2>. QED
      BY <1>1, <1>4, <2>1, <2>4 DEF NodesForKey
<1>. QED
    BY <1>3, <1>4 DEF NodesForKey

-----------------------------------------------------------------------------
(* Picking elements of a sequence *)

\* The number of positions up to i tells i from the others.
LEMMA PositionOfRank ==
    ASSUME NEW I \in SUBSET Nat, IsFiniteSet(I)
    PROVE  /\ Cardinality(I) \in Nat
           /\ \A k \in 1 .. Cardinality(I) : Position(I, k) \in I
           /\ \A i \in I : \E k \in 1 .. Cardinality(I) : Position(I, k) = i
<1>. DEFINE upTo(i) == {j \in I : j <= i}
            rank == [i \in I |-> Cardinality(upTo(i))]
            N == Cardinality(I)
<1>1. \A i \in I : IsFiniteSet(upTo(i)) /\ upTo(i) \subseteq I
    BY FS_Subset
<1>2. \A i \in I : Cardinality(upTo(i)) \in 1 .. N
  <2>1. \A i \in I : Cardinality(upTo(i)) \in Nat /\ Cardinality(upTo(i)) <= N
      BY <1>1, FS_CardinalityType, FS_Subset
  <2>2. \A i \in I : upTo(i) # {}
      OBVIOUS
  <2>3. \A i \in I : Cardinality(upTo(i)) # 0
      BY <1>1, <2>2, FS_EmptySet
  <2>. QED
      BY <2>1, <2>3, FS_CardinalityType
<1>3. N \in Nat
    BY FS_CardinalityType
<1>4. \A i, j \in I : i < j => Cardinality(upTo(i)) # Cardinality(upTo(j))
  <2>1. SUFFICES ASSUME NEW i \in I, NEW j \in I, i < j
                 PROVE  Cardinality(upTo(i)) # Cardinality(upTo(j))
      OBVIOUS
  <2>2. upTo(i) \in SUBSET upTo(j)
    <3>1. \A k \in I : k <= i => k <= j
        BY <2>1
    <3>. QED
        BY <3>1
  <2>3. upTo(i) # upTo(j)
    <3>1. j \in upTo(j) /\ j \notin upTo(i)
        BY <2>1
    <3>. QED
        BY <3>1
  <2>4. IsFiniteSet(upTo(j))
      BY <1>1
  <2>. HIDE DEF upTo
  <2>. QED
      BY <2>2, <2>3, <2>4, FS_Subset
<1>5. \A i, j \in I : Cardinality(upTo(i)) = Cardinality(upTo(j)) => i = j
  <2>. HIDE DEF upTo
  <2>. QED
      BY <1>4
<1>6. rank \in Injection(I, 1 .. N)
  <2>1. rank \in [I -> 1 .. N]
      BY <1>2
  <2>2. \A i, j \in I : rank[i] = rank[j] => i = j
      BY <1>5
  <2>. HIDE DEF rank
  <2>. QED
      BY <2>1, <2>2 DEF Injection, IsInjective
<1>7. rank \in Surjection(I, 1 .. N)
  <2>1. IsFiniteSet(1 .. N) /\ Cardinality(1 .. N) = N
      BY <1>3, FS_Interval
  <2>. QED
      BY <1>6, <2>1, FS_Injection
<1>8. ASSUME NEW k \in 1 .. N
      PROVE  \E i \in I : Cardinality(upTo(i)) = k
    BY <1>7 DEF Surjection
<1>9. \A k \in 1 .. N : Position(I, k) \in I /\ Cardinality(upTo(Position(I, k))) = k
    BY <1>8 DEF Position
<1>10. \A i \in I : Position(I, Cardinality(upTo(i))) = i
    BY <1>2, <1>5, <1>9
<1>. QED
    BY <1>2, <1>3, <1>9, <1>10

\* What is picked are the elements at the positions, every one of them.
LEMMA PickedElements ==
    ASSUME NEW T, NEW s \in Seq(T), NEW I \in SUBSET DOMAIN s
    PROVE  /\ Picked(s, I) \in Seq(T)
           /\ \A k \in DOMAIN Picked(s, I) : Position(I, k) \in I /\ Picked(s, I)[k] = s[Position(I, k)]
           /\ \A i \in I : \E k \in DOMAIN Picked(s, I) : Picked(s, I)[k] = s[i]
<1>1. DOMAIN s = 1 .. Len(s) /\ Len(s) \in Nat /\ \A i \in DOMAIN s : s[i] \in T
    BY ElementOfSeq, LenProperties
<1>2. I \in SUBSET Nat /\ IsFiniteSet(I)
  <2>1. IsFiniteSet(1 .. Len(s))
      BY <1>1, FS_Interval
  <2>. QED
      BY <1>1, <2>1, FS_Subset
<1>3. /\ Cardinality(I) \in Nat
      /\ \A k \in 1 .. Cardinality(I) : Position(I, k) \in I
      /\ \A i \in I : \E k \in 1 .. Cardinality(I) : Position(I, k) = i
    BY <1>2, PositionOfRank
<1>4. DOMAIN Picked(s, I) = 1 .. Cardinality(I)
    BY DEF Picked
<1>5. \A k \in 1 .. Cardinality(I) : Picked(s, I)[k] = s[Position(I, k)]
    BY DEF Picked
<1>6. Picked(s, I) \in Seq(T)
  <2>1. Picked(s, I) \in [1 .. Cardinality(I) -> T]
      BY <1>1, <1>3 DEF Picked
  <2>. QED
      BY <1>3, <2>1
<1>. QED
    BY <1>3, <1>4, <1>5, <1>6

\* All positions pick everything.
LEMMA PickedAll ==
    ASSUME NEW T, NEW s \in Seq(T)
    PROVE  Picked(s, DOMAIN s) = s
<1>1. DOMAIN s = 1 .. Len(s) /\ Len(s) \in Nat
    BY LenProperties
<1>2. Cardinality(DOMAIN s) = Len(s)
    BY <1>1, FS_Interval, SMTT(60)
<1>3. ASSUME NEW k \in 1 .. Len(s)
      PROVE  Position(DOMAIN s, k) = k
  <2>1. \A i \in 1 .. Len(s) : Cardinality({j \in DOMAIN s : j <= i}) = i
    <3>1. \A i \in 1 .. Len(s) : {j \in DOMAIN s : j <= i} = 1 .. i
        BY <1>1
    <3>2. \A i \in 1 .. Len(s) : Cardinality(1 .. i) = i
        BY <1>1, FS_Interval
    <3>. QED
        BY <3>1, <3>2
  <2>2. \E i \in DOMAIN s : Cardinality({j \in DOMAIN s : j <= i}) = k
      BY <1>1, <2>1
  <2>. DEFINE i == Position(DOMAIN s, k)
  <2>3. i \in DOMAIN s /\ Cardinality({j \in DOMAIN s : j <= i}) = k
      BY <2>2 DEF Position
  <2>. QED
      BY <1>1, <2>1, <2>3
<1>4. Picked(s, DOMAIN s) = [k \in 1 .. Len(s) |-> s[k]]
    BY <1>2, <1>3 DEF Picked
<1>. QED
    BY <1>1, <1>4

\* Of two sequences that agree at the positions, one of ids and one of records,
\* ids and records are picked alike.
LEMMA PickedIds ==
    ASSUME NEW s \in Seq(Message), NEW r \in Seq(Saved), NEW I,
           I \subseteq DOMAIN s, I \subseteq DOMAIN r, \A i \in I : s[i] = r[i].id
    PROVE  Picked(s, I) = [k \in DOMAIN Picked(r, I) |-> Picked(r, I)[k].id]
<1>1. \A k \in 1 .. Cardinality(I) : Position(I, k) \in I
    BY PickedElements DEF Picked
<1>. QED
    BY <1>1 DEF Picked

-----------------------------------------------------------------------------
(* The message store and its file *)

\* What is in the queue is known, and what is pending is in the queue.
QueueHolds(s) ==
    /\ \A i \in DOMAIN s.queue : s.messages[s.queue[i]] # "absent"
    /\ \A m \in Message : IsPending(s, m) => \E i \in DOMAIN s.queue : s.queue[i] = m

\* What the file says of a message is so, and it says something of all that is
\* in the queue.
FileHolds(s) ==
    LET records == Records(s.file) IN
    /\ \A i \in DOMAIN records :
           s.messages[records[i].id] = IF records[i].acked THEN "acked" ELSE "pending"
    /\ \A i \in DOMAIN s.queue : \E j \in DOMAIN records : records[j].id = s.queue[i]

\* FileIsCurrent, of one store.
Current(s) ==
    LET unacked == Unacked(s.file) IN Pending(s) = [i \in DOMAIN unacked |-> unacked[i].id]

StoreOK(s) == s \in Store /\ QueueHolds(s) /\ FileHolds(s) /\ Current(s)

\* What the fields of a store are.
LEMMA StoreFields ==
    ASSUME NEW s \in Store
    PROVE  /\ s.messages \in [Message -> Status]
           /\ s.queue \in Seq(Message)
           /\ \A i \in DOMAIN s.queue : s.queue[i] \in Message
           /\ Records(s.file) \in Seq(Saved)
           /\ \A i \in DOMAIN Records(s.file) : Records(s.file)[i] \in Saved
<1>1. s.messages \in [Message -> Status] /\ s.queue \in Seq(Message)
    BY DEF Store
<1>2. Records(s.file) \in Seq(Saved)
    BY EmptySeq DEF Store, Records
<1>. QED
    BY <1>1, <1>2, ElementOfSeq

\* The provers take a formula for a field of a record only by a lemma.
LEMMA RecordFields ==
    \A x, a : \A b \in BOOLEAN :
        x = [id |-> a, acked |-> b] => x.id = a /\ (x.acked <=> b)
OBVIOUS

\* A save makes the file current, whatever it held.
LEMMA SavedIsCurrent ==
    ASSUME NEW s \in Store, QueueHolds(s)
    PROVE  /\ StoreOK(SaveQueue(s))
           /\ SaveQueue(s).messages = s.messages
           /\ SaveQueue(s).queue = s.queue
<1>. DEFINE r == Contents(s)
            t == SaveQueue(s)
<1>1. /\ s.messages \in [Message -> Status] /\ s.queue \in Seq(Message)
      /\ \A i \in DOMAIN s.queue : s.queue[i] \in Message
    BY StoreFields
<1>2. DOMAIN r = DOMAIN s.queue
    BY DEF Contents
<1>3. \A i \in DOMAIN r : r[i].id = s.queue[i] /\ (r[i].acked <=> s.messages[s.queue[i]] = "acked")
  <2>1. SUFFICES ASSUME NEW i \in DOMAIN s.queue
                 PROVE  /\ r[i].id = s.queue[i]
                        /\ r[i].acked <=> s.messages[s.queue[i]] = "acked"
      BY <1>2
  <2>. DEFINE b == s.messages[s.queue[i]] = "acked"
  <2>2. b \in BOOLEAN
      OBVIOUS
  <2>3. r[i] = [id |-> s.queue[i], acked |-> b]
      BY Zenon DEF Contents
  <2>. HIDE DEF b, r
  <2>4. r[i].id = s.queue[i] /\ (r[i].acked <=> b)
      BY <2>2, <2>3, RecordFields
  <2>. QED
      BY <2>4 DEF b
<1>4. r \in Seq(Saved)
  <2>1. DOMAIN s.queue = 1 .. Len(s.queue) /\ Len(s.queue) \in Nat
      BY <1>1, LenProperties
  <2>2. r \in [1 .. Len(s.queue) -> Saved]
      BY <1>1, <2>1 DEF Contents, Saved
  <2>. QED
      BY <2>1, <2>2
<1>5. /\ t \in Store /\ t.messages = s.messages /\ t.queue = s.queue /\ t.file = r
    BY <1>4 DEF SaveQueue, Store
<1>6. Records(t.file) = r
    BY <1>4, <1>5, TornAssumption DEF Records
<1>. HIDE DEF r, t
<1>7. QueueHolds(t)
    BY <1>5 DEF QueueHolds, IsPending
<1>8. FileHolds(t)
  <2>1. \A i \in DOMAIN r : s.messages[r[i].id] = IF r[i].acked THEN "acked" ELSE "pending"
      BY <1>1, <1>2, <1>3 DEF QueueHolds, Status
  <2>2. \A i \in DOMAIN s.queue : r[i].id = s.queue[i]
      BY <1>2, <1>3
  <2>. QED
      BY <1>2, <1>5, <1>6, <2>1, <2>2 DEF FileHolds
<1>9. Current(t)
  <2>. DEFINE I == {i \in DOMAIN s.queue : IsPending(s, s.queue[i])}
  <2>1. I = {i \in DOMAIN r : ~r[i].acked}
      BY <1>1, <1>2, <1>3 DEF QueueHolds, Status, IsPending
  <2>2. Unacked(t.file) = Picked(r, I)
      BY <1>6, <2>1 DEF Unacked
  <2>3. Pending(t) = Picked(s.queue, I)
      BY <1>5 DEF Pending, IsPending
  <2>4. I \subseteq DOMAIN s.queue /\ I \subseteq DOMAIN r /\ \A i \in I : s.queue[i] = r[i].id
      BY <1>2, <1>3
  <2>. HIDE DEF I
  <2>5. Picked(s.queue, I) = [k \in DOMAIN Picked(r, I) |-> Picked(r, I)[k].id]
      BY <1>1, <1>4, <2>4, PickedIds
  <2>. QED
      BY <2>2, <2>3, <2>5 DEF Current
<1>. QED
    BY <1>5, <1>7, <1>8, <1>9 DEF StoreOK, t

\* add: the message is pending, and nothing else changes.
LEMMA AddHolds ==
    ASSUME NEW s \in Store, QueueHolds(s), NEW m \in Message
    PROVE  /\ StoreOK(Add(s, m))
           /\ \A x \in Message : IsPending(Add(s, m), x) <=> x = m \/ IsPending(s, x)
           /\ \A x \in Message \ {m} : Add(s, m).messages[x] = s.messages[x]
<1>. DEFINE t == [s EXCEPT !.messages[m] = "pending", !.queue = Append(@, m)]
<1>1. /\ s.messages \in [Message -> Status] /\ s.queue \in Seq(Message)
      /\ \A i \in DOMAIN s.queue : s.queue[i] \in Message
    BY StoreFields
<1>2. /\ Append(s.queue, m) \in Seq(Message)
      /\ DOMAIN Append(s.queue, m) = 1 .. Len(s.queue) + 1
      /\ DOMAIN s.queue = 1 .. Len(s.queue) /\ Len(s.queue) \in Nat
      /\ \A i \in DOMAIN s.queue : Append(s.queue, m)[i] = s.queue[i]
      /\ Append(s.queue, m)[Len(s.queue) + 1] = m
    BY <1>1, AppendProperties, LenProperties
<1>3. /\ t \in Store
      /\ t.messages = [s.messages EXCEPT ![m] = "pending"] /\ t.queue = Append(s.queue, m)
    BY <1>1, <1>2 DEF Store, Status
<1>. HIDE DEF t
<1>4. \A x \in Message : t.messages[x] = IF x = m THEN "pending" ELSE s.messages[x]
    BY <1>1, <1>3
<1>5. \A i \in DOMAIN t.queue : t.messages[t.queue[i]] # "absent"
  <2>1. \A i \in DOMAIN s.queue : t.messages[s.queue[i]] # "absent"
      BY <1>1, <1>4 DEF QueueHolds
  <2>2. t.messages[m] # "absent"
      BY <1>4
  <2>3. \A i \in DOMAIN t.queue : i \in DOMAIN s.queue \/ i = Len(s.queue) + 1
      BY <1>2, <1>3
  <2>. QED
      BY <1>2, <1>3, <2>1, <2>2, <2>3
<1>6. \A x \in Message : IsPending(t, x) => \E i \in DOMAIN t.queue : t.queue[i] = x
  <2>1. SUFFICES ASSUME NEW x \in Message, IsPending(t, x)
                 PROVE  \E i \in DOMAIN t.queue : t.queue[i] = x
      OBVIOUS
  <2>2. CASE x = m
    <3>1. Len(s.queue) + 1 \in DOMAIN t.queue
        BY <1>2, <1>3
    <3>. QED
        BY <1>2, <1>3, <2>2, <3>1
  <2>3. CASE x # m
    <3>1. PICK i \in DOMAIN s.queue : s.queue[i] = x
        BY <1>4, <2>1, <2>3 DEF IsPending, QueueHolds
    <3>2. i \in DOMAIN t.queue
        BY <1>2, <1>3
    <3>. QED
        BY <1>2, <1>3, <3>1, <3>2
  <2>. QED
      BY <2>2, <2>3
<1>7. QueueHolds(t)
    BY <1>5, <1>6 DEF QueueHolds
<1>8. Add(s, m) = SaveQueue(t)
    BY DEF Add, t
<1>9. StoreOK(SaveQueue(t)) /\ SaveQueue(t).messages = t.messages
    BY <1>3, <1>7, SavedIsCurrent
<1>. QED
    BY <1>4, <1>8, <1>9 DEF IsPending

\* ack: the message is not pending, and no other changes; nothing comes to be
\* known that was not.
LEMMA AckHolds ==
    ASSUME NEW s, StoreOK(s), NEW m \in Message
    PROVE  /\ StoreOK(AckMessage(s, m))
           /\ \A x \in Message : IsPending(AckMessage(s, m), x) <=> x # m /\ IsPending(s, x)
           /\ \A x \in Message \ {m} : AckMessage(s, m).messages[x] = s.messages[x]
           /\ AckMessage(s, m).messages[m] = IF s.messages[m] = "absent" THEN "absent" ELSE "acked"
<1>. DEFINE t == [s EXCEPT !.messages[m] = "acked"]
<1>1. CASE s.messages[m] = "absent"
    BY <1>1 DEF AckMessage, IsPending
<1>2. CASE s.messages[m] # "absent"
  <2>1. s \in Store /\ QueueHolds(s)
      BY DEF StoreOK
  <2>2. /\ s.messages \in [Message -> Status]
        /\ \A i \in DOMAIN s.queue : s.queue[i] \in Message
      BY <2>1, StoreFields
  <2>3. t \in Store /\ t.messages = [s.messages EXCEPT ![m] = "acked"] /\ t.queue = s.queue
      BY <2>1, <2>2 DEF Store, Status
  <2>4. AckMessage(s, m) = SaveQueue(t)
      BY <1>2 DEF AckMessage
  <2>. HIDE DEF t
  <2>5. \A x \in Message : t.messages[x] = IF x = m THEN "acked" ELSE s.messages[x]
      BY <2>2, <2>3
  <2>6. QueueHolds(t)
      BY <2>1, <2>2, <2>3, <2>5 DEF QueueHolds, IsPending
  <2>7. StoreOK(SaveQueue(t)) /\ SaveQueue(t).messages = t.messages
      BY <2>3, <2>6, SavedIsCurrent
  <2>. QED
      BY <1>2, <2>4, <2>5, <2>7 DEF IsPending
<1>. QED
    BY <1>1, <1>2

\* nack saves what is there.
LEMMA NackHolds ==
    ASSUME NEW s, StoreOK(s), NEW m \in Message
    PROVE  StoreOK(Nack(s, m)) /\ Nack(s, m).messages = s.messages
<1>1. s \in Store /\ QueueHolds(s)
    BY DEF StoreOK
<1>. QED
    BY <1>1, SavedIsCurrent DEF Nack

\* Two records of a file for one message agree.
Agrees(file) ==
    LET records == Records(file) IN
    \A i, j \in DOMAIN records :
        records[i].id = records[j].id => (records[i].acked <=> records[j].acked)

\* _load of a file that agrees with itself: a message is known if it has a
\* record, and pending or acknowledged as its records say.
LEMMA LoadHolds ==
    ASSUME NEW file \in Seq(Saved) \cup {Torn}, Agrees(file)
    PROVE  LET t == Load(file) IN
           /\ StoreOK(t)
           /\ \A i \in DOMAIN Records(file) :
                  t.messages[Records(file)[i].id] =
                      IF Records(file)[i].acked THEN "acked" ELSE "pending"
           /\ \A m \in Message :
                  (\A i \in DOMAIN Records(file) : Records(file)[i].id # m) => t.messages[m] = "absent"
<1>. DEFINE r == Records(file)
            t == Load(file)
            I == {i \in DOMAIN r : ~r[i].acked}
            u == Unacked(file)
            last(m) == CHOOSE i \in DOMAIN r : r[i].id = m /\ \A j \in DOMAIN r : r[j].id = m => j <= i
<1>1. r \in Seq(Saved)
    BY EmptySeq DEF Records
<1>2. /\ \A i \in DOMAIN r : r[i] \in Saved
      /\ DOMAIN r = 1 .. Len(r) /\ Len(r) \in Nat
    BY <1>1, ElementOfSeq, LenProperties
<1>3. \A i \in DOMAIN r : r[i].id \in Message /\ r[i].acked \in BOOLEAN
    BY <1>2 DEF Saved
<1>4. u = Picked(r, I)
    BY DEF Unacked
<1>5. /\ t.file = file
      /\ t.queue = [i \in DOMAIN u |-> u[i].id]
      /\ t.messages = [m \in Message |->
             IF \A i \in DOMAIN r : r[i].id # m THEN "absent"
             ELSE IF r[last(m)].acked THEN "acked" ELSE "pending"]
    BY DEF Load
<1>. HIDE DEF r, t, u, last
<1>6. ASSUME NEW m \in Message, \E i \in DOMAIN r : r[i].id = m
      PROVE  last(m) \in DOMAIN r /\ r[last(m)].id = m
  <2>. DEFINE S == {i \in DOMAIN r : r[i].id = m}
  <2>1. S \subseteq Nat /\ S # {} /\ \A i \in S : i <= Len(r)
      BY <1>2, <1>6
  <2>2. \E i \in S : \A j \in S : j <= i
      BY <1>2, <2>1, MaxExists
  <2>3. \E i \in DOMAIN r : r[i].id = m /\ \A j \in DOMAIN r : r[j].id = m => j <= i
      BY <2>2
  <2>. QED
      BY <2>3 DEF last
<1>7. \A m \in Message : (\A i \in DOMAIN r : r[i].id # m) => t.messages[m] = "absent"
    BY <1>5
<1>8. \A i \in DOMAIN r : t.messages[r[i].id] = IF r[i].acked THEN "acked" ELSE "pending"
  <2>1. SUFFICES ASSUME NEW i \in DOMAIN r
                 PROVE  t.messages[r[i].id] = IF r[i].acked THEN "acked" ELSE "pending"
      OBVIOUS
  <2>. DEFINE j == last(r[i].id)
  <2>2. j \in DOMAIN r /\ r[j].id = r[i].id
      BY <1>3, <1>6
  <2>3. r[j].acked <=> r[i].acked
      BY <2>2 DEF Agrees, r
  <2>4. t.messages[r[i].id] = IF r[j].acked THEN "acked" ELSE "pending"
      BY <1>3, <1>5
  <2>. HIDE DEF j
  <2>. QED
      BY <2>3, <2>4
<1>9. t.messages \in [Message -> Status]
    BY <1>5 DEF Status
<1>10. /\ u \in Seq(Saved)
       /\ \A k \in DOMAIN u : Position(I, k) \in I /\ u[k] = r[Position(I, k)]
       /\ \A i \in I : \E k \in DOMAIN u : u[k] = r[i]
  <2>1. I \in SUBSET DOMAIN r
      OBVIOUS
  <2>. HIDE DEF I
  <2>. QED
      BY <1>1, <1>4, <2>1, PickedElements
<1>11. t.queue \in Seq(Message) /\ DOMAIN t.queue = DOMAIN u
  <2>1. DOMAIN u = 1 .. Len(u) /\ Len(u) \in Nat /\ \A k \in DOMAIN u : u[k] \in Saved
      BY <1>10, ElementOfSeq, LenProperties
  <2>2. \A k \in DOMAIN u : u[k].id \in Message
      BY <2>1 DEF Saved
  <2>3. t.queue \in [1 .. Len(u) -> Message]
      BY <1>5, <2>1, <2>2
  <2>. QED
      BY <1>5, <2>1, <2>3
<1>12. \A k \in DOMAIN t.queue : \E i \in DOMAIN r : r[i].id = t.queue[k] /\ ~r[i].acked
  <2>1. SUFFICES ASSUME NEW k \in DOMAIN u
                 PROVE  \E i \in DOMAIN r : r[i].id = t.queue[k] /\ ~r[i].acked
      BY <1>11
  <2>. DEFINE i == Position(I, k)
  <2>2. i \in DOMAIN r /\ ~r[i].acked /\ u[k] = r[i]
      BY <1>10
  <2>3. t.queue[k] = u[k].id
      BY <1>5
  <2>. HIDE DEF i
  <2>. QED
      BY <2>2, <2>3
<1>13. \A k \in DOMAIN t.queue : t.messages[t.queue[k]] = "pending"
    BY <1>8, <1>12
<1>14. t \in Store
    BY <1>5, <1>9, <1>11 DEF Store, Load, t
<1>15. QueueHolds(t)
  <2>1. \A m \in Message : IsPending(t, m) => \E k \in DOMAIN t.queue : t.queue[k] = m
    <3>1. SUFFICES ASSUME NEW m \in Message, IsPending(t, m)
                   PROVE  \E k \in DOMAIN t.queue : t.queue[k] = m
        OBVIOUS
    <3>2. PICK i \in DOMAIN r : r[i].id = m
        BY <1>7, <3>1 DEF IsPending
    <3>3. ~r[i].acked
        BY <1>8, <3>1, <3>2 DEF IsPending
    <3>4. PICK k \in DOMAIN u : u[k] = r[i]
        BY <1>10, <3>3
    <3>. QED
        BY <1>5, <1>11, <3>2, <3>4
  <2>. QED
      BY <1>13, <2>1 DEF QueueHolds
<1>16. Records(t.file) = r
    BY <1>5 DEF r
<1>17. FileHolds(t)
    BY <1>8, <1>12, <1>16 DEF FileHolds
<1>18. Current(t)
  <2>1. {k \in DOMAIN t.queue : IsPending(t, t.queue[k])} = DOMAIN t.queue
      BY <1>13 DEF IsPending
  <2>2. Pending(t) = t.queue
      BY <1>11, <2>1, PickedAll DEF Pending
  <2>3. Unacked(t.file) = u
      BY <1>5 DEF u
  <2>. QED
      BY <1>5, <2>2, <2>3 DEF Current
<1>. QED
    BY <1>7, <1>8, <1>14, <1>15, <1>17, <1>18 DEF StoreOK, t, r

\* A new store, and a store after a crash in a save, hold nothing.
LEMMA EmptyStoreHolds ==
    StoreOK(EmptyStore) /\ \A m \in Message : ~IsPending(EmptyStore, m)
<1>. DEFINE s == EmptyStore
<1>1. s.messages = [m \in Message |-> "absent"] /\ s.queue = <<>> /\ s.file = <<>>
    BY DEF EmptyStore
<1>2. <<>> \in Seq(Message) /\ <<>> \in Seq(Saved) /\ DOMAIN <<>> = {}
    BY EmptySeq
<1>3. s \in Store
    BY <1>2 DEF EmptyStore, Store, Status
<1>4. Records(s.file) = <<>>
    BY <1>1 DEF Records
<1>5. QueueHolds(s) /\ FileHolds(s)
    BY <1>1, <1>2, <1>4 DEF QueueHolds, FileHolds, IsPending
<1>6. Current(s)
  <2>1. Picked(<<>>, DOMAIN <<>>) = <<>>
      BY <1>2, PickedAll
  <2>2. \A I : I \subseteq DOMAIN <<>> => I = DOMAIN <<>>
      BY <1>2
  <2>3. Pending(s) = <<>>
      BY <1>1, <2>1, <2>2 DEF Pending
  <2>4. Unacked(s.file) = <<>>
      BY <1>1, <1>4, <2>1, <2>2 DEF Unacked
  <2>. QED
      BY <1>2, <2>3, <2>4 DEF Current
<1>. QED
    BY <1>1, <1>3, <1>5, <1>6 DEF StoreOK, IsPending

LEMMA LoadTorn ==
    StoreOK(Load(Torn)) /\ \A m \in Message : ~IsPending(Load(Torn), m)
<1>1. Records(Torn) = <<>> /\ DOMAIN <<>> = {}
    BY EmptySeq DEF Records
<1>2. Agrees(Torn)
    BY <1>1 DEF Agrees
<1>. QED
    BY <1>1, <1>2, LoadHolds DEF IsPending

\* A restart from the file of a store loses nothing that was pending there, and
\* nothing of an acknowledgment that is in the queue.
LEMMA LoadOwnFile ==
    ASSUME NEW s, StoreOK(s)
    PROVE  LET t == Load(s.file) IN
           /\ StoreOK(t)
           /\ \A m \in Message : IsPending(t, m) <=> IsPending(s, m)
           /\ \A i \in DOMAIN s.queue : t.messages[s.queue[i]] = s.messages[s.queue[i]]
<1>. DEFINE r == Records(s.file)
            t == Load(s.file)
<1>1. s \in Store /\ QueueHolds(s) /\ FileHolds(s)
    BY DEF StoreOK
<1>2. /\ s.file \in Seq(Saved) \cup {Torn}
      /\ \A i \in DOMAIN r : r[i] \in Saved
      /\ \A i \in DOMAIN s.queue : s.queue[i] \in Message
    BY <1>1, StoreFields DEF Store
<1>3. \A i \in DOMAIN r : r[i].id \in Message /\ r[i].acked \in BOOLEAN
    BY <1>2 DEF Saved
<1>4. \A i \in DOMAIN r : s.messages[r[i].id] = IF r[i].acked THEN "acked" ELSE "pending"
    BY <1>1 DEF FileHolds
<1>5. Agrees(s.file)
    BY <1>3, <1>4 DEF Agrees
<1>6. /\ StoreOK(t)
      /\ \A i \in DOMAIN r : t.messages[r[i].id] = IF r[i].acked THEN "acked" ELSE "pending"
      /\ \A m \in Message : (\A i \in DOMAIN r : r[i].id # m) => t.messages[m] = "absent"
    BY <1>2, <1>5, LoadHolds
<1>. HIDE DEF r, t
<1>7. \A i \in DOMAIN r : t.messages[r[i].id] = s.messages[r[i].id]
    BY <1>4, <1>6
<1>8. \A i \in DOMAIN s.queue : \E j \in DOMAIN r : r[j].id = s.queue[i]
    BY <1>1 DEF FileHolds, r
<1>9. \A i \in DOMAIN s.queue : t.messages[s.queue[i]] = s.messages[s.queue[i]]
    BY <1>7, <1>8
<1>10. ASSUME NEW m \in Message
       PROVE  IsPending(t, m) <=> IsPending(s, m)
  <2>1. CASE \E j \in DOMAIN r : r[j].id = m
      BY <1>7, <2>1 DEF IsPending
  <2>2. CASE \A j \in DOMAIN r : r[j].id # m
    <3>1. t.messages[m] = "absent"
        BY <1>6, <2>2
    <3>2. \A i \in DOMAIN s.queue : s.queue[i] # m
        BY <1>8, <2>2
    <3>3. ~IsPending(s, m)
        BY <1>1, <3>2 DEF QueueHolds
    <3>. QED
        BY <3>1, <3>3 DEF IsPending
  <2>. QED
      BY <2>1, <2>2
<1>. QED
    BY <1>6, <1>9, <1>10 DEF t

-----------------------------------------------------------------------------
(* What the steps of the queue do to the stores *)

Waiting(s) == {m \in Message : IsPending(s, m)}

\* The stores hold what they must, and what was acknowledged at a node is known
\* there as acknowledged.
StoresHold ==
    /\ store \in [Node -> Store]
    /\ acked \in [Node -> SUBSET Message]
    /\ \A n \in Node : StoreOK(store[n])
    /\ \A n \in Node, m \in Message : m \in acked[n] => store[n].messages[m] = "acked"

Promise == [Durable!Next]_(Durable!vars)

\* A step that leaves the stores alone.
LEMMA StoresUnchanged ==
    ASSUME StoresHold, UNCHANGED <<store, acked>>
    PROVE  StoresHold' /\ Promise
BY DEF StoresHold, Promise, Durable!vars

\* A step that changes one store.
LEMMA OneStore ==
    ASSUME StoresHold, NEW n \in Node, NEW s, StoreOK(s), NEW A \in SUBSET Message,
           \A m \in A : s.messages[m] = "acked",
           store' = [store EXCEPT ![n] = s],
           acked' = [acked EXCEPT ![n] = A]
    PROVE  /\ StoresHold'
           /\ [p \in Node |-> {m \in Message : IsPending(store'[p], m)}] =
                 [[p \in Node |-> {m \in Message : IsPending(store[p], m)}]
                     EXCEPT ![n] = Waiting(s)]
<1>1. s \in Store
    BY DEF StoreOK
<1>2. \A p \in Node : store'[p] = (IF p = n THEN s ELSE store[p])
                      /\ acked'[p] = (IF p = n THEN A ELSE acked[p])
    BY DEF StoresHold
<1>3. StoresHold'
    BY <1>1, <1>2 DEF StoresHold
<1>4. \A p \in Node : {m \in Message : IsPending(store'[p], m)} =
                      IF p = n THEN Waiting(s) ELSE {m \in Message : IsPending(store[p], m)}
    BY <1>2 DEF Waiting
<1>. QED
    BY <1>3, <1>4

\* A handler is a step of the copies' promise: a publish is stored where the
\* message is not known, an ack is of a copy that waits, or changes nothing.
LEMMA HandleHolds ==
    ASSUME StoresHold, NEW op \in {"publish", "ack", "consume"}, NEW n \in Node, NEW m,
           op # "consume" => m \in Message,
           Handle(op, n, m)
    PROVE  StoresHold' /\ Promise
<1>1. StoreOK(store[n]) /\ store[n] \in Store /\ acked[n] \in SUBSET Message
    BY DEF StoresHold
<1>2. CASE op = "consume"
    BY <1>2, StoresUnchanged DEF Handle
<1>3. CASE op = "publish"
  <2>1. m \in Message
      BY <1>3
  <2>2. store' = [store EXCEPT ![n] = PublishHere(store[n], m)] /\ acked' = acked
      BY <1>3 DEF Handle
  <2>3. acked' = [acked EXCEPT ![n] = acked[n]]
      BY <2>2 DEF StoresHold
  <2>4. CASE store[n].messages[m] # "absent"
    <3>1. store' = store
        BY <2>2, <2>4 DEF PublishHere, StoresHold
    <3>. QED
        BY <2>2, <3>1, StoresUnchanged
  <2>5. CASE store[n].messages[m] = "absent"
    <3>. DEFINE s == Add(store[n], m)
    <3>1. store' = [store EXCEPT ![n] = s]
        BY <2>2, <2>5 DEF PublishHere
    <3>2. /\ StoreOK(s)
          /\ \A x \in Message : IsPending(s, x) <=> x = m \/ IsPending(store[n], x)
          /\ \A x \in Message \ {m} : s.messages[x] = store[n].messages[x]
        BY <1>1, <2>1, AddHolds DEF StoreOK
    <3>3. m \notin acked[n]
        BY <2>1, <2>5 DEF StoresHold
    <3>4. \A x \in acked[n] : s.messages[x] = "acked"
        BY <1>1, <3>2, <3>3 DEF StoresHold
    <3>5. Waiting(s) = {x \in Message : IsPending(store[n], x)} \cup {m}
        BY <2>1, <3>2 DEF Waiting
    <3>. HIDE DEF s
    <3>6. Durable!Replicate(n, m) /\ StoresHold'
      <4>1. StoresHold'
            /\ [p \in Node |-> {x \in Message : IsPending(store'[p], x)}] =
                 [[p \in Node |-> {x \in Message : IsPending(store[p], x)}]
                     EXCEPT ![n] = Waiting(s)]
          BY <1>1, <2>3, <3>1, <3>2, <3>4, OneStore
      <4>. QED
          BY <2>2, <3>3, <3>5, <4>1 DEF Durable!Replicate
    <3>. QED
        BY <2>1, <3>6 DEF Promise, Durable!Next
  <2>. QED
      BY <2>4, <2>5
<1>4. CASE op = "ack"
  <2>. DEFINE s == AckMessage(store[n], m)
  <2>1. m \in Message
      BY <1>4
  <2>2. /\ store' = [store EXCEPT ![n] = s]
        /\ acked' = IF IsPending(store[n], m) THEN [acked EXCEPT ![n] = @ \cup {m}] ELSE acked
      BY <1>4 DEF Handle
  <2>3. /\ StoreOK(s)
        /\ \A x \in Message : IsPending(s, x) <=> x # m /\ IsPending(store[n], x)
        /\ \A x \in Message \ {m} : s.messages[x] = store[n].messages[x]
        /\ s.messages[m] = IF store[n].messages[m] = "absent" THEN "absent" ELSE "acked"
      BY <1>1, <2>1, AckHolds
  <2>. HIDE DEF s
  <2>4. CASE IsPending(store[n], m)
    <3>. DEFINE A == acked[n] \cup {m}
    <3>1. acked' = [acked EXCEPT ![n] = A] /\ A \in SUBSET Message
        BY <1>1, <2>1, <2>2, <2>4
    <3>2. \A x \in A : s.messages[x] = "acked"
        BY <1>1, <2>3, <2>4 DEF StoresHold, IsPending
    <3>3. Waiting(s) = {x \in Message : IsPending(store[n], x)} \ {m}
        BY <2>1, <2>3 DEF Waiting
    <3>4. Durable!Settle(n, m) /\ StoresHold'
      <4>. HIDE DEF A
      <4>1. StoresHold'
            /\ [p \in Node |-> {x \in Message : IsPending(store'[p], x)}] =
                 [[p \in Node |-> {x \in Message : IsPending(store[p], x)}]
                     EXCEPT ![n] = Waiting(s)]
          BY <1>1, <2>2, <2>3, <3>1, <3>2, OneStore
      <4>2. m \in {x \in Message : IsPending(store[n], x)}
          BY <2>1, <2>4
      <4>. QED
          BY <2>2, <2>4, <3>3, <4>1, <4>2 DEF Durable!Settle
    <3>. QED
        BY <2>1, <3>4 DEF Promise, Durable!Next
  <2>5. CASE ~IsPending(store[n], m)
    <3>1. acked' = [acked EXCEPT ![n] = acked[n]]
        BY <2>2, <2>5 DEF StoresHold
    <3>2. \A x \in acked[n] : s.messages[x] = "acked"
        BY <1>1, <2>3 DEF StoresHold
    <3>3. Waiting(s) = {x \in Message : IsPending(store[n], x)}
        BY <2>1, <2>3, <2>5 DEF Waiting
    <3>4. StoresHold'
          /\ [p \in Node |-> {x \in Message : IsPending(store'[p], x)}] =
               [[p \in Node |-> {x \in Message : IsPending(store[p], x)}]
                   EXCEPT ![n] = Waiting(s)]
        BY <1>1, <2>2, <2>3, <3>1, <3>2, OneStore
    <3>5. UNCHANGED Durable!vars
        BY <2>2, <2>5, <3>3, <3>4 DEF Durable!vars
    <3>. QED
        BY <3>4, <3>5 DEF Promise
  <2>. QED
      BY <2>4, <2>5
<1>. QED
    BY <1>2, <1>3, <1>4

\* publish, of the node that is asked itself.
LEMMA PublishHolds ==
    ASSUME StoresHold, NEW n \in Node, NEW m \in Message,
           store' = [store EXCEPT ![n] = Add(@, m)],
           acked' = [acked EXCEPT ![n] = @ \ {m}]
    PROVE  StoresHold' /\ Promise
<1>. DEFINE s == Add(store[n], m)
            A == acked[n] \ {m}
<1>1. store[n] \in Store /\ QueueHolds(store[n]) /\ acked[n] \in SUBSET Message
    BY DEF StoresHold, StoreOK
<1>2. /\ StoreOK(s)
      /\ \A x \in Message : IsPending(s, x) <=> x = m \/ IsPending(store[n], x)
      /\ \A x \in Message \ {m} : s.messages[x] = store[n].messages[x]
    BY <1>1, AddHolds
<1>3. \A x \in A : s.messages[x] = "acked"
    BY <1>1, <1>2 DEF StoresHold
<1>4. Waiting(s) = {x \in Message : IsPending(store[n], x)} \cup {m}
    BY <1>2 DEF Waiting
<1>5. store' = [store EXCEPT ![n] = s] /\ acked' = [acked EXCEPT ![n] = A] /\ A \in SUBSET Message
    BY <1>1
<1>. HIDE DEF s
<1>6. StoresHold'
      /\ [p \in Node |-> {x \in Message : IsPending(store'[p], x)}] =
           [[p \in Node |-> {x \in Message : IsPending(store[p], x)}]
               EXCEPT ![n] = Waiting(s)]
  <2>. HIDE DEF A
  <2>. QED
      BY <1>2, <1>3, <1>5, OneStore
<1>7. Durable!Publish(n, m)
    BY <1>4, <1>6 DEF Durable!Publish
<1>. QED
    BY <1>6, <1>7 DEF Promise, Durable!Next

\* nack
LEMMA RedeliveryHolds ==
    ASSUME StoresHold, NEW n \in Node, NEW m \in Message,
           store' = [store EXCEPT ![n] = Nack(@, m)], acked' = acked
    PROVE  StoresHold' /\ Promise
<1>. DEFINE s == Nack(store[n], m)
<1>1. StoreOK(store[n]) /\ acked[n] \in SUBSET Message
    BY DEF StoresHold
<1>2. StoreOK(s) /\ s.messages = store[n].messages
    BY <1>1, NackHolds
<1>3. store' = [store EXCEPT ![n] = s] /\ acked' = [acked EXCEPT ![n] = acked[n]]
    BY DEF StoresHold
<1>. HIDE DEF s
<1>4. \A x \in acked[n] : s.messages[x] = "acked"
    BY <1>1, <1>2 DEF StoresHold
<1>5. Waiting(s) = {x \in Message : IsPending(store[n], x)}
    BY <1>2 DEF Waiting, IsPending
<1>6. StoresHold'
      /\ [p \in Node |-> {x \in Message : IsPending(store'[p], x)}] =
           [[p \in Node |-> {x \in Message : IsPending(store[p], x)}]
               EXCEPT ![n] = Waiting(s)]
    BY <1>1, <1>2, <1>3, <1>4, OneStore, ZenonT(60)
<1>7. UNCHANGED Durable!vars
    BY <1>5, <1>6 DEF Durable!vars
<1>. QED
    BY <1>6, <1>7 DEF Promise

\* A restart forgets at most what was acknowledged before the process began.
LEMMA RestartHolds ==
    ASSUME StoresHold, NEW n \in Node, Restart(n)
    PROVE  StoresHold' /\ Promise
<1>. DEFINE s == Load(store[n].file)
            A == acked[n] \cap Range(store[n].queue)
<1>1. StoreOK(store[n]) /\ store[n] \in Store /\ acked[n] \in SUBSET Message
    BY DEF StoresHold
<1>2. /\ StoreOK(s)
      /\ \A m \in Message : IsPending(s, m) <=> IsPending(store[n], m)
      /\ \A i \in DOMAIN store[n].queue :
             s.messages[store[n].queue[i]] = store[n].messages[store[n].queue[i]]
    BY <1>1, LoadOwnFile
<1>3. /\ store' = [store EXCEPT ![n] = s] /\ acked' = [acked EXCEPT ![n] = A]
      /\ A \in SUBSET acked[n] /\ A \in SUBSET Message
    BY <1>1 DEF Restart, Reboot
<1>4. \A x \in A : s.messages[x] = "acked"
  <2>1. SUFFICES ASSUME NEW x \in A
                 PROVE  s.messages[x] = "acked"
      OBVIOUS
  <2>2. PICK i \in DOMAIN store[n].queue : store[n].queue[i] = x
      BY DEF Range
  <2>3. store[n].messages[x] = "acked"
      BY <1>1 DEF StoresHold
  <2>. QED
      BY <1>2, <2>2, <2>3
<1>. HIDE DEF s, A
<1>5. Waiting(s) = {x \in Message : IsPending(store[n], x)}
    BY <1>2 DEF Waiting
<1>6. StoresHold'
      /\ [p \in Node |-> {x \in Message : IsPending(store'[p], x)}] =
           [[p \in Node |-> {x \in Message : IsPending(store[p], x)}]
               EXCEPT ![n] = Waiting(s)]
    BY <1>2, <1>3, <1>4, OneStore
<1>7. Durable!Forget(n)
    BY <1>3, <1>5, <1>6 DEF Durable!Forget
<1>. QED
    BY <1>6, <1>7 DEF Promise, Durable!Next

\* A crash in a save leaves nothing.
LEMMA CrashHolds ==
    ASSUME StoresHold, NEW n \in Node, CrashInSave(n)
    PROVE  StoresHold' /\ Promise
<1>. DEFINE s == Load(Torn)
<1>1. StoreOK(s) /\ Waiting(s) = {}
    BY LoadTorn DEF Waiting
<1>2. store' = [store EXCEPT ![n] = s] /\ acked' = [acked EXCEPT ![n] = {}]
    BY DEF CrashInSave, Reboot
<1>. HIDE DEF s
<1>3. StoresHold'
      /\ [p \in Node |-> {x \in Message : IsPending(store'[p], x)}] =
           [[p \in Node |-> {x \in Message : IsPending(store[p], x)}]
               EXCEPT ![n] = Waiting(s)]
    BY <1>1, <1>2, OneStore
<1>4. Durable!Lose(n)
    BY <1>1, <1>2, <1>3 DEF Durable!Lose
<1>. QED
    BY <1>3, <1>4 DEF Promise, Durable!Next

-----------------------------------------------------------------------------
(* What the rest of the state is *)

\* A call has somebody to send to, and unless it is a consume it is about a
\* message.
CallsHold ==
    /\ calls \in [Call -> CallRecord \cup {NoCall}]
    /\ \A i \in Call : calls[i] # NoCall =>
           /\ calls[i].todo # {}
           /\ calls[i].op # "consume" => calls[i].id \in Message

LateHold ==
    /\ late \subseteq Request
    /\ \A r \in late : r.op # "consume" => r.id \in Message

LoopHold ==
    /\ loop \in [Node -> LoopRecord]
    /\ \A n \in Node :
          /\ (loop[n].stage = "idle") = (loop[n].rest = <<>>)
          /\ (loop[n].stage = "acking") = (loop[n].todo # {})

FlightHolds == in_flight \in [Node -> SUBSET Message]

CountsHold == asked \in 0 .. MaxCalls /\ faults \in 0 .. MaxFaults

HistoryHolds ==
    /\ rings \in [Message -> SUBSET SUBSET Node]
    /\ settling \subseteq (Call \cup Node) \X Message
    /\ settled \subseteq Message

\* The strengthening of LiveNodesStay: a peer that is taken for dead missed the
\* last heartbeats it could, so no later check takes it for less than dead.
DetectorHolds ==
    /\ Detector!TypeOK
    /\ Detector!LiveNodesStay
    /\ \A n, p \in Node : status[n][p] = "dead" => missed[n][p] = DeadThreshold

RestHolds ==
    CallsHold /\ LateHold /\ LoopHold /\ FlightHolds /\ CountsHold /\ HistoryHolds
    /\ DetectorHolds

Inv == StoresHold /\ RestHolds

\* The type invariant is part of it.
LEMMA InvTypes == Inv => TypeOK
BY DEF Inv, RestHolds, StoresHold, CallsHold, LateHold, LoopHold, FlightHolds, CountsHold,
       HistoryHolds, DetectorHolds, TypeOK

-----------------------------------------------------------------------------
(* What the helpers of the actions return *)

LEMMA NodesForKeyType ==
    ASSUME DetectorHolds, NEW n \in Node, NEW m
    PROVE  /\ TargetNodes(n, m) \in SUBSET Node
           /\ ResponsibleNodes(n, m) \in SUBSET Node
BY DEF DetectorHolds, Detector!TypeOK, TargetNodes, ResponsibleNodes, NodesForKey

LEMMA HomeType ==
    ASSUME DetectorHolds, NEW n \in Node
    PROVE  NodeForKey(QueueName, ring[n]) \in Node
<1>1. ring[n] \in SUBSET Node /\ ring[n] # {}
    BY DEF DetectorHolds, Detector!TypeOK, Detector!LiveNodesStay
<1>2. QueueName \in Key
    BY KeyAssumption
<1>. QED
    BY <1>1, <1>2, NearestExists DEF NodeForKey

LEMMA GetPendingType ==
    ASSUME NEW s \in Store, NEW limit \in Nat
    PROVE  GetPending(s, limit) \in Seq(Message)
<1>. DEFINE I == {i \in DOMAIN s.queue : IsPending(s, s.queue[i])}
            q == Pending(s)
<1>1. s.queue \in Seq(Message)
    BY StoreFields
<1>2. I \in SUBSET DOMAIN s.queue
    OBVIOUS
<1>3. q = Picked(s.queue, I)
    BY DEF Pending
<1>. HIDE DEF I
<1>4. q \in Seq(Message)
    BY <1>1, <1>2, <1>3, PickedElements
<1>. HIDE DEF q
<1>5. CASE Len(q) <= limit
    BY <1>4, <1>5 DEF GetPending, q
<1>6. CASE ~(Len(q) <= limit)
  <2>1. \A i \in 1 .. limit : q[i] \in Message
      BY <1>4, <1>6, ElementOfSeq, LenProperties
  <2>2. SubSeq(q, 1, limit) \in Seq(Message)
      BY <2>1, SubSeqProperties
  <2>. QED
      BY <1>6, <2>2 DEF GetPending, q
<1>. QED
    BY <1>5, <1>6

LEMMA TakeFromType ==
    ASSUME StoresHold, FlightHolds, NEW n \in Node
    PROVE  TakeFrom(n) \in [Node -> SUBSET Message]
<1>1. ConsumeLimit \in Nat /\ store[n] \in Store
    BY LimitsAssumption DEF StoresHold
<1>2. GetPending(store[n], ConsumeLimit) \in Seq(Message)
    BY <1>1, GetPendingType
<1>3. Range(GetPending(store[n], ConsumeLimit)) \subseteq Message
    BY <1>2, RangeOfSeq
<1>. QED
    BY <1>3 DEF TakeFrom, FlightHolds

LEMMA InFlightType ==
    ASSUME StoresHold, FlightHolds, NEW n \in Node, NEW m,
           NEW op \in {"publish", "ack", "consume"}
    PROVE  /\ InFlightAfter(op, n, m) \in [Node -> SUBSET Message]
           /\ InFlightAfterAck(n, m) \in [Node -> SUBSET Message]
<1>1. TakeFrom(n) \in [Node -> SUBSET Message]
    BY TakeFromType
<1>2. [in_flight EXCEPT ![n] = @ \ {m}] \in [Node -> SUBSET Message]
    BY DEF FlightHolds
<1>. QED
    BY <1>1, <1>2 DEF InFlightAfter, InFlightAfterAck, FlightHolds

LEMMA DeliverableType ==
    ASSUME NEW rest \in Seq(Message), NEW flying
    PROVE  Deliverable(rest, flying) \in Seq(Message)
<1>. DEFINE free == {i \in DOMAIN rest : rest[i] \notin flying}
            first == CHOOSE i \in free : \A j \in free : i <= j
<1>1. DOMAIN rest = 1 .. Len(rest) /\ Len(rest) \in Nat /\ \A i \in DOMAIN rest : rest[i] \in Message
    BY ElementOfSeq, LenProperties
<1>2. CASE free = {}
    BY <1>2, EmptySeq DEF Deliverable
<1>3. CASE free # {}
  <2>1. free \subseteq Nat
      BY <1>1
  <2>2. \E i \in free : \A j \in free : i <= j
      BY <1>3, <2>1, MinExists
  <2>3. first \in 1 .. Len(rest)
      BY <1>1, <2>2
  <2>4. Deliverable(rest, flying) = SubSeq(rest, first, Len(rest))
      BY <1>3 DEF Deliverable
  <2>. HIDE DEF first
  <2>5. \A i \in first .. Len(rest) : rest[i] \in Message
      BY <1>1, <2>3
  <2>. QED
      BY <1>1, <2>3, <2>4, <2>5, SubSeqProperties
<1>. QED
    BY <1>2, <1>3

LEMMA GoOnType ==
    ASSUME LoopHold, NEW n \in Node, NEW rest \in Seq(Message),
           NEW flight \in [Node -> SUBSET Message], GoOn(n, rest, flight)
    PROVE  LoopHold' /\ FlightHolds'
<1>. DEFINE next == Deliverable(rest, flight[n])
            l == IF next = <<>> THEN Asleep
                 ELSE [stage |-> "handling", rest |-> next, todo |-> {}]
<1>1. next \in Seq(Message)
    BY DeliverableType
<1>2. /\ loop' = [loop EXCEPT ![n] = l]
      /\ in_flight' = IF next = <<>> THEN flight ELSE [flight EXCEPT ![n] = @ \cup {Head(next)}]
    BY DEF GoOn
<1>. HIDE DEF next
<1>3. /\ l \in LoopRecord
      /\ (l.stage = "idle") = (l.rest = <<>>) /\ (l.stage = "acking") = (l.todo # {})
    BY <1>1, EmptySeq DEF LoopRecord, Asleep
<1>4. next # <<>> => Head(next) \in Message
    BY <1>1, HeadTailProperties
<1>. HIDE DEF l
<1>. QED
    BY <1>2, <1>3, <1>4 DEF LoopHold, FlightHolds

\* A loop that is not asleep has something in hand.
LEMMA InHandType ==
    ASSUME LoopHold, NEW n \in Node, loop[n].stage # "idle"
    PROVE  /\ InHand(n) \in Message
           /\ Tail(loop[n].rest) \in Seq(Message)
           /\ loop[n].rest \in Seq(Message)
           /\ loop[n].todo \in SUBSET Node
<1>1. loop[n].rest \in Seq(Message) /\ loop[n].rest # <<>> /\ loop[n].todo \in SUBSET Node
    BY DEF LoopHold, LoopRecord
<1>. QED
    BY <1>1, HeadTailProperties DEF InHand

LEMMA LoopAcksType ==
    ASSUME LoopHold, NEW n \in Node, loop[n].stage # "idle", NEW todo \in SUBSET Node,
           NEW flight \in [Node -> SUBSET Message], LoopAcks(n, todo, flight)
    PROVE  LoopHold' /\ FlightHolds'
<1>1. CASE todo = {}
    BY <1>1, GoOnType, InHandType DEF LoopAcks
<1>2. CASE todo # {}
  <2>. DEFINE l == [loop[n] EXCEPT !.stage = "acking", !.todo = todo]
  <2>1. loop' = [loop EXCEPT ![n] = l] /\ in_flight' = flight
      BY <1>2 DEF LoopAcks, LoopHold
  <2>2. l \in LoopRecord /\ l.stage = "acking" /\ l.rest = loop[n].rest /\ l.todo = todo
    <3>1. loop[n] \in LoopRecord
        BY DEF LoopHold
    <3>. QED
        BY <3>1 DEF LoopRecord
  <2>3. loop[n].rest # <<>>
      BY DEF LoopHold
  <2>. HIDE DEF l
  <2>. QED
      BY <1>2, <2>1, <2>2, <2>3 DEF LoopHold, FlightHolds
<1>. QED
    BY <1>1, <1>2

LEMMA ProgressType ==
    ASSUME HistoryHolds, NEW k \in Call \cup Node, NEW m \in Message, NEW todo, NEW may,
           Progress(k, m, todo, may), UNCHANGED rings
    PROVE  HistoryHolds'
BY DEF HistoryHolds, Progress

\* What a call has in hand.
LEMMA CallFields ==
    ASSUME CallsHold, NEW i \in Call, calls[i] # NoCall
    PROVE  /\ calls[i] \in CallRecord
           /\ calls[i].op \in {"publish", "ack", "consume"}
           /\ calls[i].id \in Key
           /\ calls[i].op # "consume" => calls[i].id \in Message
           /\ calls[i].todo \in SUBSET Node
           /\ Nearest(calls[i].id, calls[i].todo) \in Node
<1>1. calls[i] \in CallRecord /\ calls[i].todo # {} /\ (calls[i].op # "consume" => calls[i].id \in Message)
    BY DEF CallsHold
<1>2. /\ calls[i].op \in {"publish", "ack", "consume"} /\ calls[i].id \in Key
      /\ calls[i].todo \in SUBSET Node
    BY <1>1 DEF CallRecord
<1>3. Nearest(calls[i].id, calls[i].todo) \in calls[i].todo
    BY <1>1, <1>2, NearestExists
<1>. QED
    BY <1>1, <1>2, <1>3

LEMMA BeginType ==
    ASSUME CallsHold, CountsHold, NEW i \in Call, NEW call \in CallRecord,
           call.op # "consume" => call.id \in Message, Begin(i, call)
    PROVE  CallsHold' /\ asked' \in 0 .. MaxCalls
<1>1. /\ calls' = [calls EXCEPT ![i] = IF call.todo = {} THEN NoCall ELSE call]
      /\ asked' = asked + 1 /\ asked < MaxCalls
    BY DEF Begin
<1>2. CallsHold'
    BY <1>1 DEF CallsHold
<1>3. asked' \in 0 .. MaxCalls
    BY <1>1, LimitsAssumption DEF CountsHold
<1>. QED
    BY <1>2, <1>3

LEMMA SentType ==
    ASSUME CallsHold, HistoryHolds, NEW i \in Call, calls[i] # NoCall, NEW handled,
           Sent(i, handled), UNCHANGED rings
    PROVE  CallsHold' /\ HistoryHolds'
<1>. DEFINE c == calls[i]
            todo == c.todo \ {Nearest(c.id, c.todo)}
            d == IF todo = {} THEN NoCall ELSE [c EXCEPT !.todo = todo]
<1>1. /\ c \in CallRecord /\ c.op \in {"publish", "ack", "consume"}
      /\ c.op # "consume" => c.id \in Message
      /\ todo \in SUBSET Node
    BY CallFields
<1>2. calls' = [calls EXCEPT ![i] = d]
    BY DEF Sent, CallsHold
<1>3. d \in CallRecord \cup {NoCall} /\ (d # NoCall => d.todo # {} /\ (d.op # "consume" => d.id \in Message))
  <2>. HIDE DEF todo
  <2>. QED
      BY <1>1 DEF CallRecord
<1>4. CallsHold'
  <2>. HIDE DEF d
  <2>. QED
      BY <1>2, <1>3 DEF CallsHold
<1>5. CASE c.op = "ack"
  <2>1. Progress(i, c.id, todo, handled /\ <<i, c.id>> \in settling) /\ c.id \in Message
      BY <1>1, <1>5 DEF Sent
  <2>. QED
      BY <1>4, <2>1, ProgressType
<1>6. CASE c.op # "ack"
    BY <1>4, <1>6 DEF Sent, HistoryHolds
<1>. QED
    BY <1>5, <1>6

LEMMA GiveUpType ==
    ASSUME LateHold, CountsHold, NEW op \in {"publish", "ack", "consume"}, NEW n \in Node,
           NEW m \in Key, op # "consume" => m \in Message, GiveUp(op, n, m), UNCHANGED asked
    PROVE  LateHold' /\ CountsHold'
<1>. DEFINE r == [op |-> op, to |-> n, id |-> m, nr |-> faults]
<1>1. r \in Request /\ (r.op # "consume" => r.id \in Message)
    BY DEF Request, CountsHold
<1>2. late' \in {late, late \cup {r}} /\ faults < MaxFaults /\ faults' = faults + 1
    BY DEF GiveUp
<1>. HIDE DEF r
<1>3. LateHold'
    BY <1>1, <1>2 DEF LateHold
<1>4. CountsHold'
    BY <1>2, LimitsAssumption DEF CountsHold
<1>. QED
    BY <1>3, <1>4

-----------------------------------------------------------------------------
(* The actions *)

LEMMA InitHolds == Init => Inv
<1>. SUFFICES ASSUME Init PROVE Inv
    OBVIOUS
<1>1. StoresHold
  <2>1. StoreOK(EmptyStore) /\ EmptyStore \in Store
      BY EmptyStoreHolds DEF StoreOK
  <2>2. store = [n \in Node |-> EmptyStore] /\ acked = [n \in Node |-> {}]
      BY DEF Init
  <2>. QED
      BY <2>1, <2>2 DEF StoresHold
<1>2. CallsHold /\ LateHold /\ FlightHolds /\ HistoryHolds
    BY DEF Init, CallsHold, LateHold, FlightHolds, HistoryHolds
<1>3. LoopHold
  <2>1. <<>> \in Seq(Message)
      BY EmptySeq
  <2>2. Asleep \in LoopRecord /\ Asleep.stage = "idle" /\ Asleep.rest = <<>> /\ Asleep.todo = {}
      BY <2>1 DEF Asleep, LoopRecord
  <2>3. loop = [n \in Node |-> Asleep]
      BY DEF Init
  <2>. QED
      BY <2>2, <2>3 DEF LoopHold
<1>4. CountsHold
    BY LimitsAssumption DEF Init, CountsHold
<1>5. DetectorHolds
  <2>1. <<>> \in Seq(Detector!Callback) /\ Len(<<>>) = 0
      BY EmptySeq
  <2>. QED
      BY <2>1, ThresholdsAssumption, TasksAssumption
      DEF Init, Detector!Init, Detector!TypeOK, Detector!AllAlive, Detector!NoneMissed,
          Detector!NodeStatus, DetectorHolds, Detector!LiveNodesStay
<1>. QED
    BY <1>1, <1>2, <1>3, <1>4, <1>5 DEF Inv, RestHolds

\* What a step leaves alone that is no step of the failure detector.
LEMMA DetectorUnchanged ==
    ASSUME DetectorHolds, UNCHANGED detector
    PROVE  DetectorHolds'
BY DEF detector, DetectorHolds, Detector!TypeOK, Detector!LiveNodesStay, Detector!Returns

LEMMA PublishStep ==
    ASSUME Inv, NEW i \in Call, NEW n \in Node, NEW m \in Message, Publish(i, n, m)
    PROVE  Inv' /\ Promise
<1>. DEFINE call == [op |-> "publish", at |-> n, id |-> m, todo |-> TargetNodes(n, m) \ {n}]
<1>1. StoresHold /\ RestHolds /\ CallsHold /\ CountsHold /\ HistoryHolds /\ DetectorHolds
    BY DEF Inv, RestHolds
<1>2. call \in CallRecord /\ call.op = "publish" /\ call.id = m
    BY <1>1, NodesForKeyType, KeyAssumption DEF CallRecord
<1>3. Begin(i, call) /\ UNCHANGED <<in_flight, loop, late, faults, detector>>
    BY DEF Publish
<1>. HIDE DEF call
<1>4. CallsHold' /\ CountsHold'
    BY <1>1, <1>2, <1>3, BeginType DEF CountsHold
<1>5. StoresHold' /\ Promise
  <2>1. CASE n \in TargetNodes(n, m)
      BY <1>1, <2>1, PublishHolds DEF Publish
  <2>2. CASE n \notin TargetNodes(n, m)
      BY <1>1, <2>2, StoresUnchanged DEF Publish
  <2>. QED
      BY <2>1, <2>2
<1>6. HistoryHolds'
    BY <1>1, SMTT(60) DEF HistoryHolds, Publish, DetectorHolds, Detector!TypeOK
<1>7. LateHold' /\ LoopHold' /\ FlightHolds' /\ DetectorHolds'
    BY <1>1, <1>3, DetectorUnchanged DEF RestHolds, LateHold, LoopHold, FlightHolds
<1>. QED
    BY <1>4, <1>5, <1>6, <1>7 DEF Inv, RestHolds

\* The part of an ack that the node does for itself.
LEMMA AckHereHolds ==
    ASSUME StoresHold, NEW n \in Node, NEW m \in Message, AckHere(n, m)
    PROVE  StoresHold' /\ Promise
BY HandleHolds, StoresUnchanged DEF AckHere

LEMMA AckStep ==
    ASSUME Inv, NEW i \in Call, NEW n \in Node, NEW m \in Message, Ack(i, n, m)
    PROVE  Inv' /\ Promise
<1>. DEFINE todo == ResponsibleNodes(n, m) \ {n}
            call == [op |-> "ack", at |-> n, id |-> m, todo |-> todo]
<1>1. /\ StoresHold /\ RestHolds /\ CallsHold /\ CountsHold /\ HistoryHolds /\ DetectorHolds
      /\ FlightHolds
    BY DEF Inv, RestHolds
<1>2. call \in CallRecord /\ call.op = "ack" /\ call.id = m
    BY <1>1, NodesForKeyType, KeyAssumption DEF CallRecord
<1>3. /\ Begin(i, call) /\ AckHere(n, m) /\ in_flight' = InFlightAfterAck(n, m)
      /\ Progress(i, m, todo, Undisturbed(n, m))
      /\ UNCHANGED <<loop, late, faults, rings, detector>>
    BY DEF Ack
<1>. HIDE DEF call, todo
<1>4. CallsHold' /\ CountsHold'
    BY <1>1, <1>2, <1>3, BeginType DEF CountsHold
<1>5. StoresHold' /\ Promise
    BY <1>1, <1>3, AckHereHolds
<1>6. HistoryHolds'
    BY <1>1, <1>3, ProgressType
<1>7. FlightHolds'
    BY <1>1, <1>3, InFlightType DEF FlightHolds
<1>8. LateHold' /\ LoopHold' /\ DetectorHolds'
    BY <1>1, <1>3, DetectorUnchanged DEF RestHolds, LateHold, LoopHold
<1>. QED
    BY <1>4, <1>5, <1>6, <1>7, <1>8 DEF Inv, RestHolds

LEMMA ConsumeStep ==
    ASSUME Inv, NEW i \in Call, NEW n \in Node, Consume(i, n)
    PROVE  Inv' /\ Promise
<1>. DEFINE home == NodeForKey(QueueName, ring[n])
            call == [op |-> "consume", at |-> n, id |-> QueueName, todo |-> {home} \ {n}]
<1>1. /\ StoresHold /\ RestHolds /\ CallsHold /\ CountsHold /\ HistoryHolds /\ DetectorHolds
      /\ FlightHolds
    BY DEF Inv, RestHolds
<1>2. home \in Node
    BY <1>1, HomeType
<1>3. /\ Begin(i, call) /\ in_flight' = (IF home = n THEN TakeFrom(n) ELSE in_flight)
      /\ UNCHANGED <<store, loop, late, faults, history, detector>>
    BY DEF Consume
<1>4. call \in CallRecord /\ call.op = "consume"
    BY <1>2, KeyAssumption DEF CallRecord
<1>. HIDE DEF call, home
<1>5. CallsHold' /\ CountsHold'
    BY <1>1, <1>3, <1>4, BeginType DEF CountsHold
<1>6. StoresHold' /\ Promise
    BY <1>1, <1>3, StoresUnchanged DEF history
<1>7. FlightHolds'
    BY <1>1, <1>3, TakeFromType DEF FlightHolds
<1>8. LateHold' /\ LoopHold' /\ HistoryHolds' /\ DetectorHolds'
    BY <1>1, <1>3, DetectorUnchanged DEF RestHolds, LateHold, LoopHold, HistoryHolds, history
<1>. QED
    BY <1>5, <1>6, <1>7, <1>8 DEF Inv, RestHolds

LEMMA SendAnsweredStep ==
    ASSUME Inv, NEW i \in Call, SendAnswered(i)
    PROVE  Inv' /\ Promise
<1>. DEFINE c == calls[i]
            n == Nearest(c.id, c.todo)
<1>1. /\ StoresHold /\ RestHolds /\ CallsHold /\ HistoryHolds /\ FlightHolds
      /\ DetectorHolds
    BY DEF Inv, RestHolds
<1>2. /\ c # NoCall /\ Handle(c.op, n, c.id) /\ in_flight' = InFlightAfter(c.op, n, c.id)
      /\ Sent(i, TRUE) /\ UNCHANGED <<loop, late, asked, faults, rings, detector>>
    BY DEF SendAnswered
<1>3. n \in Node /\ c.op \in {"publish", "ack", "consume"} /\ (c.op # "consume" => c.id \in Message)
    BY <1>1, <1>2, CallFields
<1>4. CallsHold' /\ HistoryHolds'
    BY <1>1, <1>2, SentType
<1>. HIDE DEF c, n
<1>5. StoresHold' /\ Promise
    BY <1>1, <1>2, <1>3, HandleHolds
<1>6. FlightHolds'
    BY <1>1, <1>2, <1>3, InFlightType DEF FlightHolds
<1>7. LateHold' /\ LoopHold' /\ CountsHold' /\ DetectorHolds'
    BY <1>1, <1>2, DetectorUnchanged DEF RestHolds, LateHold, LoopHold, CountsHold
<1>. QED
    BY <1>4, <1>5, <1>6, <1>7 DEF Inv, RestHolds

LEMMA SendFailsStep ==
    ASSUME Inv, NEW i \in Call, SendFails(i)
    PROVE  Inv' /\ Promise
<1>. DEFINE c == calls[i]
            n == Nearest(c.id, c.todo)
<1>1. /\ StoresHold /\ RestHolds /\ CallsHold /\ HistoryHolds /\ LateHold /\ CountsHold
      /\ DetectorHolds
    BY DEF Inv, RestHolds
<1>2. /\ c # NoCall /\ GiveUp(c.op, n, c.id) /\ Sent(i, FALSE)
      /\ UNCHANGED <<queues, asked, acked, rings, detector>>
    BY DEF SendFails
<1>3. /\ n \in Node /\ c.op \in {"publish", "ack", "consume"} /\ c.id \in Key
      /\ c.op # "consume" => c.id \in Message
    BY <1>1, <1>2, CallFields
<1>4. CallsHold' /\ HistoryHolds'
    BY <1>1, <1>2, SentType
<1>. HIDE DEF c, n
<1>5. LateHold' /\ CountsHold'
    BY <1>1, <1>2, <1>3, GiveUpType
<1>6. StoresHold' /\ Promise
    BY <1>1, <1>2, StoresUnchanged DEF queues
<1>7. FlightHolds' /\ LoopHold' /\ DetectorHolds'
    BY <1>1, <1>2, DetectorUnchanged DEF RestHolds, FlightHolds, LoopHold, queues
<1>. QED
    BY <1>4, <1>5, <1>6, <1>7 DEF Inv, RestHolds

LEMMA HandleLateStep ==
    ASSUME Inv, NEW r \in late, HandleLate(r)
    PROVE  Inv' /\ Promise
<1>1. /\ StoresHold /\ RestHolds /\ LateHold /\ FlightHolds /\ DetectorHolds
    BY DEF Inv, RestHolds
<1>2. /\ late' = late \ {r} /\ Handle(r.op, r.to, r.id)
      /\ in_flight' = InFlightAfter(r.op, r.to, r.id)
      /\ UNCHANGED <<loop, calls, asked, faults, rings, settling, settled, detector>>
    BY DEF HandleLate
<1>3. /\ r.to \in Node /\ r.op \in {"publish", "ack", "consume"}
      /\ r.op # "consume" => r.id \in Message
    BY <1>1 DEF LateHold, Request
<1>4. StoresHold' /\ Promise
    BY <1>1, <1>2, <1>3, HandleHolds
<1>5. FlightHolds'
    BY <1>1, <1>2, <1>3, InFlightType DEF FlightHolds
<1>6. LateHold'
    BY <1>1, <1>2 DEF LateHold
<1>7. CallsHold' /\ LoopHold' /\ CountsHold' /\ HistoryHolds' /\ DetectorHolds'
    BY <1>1, <1>2, DetectorUnchanged DEF RestHolds, CallsHold, LoopHold, CountsHold, HistoryHolds
<1>. QED
    BY <1>4, <1>5, <1>6, <1>7 DEF Inv, RestHolds

LEMMA LoopWakesStep ==
    ASSUME Inv, NEW n \in Node, LoopWakes(n)
    PROVE  Inv' /\ Promise
<1>. DEFINE messages == GetPending(store[n], PendingLimit)
<1>1. /\ StoresHold /\ RestHolds /\ LoopHold /\ FlightHolds /\ DetectorHolds
    BY DEF Inv, RestHolds
<1>2. /\ GoOn(n, messages, in_flight)
      /\ UNCHANGED <<store, calls, late, asked, faults, history, detector>>
    BY DEF LoopWakes
<1>3. messages \in Seq(Message)
    BY <1>1, GetPendingType, LimitsAssumption DEF StoresHold
<1>. HIDE DEF messages
<1>4. LoopHold' /\ FlightHolds'
    BY <1>1, <1>2, <1>3, GoOnType DEF FlightHolds
<1>5. StoresHold' /\ Promise
    BY <1>1, <1>2, StoresUnchanged DEF history
<1>6. CallsHold' /\ LateHold' /\ CountsHold' /\ HistoryHolds' /\ DetectorHolds'
    BY <1>1, <1>2, DetectorUnchanged
    DEF RestHolds, CallsHold, LateHold, CountsHold, HistoryHolds, history
<1>. QED
    BY <1>4, <1>5, <1>6 DEF Inv, RestHolds

LEMMA HandlerSucceedsStep ==
    ASSUME Inv, NEW n \in Node, HandlerSucceeds(n)
    PROVE  Inv' /\ Promise
<1>. DEFINE m == InHand(n)
            todo == ResponsibleNodes(n, m) \ {n}
<1>1. /\ StoresHold /\ RestHolds /\ LoopHold /\ FlightHolds /\ HistoryHolds /\ DetectorHolds
    BY DEF Inv, RestHolds
<1>2. /\ loop[n].stage = "handling"
      /\ AckHere(n, m)
      /\ LoopAcks(n, todo, InFlightAfterAck(n, m))
      /\ Progress(n, m, todo, Undisturbed(n, m))
      /\ UNCHANGED <<calls, late, asked, faults, rings, detector>>
    BY DEF HandlerSucceeds
<1>3. m \in Message /\ todo \in SUBSET Node
    BY <1>1, <1>2, InHandType, NodesForKeyType
<1>. HIDE DEF m, todo
<1>4. InFlightAfterAck(n, m) \in [Node -> SUBSET Message]
    BY <1>1, InFlightType
<1>5. LoopHold' /\ FlightHolds'
    BY <1>1, <1>2, <1>3, <1>4, LoopAcksType
<1>6. StoresHold' /\ Promise
    BY <1>1, <1>2, <1>3, AckHereHolds
<1>7. HistoryHolds'
    BY <1>1, <1>2, <1>3, ProgressType
<1>8. CallsHold' /\ LateHold' /\ CountsHold' /\ DetectorHolds'
    BY <1>1, <1>2, DetectorUnchanged DEF RestHolds, CallsHold, LateHold, CountsHold
<1>. QED
    BY <1>5, <1>6, <1>7, <1>8 DEF Inv, RestHolds

LEMMA HandlerFailsStep ==
    ASSUME Inv, NEW n \in Node, HandlerFails(n)
    PROVE  Inv' /\ Promise
<1>. DEFINE flight == [in_flight EXCEPT ![n] = @ \ {InHand(n)}]
<1>1. /\ StoresHold /\ RestHolds /\ LoopHold /\ FlightHolds /\ DetectorHolds
    BY DEF Inv, RestHolds
<1>2. /\ loop[n].stage = "handling"
      /\ GoOn(n, Tail(loop[n].rest), flight)
      /\ UNCHANGED <<store, calls, late, asked, faults, history, detector>>
    BY DEF HandlerFails
<1>3. flight \in [Node -> SUBSET Message]
    BY <1>1 DEF FlightHolds
<1>. HIDE DEF flight
<1>4. LoopHold' /\ FlightHolds'
    BY <1>1, <1>2, <1>3, GoOnType, InHandType
<1>5. StoresHold' /\ Promise
    BY <1>1, <1>2, StoresUnchanged DEF history
<1>6. CallsHold' /\ LateHold' /\ CountsHold' /\ HistoryHolds' /\ DetectorHolds'
    BY <1>1, <1>2, DetectorUnchanged
    DEF RestHolds, CallsHold, LateHold, CountsHold, HistoryHolds, history
<1>. QED
    BY <1>4, <1>5, <1>6 DEF Inv, RestHolds

\* What is common to the two ends of a send of the consumer loop.
LEMMA LoopSentType ==
    ASSUME Inv, NEW n \in Node, loop[n].stage = "acking",
           NEW flight \in [Node -> SUBSET Message], NEW handled, LoopSent(n, flight, handled)
    PROVE  CallsHold' /\ LoopHold' /\ FlightHolds' /\ HistoryHolds' /\ DetectorHolds'
<1>. DEFINE m == InHand(n)
            todo == loop[n].todo \ {Nearest(m, loop[n].todo)}
<1>1. /\ RestHolds /\ CallsHold /\ LoopHold /\ HistoryHolds /\ DetectorHolds
    BY DEF Inv, RestHolds
<1>2. /\ LoopAcks(n, todo, flight)
      /\ Progress(n, m, todo, handled /\ <<n, m>> \in settling)
      /\ UNCHANGED <<calls, asked, rings, detector>>
    BY DEF LoopSent
<1>3. m \in Message /\ todo \in SUBSET Node
    BY <1>1, InHandType
<1>. HIDE DEF m, todo
<1>4. LoopHold' /\ FlightHolds'
    BY <1>1, <1>2, <1>3, LoopAcksType
<1>5. HistoryHolds'
    BY <1>1, <1>2, <1>3, ProgressType
<1>6. CallsHold' /\ DetectorHolds'
    BY <1>1, <1>2, DetectorUnchanged DEF CallsHold
<1>. QED
    BY <1>4, <1>5, <1>6

\* Whom the loop asks next.
LEMMA LoopPeer ==
    ASSUME LoopHold, NEW n \in Node, loop[n].stage = "acking"
    PROVE  InHand(n) \in Message /\ Nearest(InHand(n), loop[n].todo) \in Node
<1>1. InHand(n) \in Key /\ InHand(n) \in Message /\ loop[n].todo \in SUBSET Node
    BY InHandType, KeyAssumption
<1>2. loop[n].todo # {}
    BY DEF LoopHold
<1>. QED
    BY <1>1, <1>2, NearestExists

LEMMA LoopSendAnsweredStep ==
    ASSUME Inv, NEW n \in Node, LoopSendAnswered(n)
    PROVE  Inv' /\ Promise
<1>. DEFINE m == InHand(n)
            p == Nearest(m, loop[n].todo)
<1>1. /\ StoresHold /\ RestHolds /\ LoopHold /\ FlightHolds
    BY DEF Inv, RestHolds
<1>2. /\ loop[n].stage = "acking" /\ Handle("ack", p, m)
      /\ LoopSent(n, InFlightAfter("ack", p, m), TRUE) /\ UNCHANGED <<late, faults>>
      /\ asked' = asked
    BY DEF LoopSendAnswered, LoopSent
<1>3. m \in Message /\ p \in Node
    BY <1>1, <1>2, LoopPeer
<1>. HIDE DEF m, p
<1>4. StoresHold' /\ Promise
    BY <1>1, <1>2, <1>3, HandleHolds
<1>5. InFlightAfter("ack", p, m) \in [Node -> SUBSET Message]
    BY <1>1, <1>3, InFlightType
<1>6. CallsHold' /\ LoopHold' /\ FlightHolds' /\ HistoryHolds' /\ DetectorHolds'
    BY <1>2, <1>5, LoopSentType
<1>7. LateHold' /\ CountsHold'
    BY <1>1, <1>2 DEF RestHolds, LateHold, CountsHold
<1>. QED
    BY <1>4, <1>6, <1>7 DEF Inv, RestHolds

LEMMA LoopSendFailsStep ==
    ASSUME Inv, NEW n \in Node, LoopSendFails(n)
    PROVE  Inv' /\ Promise
<1>. DEFINE m == InHand(n)
            p == Nearest(m, loop[n].todo)
<1>1. /\ StoresHold /\ RestHolds /\ LoopHold /\ FlightHolds /\ LateHold /\ CountsHold
    BY DEF Inv, RestHolds
<1>2. /\ loop[n].stage = "acking" /\ GiveUp("ack", p, m)
      /\ LoopSent(n, in_flight, FALSE) /\ UNCHANGED <<store, acked>> /\ asked' = asked
    BY DEF LoopSendFails, LoopSent
<1>3. m \in Message /\ p \in Node /\ m \in Key
    BY <1>1, <1>2, LoopPeer, KeyAssumption
<1>. HIDE DEF m, p
<1>4. StoresHold' /\ Promise
    BY <1>1, <1>2, StoresUnchanged
<1>5. CallsHold' /\ LoopHold' /\ FlightHolds' /\ HistoryHolds' /\ DetectorHolds'
    BY <1>1, <1>2, LoopSentType DEF FlightHolds
<1>6. LateHold' /\ CountsHold'
    BY <1>1, <1>2, <1>3, GiveUpType
<1>. QED
    BY <1>4, <1>5, <1>6 DEF Inv, RestHolds

LEMMA RedeliverStep ==
    ASSUME Inv, NEW n \in Node, NEW m \in Message, Redeliver(n, m)
    PROVE  Inv' /\ Promise
<1>1. /\ StoresHold /\ RestHolds /\ FlightHolds /\ DetectorHolds
    BY DEF Inv, RestHolds
<1>2. /\ store' = [store EXCEPT ![n] = Nack(@, m)] /\ acked' = acked
      /\ in_flight' = [in_flight EXCEPT ![n] = @ \ {m}]
      /\ UNCHANGED <<loop, calls, late, asked, faults, history, detector>>
    BY DEF Redeliver, history
<1>3. StoresHold' /\ Promise
    BY <1>1, <1>2, RedeliveryHolds
<1>4. FlightHolds'
    BY <1>1, <1>2 DEF FlightHolds
<1>5. CallsHold' /\ LateHold' /\ LoopHold' /\ CountsHold' /\ HistoryHolds' /\ DetectorHolds'
    BY <1>1, <1>2, DetectorUnchanged
    DEF RestHolds, CallsHold, LateHold, LoopHold, CountsHold, HistoryHolds, history
<1>. QED
    BY <1>3, <1>4, <1>5 DEF Inv, RestHolds

-----------------------------------------------------------------------------
(* The failure detector *)

LEMMA CheckNodesStep ==
    ASSUME DetectorHolds, NEW n \in Node, Detector!CheckNodes(n)
    PROVE  DetectorHolds'
<1>1. Detector!TypeOK /\ Detector!LiveNodesStay /\ Silent[n] \in SUBSET Node /\ n \notin Silent[n]
    BY SilentAssumption DEF DetectorHolds
<1>2. PICK seen \in [Silent[n] -> 0 .. DeadThreshold] :
          /\ \A p \in Silent[n] : seen[p] >= missed[n][p]
          /\ missed' = [missed EXCEPT ![n] =
                 [p \in Node |-> IF p \in Silent[n] THEN seen[p] ELSE @[p]]]
          /\ status' = [status EXCEPT ![n] =
                 [p \in Node |-> IF p \in Silent[n]
                     THEN Detector!StatusAfter(@[p], missed[n][p], seen[p]) ELSE @[p]]]
          /\ ring' = [ring EXCEPT ![n] = @ \ {p \in Silent[n] :
                 status[n][p] # "dead" /\ status'[n][p] = "dead"}]
          /\ UNCHANGED tasks
    BY DEF Detector!CheckNodes
<1>3. ASSUME NEW p \in Node
      PROVE  /\ missed'[n][p] = (IF p \in Silent[n] THEN seen[p] ELSE missed[n][p])
             /\ status'[n][p] = (IF p \in Silent[n]
                    THEN Detector!StatusAfter(status[n][p], missed[n][p], seen[p])
                    ELSE status[n][p])
    BY <1>1, <1>2 DEF Detector!TypeOK
<1>4. ASSUME NEW p \in Node
      PROVE  /\ missed'[n][p] \in 0 .. DeadThreshold
             /\ status'[n][p] \in Detector!NodeStatus
             /\ status'[n][p] = "dead" => missed'[n][p] = DeadThreshold
             /\ status[n][p] = "dead" => status'[n][p] = "dead"
  <2>1. /\ missed[n][p] \in 0 .. DeadThreshold /\ status[n][p] \in Detector!NodeStatus
        /\ status[n][p] = "dead" => missed[n][p] = DeadThreshold
      BY <1>1 DEF DetectorHolds, Detector!TypeOK
  <2>2. CASE p \notin Silent[n]
      BY <1>3, <2>1, <2>2
  <2>3. CASE p \in Silent[n]
    <3>1. seen[p] \in 0 .. DeadThreshold /\ seen[p] >= missed[n][p]
        BY <1>2, <2>3
    <3>. QED
        BY <1>3, <2>1, <2>3, <3>1, ThresholdsAssumption DEF Detector!StatusAfter, Detector!NodeStatus
  <2>. QED
      BY <2>2, <2>3
<1>5. \A q \in Node \ {n} : missed'[q] = missed[q] /\ status'[q] = status[q] /\ ring'[q] = ring[q]
    BY <1>1, <1>2 DEF Detector!TypeOK
<1>6. ring'[n] = ring[n] \ {p \in Silent[n] : status[n][p] # "dead" /\ status'[n][p] = "dead"}
    BY <1>1, <1>2 DEF Detector!TypeOK
<1>7. Detector!TypeOK'
  <2>1. missed' \in [Node -> [Node -> 0 .. DeadThreshold]]
    <3>1. [p \in Node |-> IF p \in Silent[n] THEN seen[p] ELSE missed[n][p]]
              \in [Node -> 0 .. DeadThreshold]
        BY <1>3, <1>4
    <3>. QED
        BY <1>1, <1>2, <3>1 DEF Detector!TypeOK
  <2>2. status' \in [Node -> [Node -> Detector!NodeStatus]]
    <3>1. [p \in Node |-> IF p \in Silent[n]
               THEN Detector!StatusAfter(status[n][p], missed[n][p], seen[p]) ELSE status[n][p]]
              \in [Node -> Detector!NodeStatus]
        BY <1>3, <1>4
    <3>. QED
        BY <1>1, <1>2, <3>1 DEF Detector!TypeOK
  <2>3. ring' \in [Node -> SUBSET Node]
      BY <1>1, <1>2 DEF Detector!TypeOK
  <2>. QED
      BY <1>1, <1>2, <2>1, <2>2, <2>3 DEF Detector!TypeOK
<1>8. Detector!LiveNodesStay'
  <2>1. tasks' = tasks
      BY <1>2
  <2>2. ASSUME NEW p \in Node \ {n}
        PROVE  p \in ring'[n] \/ status'[n][p] = "dead" \/ Detector!Returns(n, p)
    <3>1. p \in ring[n] \/ status[n][p] = "dead" \/ Detector!Returns(n, p)
        BY <1>1 DEF Detector!LiveNodesStay
    <3>. QED
        BY <1>4, <1>6, <3>1
  <2>3. n \in ring'[n]
      BY <1>1, <1>6 DEF Detector!LiveNodesStay
  <2>. QED
      BY <1>1, <1>5, <2>1, <2>2, <2>3 DEF Detector!LiveNodesStay, Detector!Returns
<1>9. \A q, p \in Node : status'[q][p] = "dead" => missed'[q][p] = DeadThreshold
    BY <1>4, <1>5 DEF DetectorHolds
<1>. QED
    BY <1>7, <1>8, <1>9 DEF DetectorHolds

LEMMA RecordHeartbeatStep ==
    ASSUME DetectorHolds, NEW n \in Node, NEW p \in Silent[n], Detector!RecordHeartbeat(n, p)
    PROVE  DetectorHolds'
<1>. DEFINE c == [peer |-> p, old |-> status[n][p]]
<1>1. Detector!TypeOK /\ Detector!LiveNodesStay /\ p \in Node
    BY SilentAssumption DEF DetectorHolds
<1>2. /\ missed' = [missed EXCEPT ![n][p] = 0]
      /\ status' = [status EXCEPT ![n][p] = "alive"]
      /\ ring' = ring
    BY DEF Detector!RecordHeartbeat
<1>3. /\ c \in Detector!Callback
      /\ tasks[n] \in Seq(Detector!Callback) /\ Len(tasks[n]) <= MaxTasks
    BY <1>1 DEF Detector!TypeOK, Detector!Callback
<1>4. /\ tasks' \in [Node -> Seq(Detector!Callback)]
      /\ \A q \in Node : Len(tasks'[q]) <= MaxTasks
      /\ \A q \in Node : \A i \in DOMAIN tasks[q] : i \in DOMAIN tasks'[q] /\ tasks'[q][i] = tasks[q][i]
      /\ status[n][p] = "dead" => \E i \in DOMAIN tasks'[n] : tasks'[n][i] = c
  <2>1. CASE status[n][p] = "alive"
      BY <1>1, <2>1 DEF Detector!RecordHeartbeat, Detector!TypeOK
  <2>2. CASE status[n][p] # "alive"
    <3>1. tasks' = [tasks EXCEPT ![n] = Append(@, c)] /\ Len(tasks[n]) < MaxTasks
        BY <2>2 DEF Detector!RecordHeartbeat, Detector!OldStatus
    <3>. DEFINE t == Append(tasks[n], c)
    <3>. HIDE DEF c
    <3>2. /\ t \in Seq(Detector!Callback) /\ Len(t) = Len(tasks[n]) + 1
          /\ \A i \in 1 .. Len(tasks[n]) : t[i] = tasks[n][i]
          /\ t[Len(tasks[n]) + 1] = c
        BY <1>3, AppendProperties
    <3>. HIDE DEF t
    <3>3. /\ Len(tasks[n]) \in Nat /\ DOMAIN tasks[n] = 1 .. Len(tasks[n])
          /\ DOMAIN t = 1 .. Len(tasks[n]) + 1
        BY <1>3, <3>2, LenProperties
    <3>4. tasks' = [tasks EXCEPT ![n] = t] /\ tasks'[n] = t
          /\ \A q \in Node \ {n} : tasks'[q] = tasks[q]
        BY <1>1, <3>1 DEF Detector!TypeOK, t
    <3>5. tasks' \in [Node -> Seq(Detector!Callback)]
        BY <1>1, <3>2, <3>4 DEF Detector!TypeOK
    <3>6. \A q \in Node : Len(tasks'[q]) <= MaxTasks
      <4>1. Len(t) <= MaxTasks
          BY <3>1, <3>2, <3>3, TasksAssumption
      <4>. QED
          BY <1>1, <3>4, <4>1 DEF Detector!TypeOK
    <3>7. \A q \in Node : \A i \in DOMAIN tasks[q] : i \in DOMAIN tasks'[q] /\ tasks'[q][i] = tasks[q][i]
      <4>1. \A i \in DOMAIN tasks[n] : i \in DOMAIN t /\ t[i] = tasks[n][i]
          BY <3>2, <3>3
      <4>. QED
          BY <3>4, <4>1
    <3>8. \E i \in DOMAIN tasks'[n] : tasks'[n][i] = c
      <4>1. Len(tasks[n]) + 1 \in DOMAIN t
          BY <3>3
      <4>. QED
          BY <3>2, <3>4, <4>1
    <3>. QED
        BY <3>5, <3>6, <3>7, <3>8
  <2>. QED
      BY <2>1, <2>2
<1>5. \A q, r \in Node : /\ status'[q][r] = (IF q = n /\ r = p THEN "alive" ELSE status[q][r])
                         /\ missed'[q][r] = (IF q = n /\ r = p THEN 0 ELSE missed[q][r])
    BY <1>1, <1>2 DEF Detector!TypeOK
<1>6. Detector!TypeOK'
  <2>1. status' \in [Node -> [Node -> Detector!NodeStatus]]
      BY <1>1, <1>2 DEF Detector!TypeOK, Detector!NodeStatus
  <2>2. missed' \in [Node -> [Node -> 0 .. DeadThreshold]]
    <3>1. 0 \in 0 .. DeadThreshold
        BY ThresholdsAssumption
    <3>. QED
        BY <1>1, <1>2, <3>1 DEF Detector!TypeOK
  <2>. QED
      BY <1>1, <1>2, <1>4, <2>1, <2>2 DEF Detector!TypeOK
<1>7. ASSUME NEW q \in Node, NEW r \in Node \ {q}
      PROVE  r \in ring'[q] \/ status'[q][r] = "dead"
             \/ \E i \in DOMAIN tasks'[q] : tasks'[q][i] = [peer |-> r, old |-> "dead"]
  <2>1. r \in ring[q] \/ status[q][r] = "dead"
        \/ \E i \in DOMAIN tasks[q] : tasks[q][i] = [peer |-> r, old |-> "dead"]
      BY <1>1 DEF Detector!LiveNodesStay, Detector!Returns
  <2>. QED
      BY <1>2, <1>4, <1>5, <2>1
<1>8. Detector!LiveNodesStay'
    BY <1>1, <1>2, <1>7 DEF Detector!LiveNodesStay, Detector!Returns
<1>9. \A q, r \in Node : status'[q][r] = "dead" => missed'[q][r] = DeadThreshold
    BY <1>5 DEF DetectorHolds
<1>. QED
    BY <1>6, <1>8, <1>9 DEF DetectorHolds

LEMMA RunTaskStep ==
    ASSUME DetectorHolds, NEW n \in Node, Detector!RunTask(n)
    PROVE  DetectorHolds'
<1>. DEFINE c == Head(tasks[n])
            t == Tail(tasks[n])
<1>1. Detector!TypeOK /\ Detector!LiveNodesStay
    BY DEF DetectorHolds
<1>2. /\ tasks[n] # <<>> /\ tasks' = [tasks EXCEPT ![n] = t]
      /\ ring' = IF c.old = "dead" THEN [ring EXCEPT ![n] = @ \cup {c.peer}] ELSE ring
      /\ UNCHANGED <<status, missed>>
    BY DEF Detector!RunTask
<1>3. tasks[n] \in Seq(Detector!Callback) /\ Len(tasks[n]) <= MaxTasks
    BY <1>1 DEF Detector!TypeOK
<1>4. /\ c \in Detector!Callback /\ t \in Seq(Detector!Callback) /\ Len(t) = Len(tasks[n]) - 1
      /\ \A i \in 1 .. Len(t) : t[i] = tasks[n][i + 1]
    BY <1>2, <1>3, HeadTailProperties
<1>5. /\ Len(tasks[n]) \in Nat /\ DOMAIN tasks[n] = 1 .. Len(tasks[n])
      /\ Len(t) \in Nat /\ DOMAIN t = 1 .. Len(t) /\ c = tasks[n][1]
    BY <1>2, <1>3, <1>4, LenProperties
<1>. HIDE DEF c, t
<1>6. \A q \in Node : /\ tasks'[q] = IF q = n THEN t ELSE tasks[q]
                      /\ ring[q] \subseteq ring'[q]
    BY <1>1, <1>2 DEF Detector!TypeOK
<1>7. Detector!TypeOK'
  <2>1. c.peer \in Node
      BY <1>4 DEF Detector!Callback
  <2>2. ring' \in [Node -> SUBSET Node]
      BY <1>1, <1>2, <2>1 DEF Detector!TypeOK
  <2>3. tasks' \in [Node -> Seq(Detector!Callback)]
      BY <1>1, <1>2, <1>4 DEF Detector!TypeOK
  <2>4. \A q \in Node : Len(tasks'[q]) <= MaxTasks
    <3>1. Len(t) <= MaxTasks
        BY <1>3, <1>4, <1>5, TasksAssumption
    <3>. QED
        BY <1>1, <1>6, <3>1 DEF Detector!TypeOK
  <2>. QED
      BY <1>1, <1>2, <2>2, <2>3, <2>4 DEF Detector!TypeOK
<1>8. ASSUME NEW q \in Node, NEW r \in Node \ {q}
      PROVE  r \in ring'[q] \/ status'[q][r] = "dead"
             \/ \E i \in DOMAIN tasks'[q] : tasks'[q][i] = [peer |-> r, old |-> "dead"]
  <2>1. r \in ring[q] \/ status[q][r] = "dead"
        \/ \E i \in DOMAIN tasks[q] : tasks[q][i] = [peer |-> r, old |-> "dead"]
      BY <1>1 DEF Detector!LiveNodesStay, Detector!Returns
  <2>2. CASE r \in ring[q] \/ status[q][r] = "dead" \/ q # n
      BY <1>2, <1>6, <2>1, <2>2
  <2>3. ASSUME q = n, NEW i \in DOMAIN tasks[n], tasks[n][i] = [peer |-> r, old |-> "dead"]
        PROVE  r \in ring'[q]
               \/ \E j \in DOMAIN tasks'[q] : tasks'[q][j] = [peer |-> r, old |-> "dead"]
    <3>1. CASE i = 1
      <4>1. c = [peer |-> r, old |-> "dead"]
          BY <1>5, <2>3, <3>1
      <4>2. c.old = "dead" /\ c.peer = r
          BY <4>1
      <4>. QED
          BY <1>1, <1>2, <2>3, <4>2 DEF Detector!TypeOK
    <3>2. CASE i # 1
      <4>1. i - 1 \in DOMAIN t /\ t[i - 1] = tasks[n][i]
          BY <1>4, <1>5, <3>2
      <4>. QED
          BY <1>6, <2>3, <4>1
    <3>. QED
        BY <3>1, <3>2
  <2>. QED
      BY <2>1, <2>2, <2>3
<1>9. Detector!LiveNodesStay'
    BY <1>1, <1>6, <1>8 DEF Detector!LiveNodesStay, Detector!Returns
<1>. QED
    BY <1>2, <1>7, <1>9 DEF DetectorHolds

LEMMA DetectorRestartStep ==
    ASSUME DetectorHolds, NEW n \in Node, Detector!Restart(n)
    PROVE  DetectorHolds'
<1>1. Detector!TypeOK /\ Detector!LiveNodesStay
    BY DEF DetectorHolds
<1>2. <<>> \in Seq(Detector!Callback) /\ Len(<<>>) = 0
    BY EmptySeq
<1>3. /\ status' = [status EXCEPT ![n] = [p \in Node |-> "alive"]]
      /\ missed' = [missed EXCEPT ![n] = [p \in Node |-> 0]]
      /\ tasks' = [tasks EXCEPT ![n] = <<>>]
      /\ ring' = [ring EXCEPT ![n] = Node]
    BY DEF Detector!Restart, Detector!AllAlive, Detector!NoneMissed
<1>4. Detector!TypeOK'
    BY <1>1, <1>2, <1>3, ThresholdsAssumption, TasksAssumption
    DEF Detector!TypeOK, Detector!NodeStatus
<1>5. /\ ring'[n] = Node
      /\ \A p \in Node : status'[n][p] = "alive"
      /\ \A q \in Node \ {n} : /\ ring'[q] = ring[q] /\ tasks'[q] = tasks[q]
                               /\ status'[q] = status[q] /\ missed'[q] = missed[q]
    BY <1>1, <1>3 DEF Detector!TypeOK
<1>6. Detector!LiveNodesStay'
    BY <1>1, <1>5 DEF Detector!LiveNodesStay, Detector!Returns
<1>7. \A q, p \in Node : status'[q][p] = "dead" => missed'[q][p] = DeadThreshold
    BY <1>5 DEF DetectorHolds
<1>. QED
    BY <1>4, <1>6, <1>7 DEF DetectorHolds

\* The actions that restart a node: what it was doing is gone.
LEMMA RebootStep ==
    ASSUME Inv, NEW n \in Node, Restart(n) \/ CrashInSave(n)
    PROVE  Inv' /\ Promise
<1>. DEFINE here == {i \in Call : calls[i] # NoCall /\ calls[i].at = n}
<1>1. StoresHold /\ RestHolds /\ LoopHold /\ FlightHolds /\ DetectorHolds
    BY DEF Inv, RestHolds
<1>2. /\ faults < MaxFaults /\ faults' = faults + 1
      /\ in_flight' = [in_flight EXCEPT ![n] = {}]
      /\ loop' = [loop EXCEPT ![n] = Asleep]
      /\ calls' = [i \in Call |-> IF i \in here THEN NoCall ELSE calls[i]]
      /\ settling' = {s \in settling : s[1] \notin here \cup {n}}
      /\ Detector!Restart(n)
      /\ UNCHANGED <<late, asked, rings, settled>>
    BY DEF Restart, CrashInSave, Reboot
<1>. HIDE DEF here
<1>3. StoresHold' /\ Promise
    BY <1>1, RestartHolds, CrashHolds
<1>4. DetectorHolds'
    BY <1>1, <1>2, DetectorRestartStep
<1>5. LoopHold'
  <2>1. <<>> \in Seq(Message)
      BY EmptySeq
  <2>2. Asleep \in LoopRecord /\ Asleep.stage = "idle" /\ Asleep.rest = <<>> /\ Asleep.todo = {}
      BY <2>1 DEF Asleep, LoopRecord
  <2>. HIDE DEF Asleep
  <2>. QED
      BY <1>1, <1>2, <2>2 DEF LoopHold
<1>6. CallsHold'
    BY <1>1, <1>2 DEF RestHolds, CallsHold
<1>7. FlightHolds' /\ LateHold' /\ HistoryHolds'
    BY <1>1, <1>2 DEF RestHolds, FlightHolds, LateHold, HistoryHolds
<1>8. CountsHold'
    BY <1>1, <1>2, LimitsAssumption DEF RestHolds, CountsHold
<1>. QED
    BY <1>3, <1>4, <1>5, <1>6, <1>7, <1>8 DEF Inv, RestHolds

LEMMA DetectorStepHolds ==
    ASSUME Inv, NEW n \in Node, DetectorStep(n)
    PROVE  Inv' /\ Promise
<1>1. StoresHold /\ RestHolds /\ DetectorHolds
    BY DEF Inv, RestHolds
<1>2. Detector!Detect(n) /\ UNCHANGED <<queues, calls, late, asked, faults, history>>
    BY DEF DetectorStep
<1>3. DetectorHolds'
    BY <1>1, <1>2, CheckNodesStep, RecordHeartbeatStep, RunTaskStep DEF Detector!Detect
<1>4. StoresHold' /\ Promise
    BY <1>1, <1>2, StoresUnchanged DEF queues, history
<1>5. CallsHold' /\ LateHold' /\ LoopHold' /\ FlightHolds' /\ CountsHold' /\ HistoryHolds'
    BY <1>1, <1>2 DEF RestHolds, CallsHold, LateHold, LoopHold, FlightHolds, CountsHold,
       HistoryHolds, queues, history
<1>. QED
    BY <1>3, <1>4, <1>5 DEF Inv, RestHolds

LEMMA StutterStep ==
    ASSUME Inv, UNCHANGED vars
    PROVE  Inv' /\ Promise
<1>1. StoresHold /\ RestHolds /\ DetectorHolds
    BY DEF Inv, RestHolds
<1>2. UNCHANGED <<queues, calls, late, asked, faults, history, detector>>
    BY DEF vars
<1>3. StoresHold' /\ Promise
    BY <1>1, <1>2, StoresUnchanged DEF queues, history
<1>4. DetectorHolds'
    BY <1>1, <1>2, DetectorUnchanged
<1>5. CallsHold' /\ LateHold' /\ LoopHold' /\ FlightHolds' /\ CountsHold' /\ HistoryHolds'
    BY <1>1, <1>2 DEF RestHolds, CallsHold, LateHold, LoopHold, FlightHolds, CountsHold,
       HistoryHolds, queues, history
<1>. QED
    BY <1>3, <1>4, <1>5 DEF Inv, RestHolds

LEMMA NextHolds == Inv /\ [Next]_vars => Inv' /\ Promise
<1>. SUFFICES ASSUME Inv, [Next]_vars
              PROVE  Inv' /\ Promise
    OBVIOUS
<1>1. CASE ClientStep
    BY <1>1, ConsumerAssumption, PublishStep, AckStep, ConsumeStep DEF ClientStep
<1>2. CASE \E i \in Call : SendStep(i)
    BY <1>2, SendAnsweredStep, SendFailsStep DEF SendStep
<1>3. CASE \E r \in late : HandleLate(r)
    BY <1>3, HandleLateStep
<1>4. CASE \E n \in Node : LoopStep(n)
    BY <1>4, LoopWakesStep, HandlerSucceedsStep, HandlerFailsStep, LoopSendAnsweredStep,
       LoopSendFailsStep DEF LoopStep
<1>5. CASE \E n \in Node : \E m \in Message : Redeliver(n, m)
    BY <1>5, RedeliverStep
<1>6. CASE \E n \in Node : Restart(n) \/ CrashInSave(n)
    BY <1>6, RebootStep
<1>7. CASE \E n \in Node : DetectorStep(n)
    BY <1>7, DetectorStepHolds
<1>8. CASE UNCHANGED vars
    BY <1>8, StutterStep
<1>. QED
    BY <1>1, <1>2, <1>3, <1>4, <1>5, <1>6, <1>7, <1>8 DEF Next

-----------------------------------------------------------------------------
(* Theorems *)

THEOREM InvHolds == Spec => []Inv
<1>1. Init => Inv
    BY InitHolds
<1>2. Inv /\ [Next]_vars => Inv'
    BY NextHolds
<1>. QED
    BY <1>1, <1>2, PTL DEF Spec

\* Every state of the queue is of the types that TypeOK says.
THEOREM QueueTypeOK == Spec => []TypeOK
BY InvHolds, InvTypes, PTL

\* Whatever is published, acknowledged, redelivered, restarted or lost: the
\* file of every node holds what a restart needs.
THEOREM FileIsAlwaysCurrent == Spec => []FileIsCurrent
<1>1. Inv => FileIsCurrent
    BY DEF Inv, StoresHold, StoreOK, Current, FileIsCurrent
<1>. QED
    BY <1>1, InvHolds, PTL

\* No order of checks, heartbeats and callbacks takes a live peer off the ring
\* for good.
THEOREM LiveNodesAlwaysStay == Spec => []LiveNodesStay
<1>1. Inv => LiveNodesStay
    BY DEF Inv, RestHolds, DetectorHolds, LiveNodesStay
<1>. QED
    BY <1>1, InvHolds, PTL

\* The copies of a queue keep the promise of DurableQueue: every step of the
\* queue is a step of it, or none.
THEOREM QueueIsDurable == Spec => ImplementsDurableQueue
<1>1. Init => Durable!Init
  <2>. SUFFICES ASSUME Init PROVE Durable!Init
      OBVIOUS
  <2>1. \A m \in Message : ~IsPending(EmptyStore, m)
      BY EmptyStoreHolds
  <2>2. store = [n \in Node |-> EmptyStore] /\ acked = [n \in Node |-> {}]
      BY DEF Init
  <2>3. \A n \in Node : {m \in Message : IsPending(store[n], m)} = {}
      BY <2>1, <2>2
  <2>. QED
      BY <2>2, <2>3 DEF Durable!Init
<1>2. Inv /\ [Next]_vars => [Durable!Next]_(Durable!vars)
    BY NextHolds DEF Promise
<1>. QED
    BY <1>1, <1>2, InvHolds, PTL DEF Spec, ImplementsDurableQueue, Durable!Spec

-----------------------------------------------------------------------------
(* What an acknowledgment settles *)

\* Nothing of a publish of m is under way.
Quiet(m) ==
    /\ \A i \in Call : calls[i] # NoCall => ~(calls[i].op = "publish" /\ calls[i].id = m)
    /\ \A r \in late : ~(r.op = "publish" /\ r.id = m)

Pend(n, m) == IsPending(store[n], m)

\* Where the publishes of m put it.
Targets(m) == UNION {NodesForKey(m, R, ReplicationFactor) : R \in rings[m]}

\* k, a call or the loop of a node, is acknowledging m, and whom it still asks.
Acks(k, m) ==
    IF k \in Call THEN calls[k] # NoCall /\ calls[k].op = "ack" /\ calls[k].id = m
    ELSE loop[k].stage = "acking" /\ InHand(k) = m

Remaining(k) == IF k \in Call THEN calls[k].todo ELSE loop[k].todo

\* The strengthening of SettledIsOver: copies are where a publish put them, and
\* while an acknowledgment that will settle m goes on, only where it still asks.
SettleInv ==
    /\ \A n \in Node, m \in Message : Pend(n, m) => n \in Targets(m)
    /\ \A i \in Call, m \in Message :
           calls[i] # NoCall /\ calls[i].op = "publish" /\ calls[i].id = m =>
               calls[i].todo \subseteq Targets(m)
    /\ \A r \in late : r.op = "publish" => r.to \in Targets(r.id)
    /\ \A k \in Call \cup Node, m \in Message : <<k, m>> \in settling =>
           Acks(k, m) /\ Quiet(m) /\ \A n \in Node : Pend(n, m) => n \in Remaining(k)
    /\ \A m \in settled : Quiet(m) /\ \A n \in Node : ~Pend(n, m)

\* A step that begins no publish: what comes to wait belongs to a publish under
\* way, and what comes to be settled is settled.
LEMMA OrdinaryStep ==
    ASSUME Inv, SettleInv, rings' = rings,
           \A n \in Node, m \in Message :
               Pend(n, m)' => Pend(n, m) \/ (~Quiet(m) /\ n \in Targets(m)),
           \A i \in Call : calls'[i] # NoCall /\ calls'[i].op = "publish" =>
               /\ calls[i] # NoCall /\ calls[i].op = "publish"
               /\ calls[i].id = calls'[i].id /\ calls'[i].todo \subseteq calls[i].todo,
           \A r \in late' : r.op = "publish" =>
               r \in late \/ (~Quiet(r.id) /\ r.to \in Targets(r.id)),
           \A k \in Call \cup Node, m \in Message : <<k, m>> \in settling' =>
               \/ <<k, m>> \in settling /\ Acks(k, m)' /\ Remaining(k)' = Remaining(k)
               \/ /\ Acks(k, m)' /\ Quiet(m)
                  /\ \A n \in Node : Pend(n, m)' => n \in Remaining(k)',
           \A m \in settled' : m \in settled \/ (Quiet(m) /\ \A n \in Node : ~Pend(n, m)'),
           settled' \subseteq Message
    PROVE  SettleInv'
<1>1. \A m : Targets(m)' = Targets(m)
    BY DEF Targets
<1>2. \A m : Quiet(m) => Quiet(m)'
    BY DEF Quiet
<1>3. \A n \in Node, m \in Message : Pend(n, m)' => n \in Targets(m)'
    BY <1>1 DEF SettleInv
<1>4. \A i \in Call, m \in Message :
          calls'[i] # NoCall /\ calls'[i].op = "publish" /\ calls'[i].id = m =>
              calls'[i].todo \subseteq Targets(m)'
  <2>1. SUFFICES ASSUME NEW i \in Call, NEW m \in Message, calls'[i] # NoCall,
                        calls'[i].op = "publish", calls'[i].id = m
                 PROVE  calls'[i].todo \subseteq Targets(m)
      BY <1>1
  <2>2. /\ calls[i] # NoCall /\ calls[i].op = "publish" /\ calls[i].id = m
        /\ calls'[i].todo \subseteq calls[i].todo
      BY <2>1
  <2>3. calls[i].todo \subseteq Targets(m)
      BY <2>2 DEF SettleInv
  <2>. QED
      BY <2>2, <2>3
<1>5. \A r \in late' : r.op = "publish" => r.to \in Targets(r.id)'
    BY <1>1 DEF SettleInv
<1>6. ASSUME NEW k \in Call \cup Node, NEW m \in Message, <<k, m>> \in settling'
      PROVE  Acks(k, m)' /\ Quiet(m)' /\ \A n \in Node : Pend(n, m)' => n \in Remaining(k)'
  <2>1. CASE <<k, m>> \in settling /\ Acks(k, m)' /\ Remaining(k)' = Remaining(k)
    <3>1. Quiet(m) /\ \A n \in Node : Pend(n, m) => n \in Remaining(k)
        BY <2>1 DEF SettleInv
    <3>. QED
        BY <1>2, <2>1, <3>1
  <2>2. CASE Acks(k, m)' /\ Quiet(m) /\ \A n \in Node : Pend(n, m)' => n \in Remaining(k)'
      BY <1>2, <2>2
  <2>. QED
      BY <1>6, <2>1, <2>2
<1>7. \A m \in settled' : Quiet(m)' /\ \A n \in Node : ~Pend(n, m)'
  <2>1. SUFFICES ASSUME NEW m \in settled'
                 PROVE  Quiet(m)' /\ \A n \in Node : ~Pend(n, m)'
      OBVIOUS
  <2>2. m \in Message
      OBVIOUS
  <2>3. CASE m \in settled
    <3>1. Quiet(m) /\ \A n \in Node : ~Pend(n, m)
        BY <2>3 DEF SettleInv
    <3>. QED
        BY <1>2, <2>2, <3>1
  <2>4. CASE m \notin settled
      BY <1>2, <2>4
  <2>. QED
      BY <2>3, <2>4
<1>. QED
    BY <1>3, <1>4, <1>5, <1>6, <1>7 DEF SettleInv

\* What a handler does to what waits.
LEMMA HandlePend ==
    ASSUME StoresHold, NEW op \in {"publish", "ack", "consume"}, NEW n \in Node, NEW m,
           op # "consume" => m \in Message, Handle(op, n, m)
    PROVE  /\ \A x \in Node, y \in Message :
                  Pend(x, y)' => Pend(x, y) \/ (op = "publish" /\ x = n /\ y = m)
           /\ op = "ack" => ~Pend(n, m)'
<1>1. StoreOK(store[n]) /\ store[n] \in Store
    BY DEF StoresHold
<1>2. CASE op = "consume"
    BY <1>2 DEF Handle, Pend
<1>3. CASE op = "publish"
  <2>1. m \in Message
      BY <1>3
  <2>2. store' = [store EXCEPT ![n] = PublishHere(store[n], m)]
      BY <1>3 DEF Handle
  <2>3. \A x \in Message : IsPending(PublishHere(store[n], m), x) => x = m \/ IsPending(store[n], x)
      BY <1>1, <2>1, AddHolds DEF PublishHere, StoreOK
  <2>4. \A x \in Node : store'[x] = IF x = n THEN PublishHere(store[n], m) ELSE store[x]
      BY <2>2 DEF StoresHold
  <2>. QED
      BY <1>3, <2>3, <2>4 DEF Pend
<1>4. CASE op = "ack"
  <2>1. m \in Message
      BY <1>4
  <2>2. store' = [store EXCEPT ![n] = AckMessage(store[n], m)]
      BY <1>4 DEF Handle
  <2>3. \A x \in Message : IsPending(AckMessage(store[n], m), x) <=> x # m /\ IsPending(store[n], x)
      BY <1>1, <2>1, AckHolds
  <2>4. \A x \in Node : store'[x] = IF x = n THEN AckMessage(store[n], m) ELSE store[x]
      BY <2>2 DEF StoresHold
  <2>. QED
      BY <1>4, <2>1, <2>3, <2>4 DEF Pend
<1>. QED
    BY <1>2, <1>3, <1>4

LEMMA AckHerePend ==
    ASSUME StoresHold, NEW n \in Node, NEW m \in Message, AckHere(n, m)
    PROVE  /\ \A x \in Node, y \in Message : Pend(x, y)' => Pend(x, y)
           /\ n \in ResponsibleNodes(n, m) => ~Pend(n, m)'
<1>1. CASE n \in ResponsibleNodes(n, m)
    BY <1>1, HandlePend DEF AckHere
<1>2. CASE n \notin ResponsibleNodes(n, m)
    BY <1>2 DEF AckHere, Pend
<1>. QED
    BY <1>1, <1>2

\* An ack that meets m as it was published is sent to all that may have it.
LEMMA UndisturbedAsksAll ==
    ASSUME Inv, SettleInv, NEW n \in Node, NEW m \in Message, Undisturbed(n, m)
    PROVE  Quiet(m) /\ \A x \in Node : Pend(x, m) => x \in ResponsibleNodes(n, m)
<1>1. Quiet(m)
    BY DEF Undisturbed, Quiet
<1>2. Targets(m) \subseteq ResponsibleNodes(n, m)
    BY DEF Undisturbed, Targets, ResponsibleNodes
<1>. QED
    BY <1>1, <1>2 DEF SettleInv

\* An acknowledgment goes on as it is where its call or loop does.
LEMMA AckGoesOn ==
    ASSUME SettleInv, NEW k \in Call \cup Node, NEW m \in Message, <<k, m>> \in settling,
           k \in Call => calls'[k] = calls[k], k \notin Call => loop'[k] = loop[k]
    PROVE  <<k, m>> \in settling /\ Acks(k, m)' /\ Remaining(k)' = Remaining(k)
<1>1. Acks(k, m)
    BY DEF SettleInv
<1>. QED
    BY <1>1 DEF Acks, Remaining, InHand

LEMMA ProgressSettles ==
    ASSUME Inv, NEW k, NEW m \in Message, NEW todo, NEW may, Progress(k, m, todo, may)
    PROVE  /\ \A x \in Call \cup Node, y \in Message : <<x, y>> \in settling' =>
                  \/ <<x, y>> \in settling /\ (x # k \/ y # m)
                  \/ x = k /\ y = m /\ may /\ todo # {}
           /\ \A y \in settled' : y \in settled \/ (y = m /\ may /\ todo = {})
           /\ settled' \subseteq Message
<1>1. settled \subseteq Message
    BY DEF Inv, RestHolds, HistoryHolds
<1>2. CASE may /\ todo # {}
    BY <1>1, <1>2 DEF Progress
<1>3. CASE ~(may /\ todo # {})
    BY <1>1, <1>3 DEF Progress
<1>. QED
    BY <1>2, <1>3

\* What is settled or settling stays so in steps that leave the senders alone.
LEMMA NobodySends ==
    ASSUME Inv, SettleInv, UNCHANGED <<calls, rings, settling, settled>>, late' \subseteq late,
           \A n \in Node : loop[n].stage = "acking" => loop'[n] = loop[n],
           \A n \in Node, m \in Message :
               Pend(n, m)' => Pend(n, m) \/ (~Quiet(m) /\ n \in Targets(m))
    PROVE  SettleInv'
<1>1. settled' \subseteq Message
    BY DEF Inv, RestHolds, HistoryHolds
<1>2. \A k \in Call \cup Node, m \in Message : <<k, m>> \in settling' =>
          <<k, m>> \in settling /\ Acks(k, m)' /\ Remaining(k)' = Remaining(k)
  <2>1. SUFFICES ASSUME NEW k \in Call \cup Node, NEW m \in Message, <<k, m>> \in settling
                 PROVE  <<k, m>> \in settling /\ Acks(k, m)' /\ Remaining(k)' = Remaining(k)
      OBVIOUS
  <2>2. k \notin Call => loop[k].stage = "acking"
      BY <2>1 DEF SettleInv, Acks
  <2>3. /\ k \in Call => calls'[k] = calls[k]
        /\ k \notin Call => loop'[k] = loop[k]
      BY <2>2
  <2>. QED
      BY <2>1, <2>3, AckGoesOn
<1>3. \A i \in Call : calls'[i] # NoCall /\ calls'[i].op = "publish" =>
          /\ calls[i] # NoCall /\ calls[i].op = "publish"
          /\ calls[i].id = calls'[i].id /\ calls'[i].todo \subseteq calls[i].todo
    OBVIOUS
<1>. QED
    BY <1>1, <1>2, <1>3, OrdinaryStep

\* A publish: what was settled or settling of the message is not any more.
LEMMA PublishSettles ==
    ASSUME Inv, SettleInv, NEW i \in Call, NEW n \in Node, NEW m \in Message, Publish(i, n, m)
    PROVE  SettleInv'
<1>. DEFINE call == [op |-> "publish", at |-> n, id |-> m, todo |-> TargetNodes(n, m) \ {n}]
<1>1. StoresHold /\ RestHolds /\ CallsHold /\ settled \subseteq Message
      /\ settling \subseteq (Call \cup Node) \X Message /\ rings \in [Message -> SUBSET SUBSET Node]
    BY DEF Inv, RestHolds, HistoryHolds
<1>2. /\ calls[i] = NoCall
      /\ calls' = [calls EXCEPT ![i] = IF call.todo = {} THEN NoCall ELSE call]
      /\ store' = IF n \in TargetNodes(n, m) THEN [store EXCEPT ![n] = Add(@, m)] ELSE store
      /\ rings' = [rings EXCEPT ![m] = @ \cup {ring[n]}]
      /\ settling' = {s \in settling : s[2] # m}
      /\ settled' = settled \ {m}
      /\ UNCHANGED <<loop, late>>
    BY DEF Publish, Begin
<1>3. call.op = "publish" /\ call.id = m /\ call.todo \subseteq TargetNodes(n, m)
    OBVIOUS
<1>. HIDE DEF call
<1>4. \A x \in Message : Targets(x) \subseteq Targets(x)'
    BY <1>1, <1>2 DEF Targets
<1>5. TargetNodes(n, m) \subseteq Targets(m)'
  <2>1. ring[n] \in rings'[m]
      BY <1>1, <1>2
  <2>. QED
      BY <2>1 DEF Targets, TargetNodes
<1>6. \A x \in Message \ {m} : Quiet(x) => Quiet(x)'
    BY <1>1, <1>2, <1>3 DEF Quiet, CallsHold
<1>7. \A x \in Node, y \in Message : Pend(x, y)' => Pend(x, y) \/ (y = m /\ x = n /\ n \in TargetNodes(n, m))
  <2>1. CASE n \in TargetNodes(n, m)
    <3>1. store[n] \in Store /\ QueueHolds(store[n])
        BY <1>1 DEF StoresHold, StoreOK
    <3>2. \A y \in Message : IsPending(Add(store[n], m), y) <=> y = m \/ IsPending(store[n], y)
        BY <3>1, AddHolds
    <3>3. \A x \in Node : store'[x] = IF x = n THEN Add(store[n], m) ELSE store[x]
        BY <1>1, <1>2, <2>1 DEF StoresHold
    <3>. QED
        BY <2>1, <3>2, <3>3 DEF Pend
  <2>2. CASE n \notin TargetNodes(n, m)
      BY <1>2, <2>2 DEF Pend
  <2>. QED
      BY <2>1, <2>2
<1>8. \A x \in Node, y \in Message : Pend(x, y)' => x \in Targets(y)'
    BY <1>4, <1>5, <1>7 DEF SettleInv
<1>9. \A j \in Call, y \in Message :
          calls'[j] # NoCall /\ calls'[j].op = "publish" /\ calls'[j].id = y =>
              calls'[j].todo \subseteq Targets(y)'
    BY <1>1, <1>2, <1>3, <1>4, <1>5 DEF SettleInv, CallsHold
<1>10. \A r \in late' : r.op = "publish" => r.to \in Targets(r.id)'
  <2>1. \A r \in late : r.op = "publish" => r.id \in Message
      BY <1>1 DEF RestHolds, LateHold
  <2>. QED
      BY <1>2, <1>4, <2>1 DEF SettleInv
<1>11. ASSUME NEW k \in Call \cup Node, NEW y \in Message, <<k, y>> \in settling'
       PROVE  Acks(k, y)' /\ Quiet(y)' /\ \A x \in Node : Pend(x, y)' => x \in Remaining(k)'
  <2>1. <<k, y>> \in settling /\ y # m
      BY <1>2, <1>11
  <2>2. Acks(k, y) /\ Quiet(y) /\ \A x \in Node : Pend(x, y) => x \in Remaining(k)
      BY <2>1 DEF SettleInv
  <2>3. k # i
      BY <1>2, <2>2 DEF Acks
  <2>4. k \in Call => calls'[k] = calls[k]
      BY <1>1, <1>2, <2>3 DEF CallsHold
  <2>5. Acks(k, y)' /\ Remaining(k)' = Remaining(k)
      BY <1>2, <2>1, <2>4, AckGoesOn
  <2>. QED
      BY <1>6, <1>7, <2>1, <2>2, <2>5
<1>12. \A y \in settled' : Quiet(y)' /\ \A x \in Node : ~Pend(x, y)'
    BY <1>1, <1>2, <1>6, <1>7 DEF SettleInv
<1>. QED
    BY <1>8, <1>9, <1>10, <1>11, <1>12 DEF SettleInv

LEMMA AckSettles ==
    ASSUME Inv, SettleInv, NEW i \in Call, NEW n \in Node, NEW m \in Message, Ack(i, n, m)
    PROVE  SettleInv'
<1>. DEFINE todo == ResponsibleNodes(n, m) \ {n}
            call == [op |-> "ack", at |-> n, id |-> m, todo |-> todo]
            may == Undisturbed(n, m)
<1>1. StoresHold /\ RestHolds /\ CallsHold
    BY DEF Inv, RestHolds
<1>2. /\ calls[i] = NoCall
      /\ calls' = [calls EXCEPT ![i] = IF todo = {} THEN NoCall ELSE call]
      /\ AckHere(n, m)
      /\ Progress(i, m, todo, may)
      /\ UNCHANGED <<loop, late, rings>>
    BY DEF Ack, Begin
<1>3. call.op = "ack" /\ call.id = m /\ call.todo = todo /\ call # NoCall
  <2>1. call.op = "ack" /\ NoCall.op = "none"
      BY DEF NoCall
  <2>. QED
      BY <2>1
<1>4. /\ \A x \in Node, y \in Message : Pend(x, y)' => Pend(x, y)
      /\ n \in ResponsibleNodes(n, m) => ~Pend(n, m)'
    BY <1>1, <1>2, AckHerePend
<1>5. may => Quiet(m) /\ \A x \in Node : Pend(x, m)' => x \in todo
    BY <1>4, UndisturbedAsksAll
<1>. HIDE DEF todo, call, may
<1>6. \A j \in Call : calls'[j] = IF j = i THEN (IF todo = {} THEN NoCall ELSE call) ELSE calls[j]
    BY <1>1, <1>2 DEF CallsHold
<1>7. \A j \in Call : calls'[j] # NoCall /\ calls'[j].op = "publish" =>
          /\ calls[j] # NoCall /\ calls[j].op = "publish"
          /\ calls[j].id = calls'[j].id /\ calls'[j].todo \subseteq calls[j].todo
    BY <1>3, <1>6
<1>8. /\ \A x \in Call \cup Node, y \in Message : <<x, y>> \in settling' =>
              \/ <<x, y>> \in settling /\ (x # i \/ y # m)
              \/ x = i /\ y = m /\ may /\ todo # {}
      /\ \A y \in settled' : y \in settled \/ (y = m /\ may /\ todo = {})
      /\ settled' \subseteq Message
    BY <1>2, ProgressSettles
<1>9. ASSUME NEW k \in Call \cup Node, NEW y \in Message, <<k, y>> \in settling'
      PROVE  \/ <<k, y>> \in settling /\ Acks(k, y)' /\ Remaining(k)' = Remaining(k)
             \/ /\ Acks(k, y)' /\ Quiet(y)
                /\ \A x \in Node : Pend(x, y)' => x \in Remaining(k)'
  <2>1. \/ <<k, y>> \in settling /\ (k # i \/ y # m)
        \/ k = i /\ y = m /\ may /\ todo # {}
      BY <1>9, <1>8
  <2>2. CASE <<k, y>> \in settling
    <3>1. Acks(k, y)
        BY <2>2 DEF SettleInv
    <3>2. k # i
        BY <1>2, <3>1 DEF Acks
    <3>3. k \in Call => calls'[k] = calls[k]
        BY <1>6, <3>2
    <3>. QED
        BY <1>2, <2>2, <3>3, AckGoesOn
  <2>3. CASE k = i /\ y = m /\ may /\ todo # {}
    <3>1. calls'[k] = call
        BY <1>6, <2>3
    <3>2. Acks(k, y)' /\ Remaining(k)' = todo
        BY <1>3, <2>3, <3>1 DEF Acks, Remaining
    <3>. QED
        BY <1>5, <2>3, <3>2
  <2>. QED
      BY <2>1, <2>2, <2>3
<1>10. \A y \in settled' : y \in settled \/ (Quiet(y) /\ \A x \in Node : ~Pend(x, y)')
    BY <1>5, <1>8 DEF Pend, Quiet
<1>11. \A r \in late' : r.op = "publish" => r \in late
    BY <1>2
<1>12. /\ \A x \in Node, y \in Message :
               Pend(x, y)' => Pend(x, y) \/ (~Quiet(y) /\ x \in Targets(y))
       /\ settled' \subseteq Message
       /\ rings' = rings
    BY <1>2, <1>4, <1>8
<1>. QED
    BY <1>7, <1>9, <1>10, <1>11, <1>12, OrdinaryStep

LEMMA ConsumeSettles ==
    ASSUME Inv, SettleInv, NEW i \in Call, NEW n \in Node, Consume(i, n)
    PROVE  SettleInv'
<1>. DEFINE call == [op |-> "consume", at |-> n, id |-> QueueName,
                     todo |-> {NodeForKey(QueueName, ring[n])} \ {n}]
<1>1. CallsHold /\ settled \subseteq Message
    BY DEF Inv, RestHolds, HistoryHolds
<1>2. /\ calls[i] = NoCall
      /\ calls' = [calls EXCEPT ![i] = IF call.todo = {} THEN NoCall ELSE call]
      /\ UNCHANGED <<store, loop, late, rings, settling, settled>>
    BY DEF Consume, Begin, history
<1>3. call.op = "consume"
    OBVIOUS
<1>. HIDE DEF call
<1>4. \A j \in Call : j # i => calls'[j] = calls[j]
    BY <1>1, <1>2 DEF CallsHold
<1>5. calls'[i] = NoCall \/ calls'[i].op = "consume"
    BY <1>1, <1>2, <1>3 DEF CallsHold
<1>6. \A j \in Call : calls'[j] # NoCall /\ calls'[j].op = "publish" =>
          /\ calls[j] # NoCall /\ calls[j].op = "publish"
          /\ calls[j].id = calls'[j].id /\ calls'[j].todo \subseteq calls[j].todo
    BY <1>4, <1>5
<1>7. ASSUME NEW k \in Call \cup Node, NEW y \in Message, <<k, y>> \in settling'
      PROVE  <<k, y>> \in settling /\ Acks(k, y)' /\ Remaining(k)' = Remaining(k)
  <2>1. <<k, y>> \in settling
      BY <1>2, <1>7
  <2>2. Acks(k, y)
      BY <2>1 DEF SettleInv
  <2>3. k # i
      BY <1>2, <2>2 DEF Acks
  <2>4. k \in Call => calls'[k] = calls[k]
      BY <1>4, <2>3
  <2>. QED
      BY <1>2, <2>1, <2>4, AckGoesOn
<1>8. \A x \in Node, y \in Message : Pend(x, y)' => Pend(x, y)
    BY <1>2 DEF Pend
<1>. QED
    BY <1>1, <1>2, <1>6, <1>7, <1>8, OrdinaryStep

LEMMA SendSettles ==
    ASSUME Inv, SettleInv, NEW i \in Call, SendAnswered(i) \/ SendFails(i)
    PROVE  SettleInv'
<1>1. PICK c, n : c = calls[i] /\ n = Nearest(c.id, c.todo)
    OBVIOUS
<1>. DEFINE todo == c.todo \ {n}
            d == IF todo = {} THEN NoCall ELSE [c EXCEPT !.todo = todo]
            may == SendAnswered(i) /\ <<i, c.id>> \in settling
<1>2. /\ c # NoCall /\ calls' = [calls EXCEPT ![i] = d]
      /\ rings' = rings
      /\ loop' = loop \/ c.op = "ack"
    BY <1>1 DEF SendAnswered, SendFails, Sent, queues
<1>3. StoresHold /\ CallsHold /\ settled \subseteq Message
    BY DEF Inv, RestHolds, HistoryHolds
<1>4. /\ c \in CallRecord /\ c.op \in {"publish", "ack", "consume"} /\ c.id \in Key
      /\ c.op # "consume" => c.id \in Message
      /\ c.todo \in SUBSET Node /\ n \in Node
    BY <1>1, <1>2, <1>3, CallFields
<1>5. n \in c.todo
  <2>1. c.todo # {}
      BY <1>1, <1>2, <1>3 DEF CallsHold
  <2>. QED
      BY <1>1, <1>4, <2>1, NearestExists
<1>6. todo # {} => d # NoCall /\ d.op = c.op /\ d.id = c.id /\ d.todo = todo
  <2>. DEFINE e == [c EXCEPT !.todo = todo]
  <2>1. e.op = c.op /\ e.id = c.id /\ e.todo = todo
    <3>. HIDE DEF todo
    <3>. QED
        BY <1>4 DEF CallRecord
  <2>2. NoCall.op = "none"
      BY DEF NoCall
  <2>. HIDE DEF e, todo
  <2>3. e # NoCall
      BY <1>4, <2>1, <2>2
  <2>. QED
      BY <2>1, <2>3 DEF e
<1>7. todo = {} => d = NoCall
    OBVIOUS
<1>8. /\ \A k \in Call : k # i => calls'[k] = calls[k]
      /\ calls'[i] = d
    BY <1>2, <1>3 DEF CallsHold
<1>9. c.op = "publish" => ~Quiet(c.id) /\ c.todo \subseteq Targets(c.id)
    BY <1>1, <1>2, <1>4 DEF Quiet, SettleInv
<1>10. /\ \A x \in Node, y \in Message :
              Pend(x, y)' => Pend(x, y) \/ (c.op = "publish" /\ x = n /\ y = c.id)
       /\ SendAnswered(i) /\ c.op = "ack" => ~Pend(n, c.id)'
  <2>1. CASE SendAnswered(i)
    <3>1. Handle(c.op, n, c.id)
        BY <1>1, <2>1 DEF SendAnswered
    <3>. QED
        BY <1>3, <1>4, <3>1, HandlePend
  <2>2. CASE SendFails(i) /\ ~SendAnswered(i)
      BY <2>2 DEF SendFails, queues, Pend
  <2>. QED
      BY <2>1, <2>2
<1>11. \A r \in late' : r.op = "publish" =>
           r \in late \/ (c.op = "publish" /\ r.id = c.id /\ r.to = n)
  <2>1. CASE SendAnswered(i)
      BY <2>1 DEF SendAnswered
  <2>2. CASE SendFails(i)
    <3>1. late' \in {late, late \cup {[op |-> c.op, to |-> n, id |-> c.id,
                                       nr |-> faults]}}
        BY <1>1, <2>2 DEF SendFails, GiveUp
    <3>. QED
        BY <3>1
  <2>. QED
      BY <2>1, <2>2
<1>12. \A j \in Call : calls'[j] # NoCall /\ calls'[j].op = "publish" =>
           /\ calls[j] # NoCall /\ calls[j].op = "publish"
           /\ calls[j].id = calls'[j].id /\ calls'[j].todo \subseteq calls[j].todo
  <2>1. calls'[i] # NoCall => /\ calls'[i].op = c.op /\ calls'[i].id = c.id
                              /\ calls'[i].todo \subseteq c.todo
      BY <1>6, <1>7, <1>8
  <2>. HIDE DEF d
  <2>. QED
      BY <1>1, <1>2, <1>8, <2>1
<1>. HIDE DEF d
<1>13. CASE c.op # "ack"
  <2>1. UNCHANGED <<settling, settled, loop>>
      BY <1>1, <1>13 DEF SendAnswered, SendFails, Sent, queues
  <2>2. ASSUME NEW k \in Call \cup Node, NEW m \in Message, <<k, m>> \in settling'
        PROVE  <<k, m>> \in settling /\ Acks(k, m)' /\ Remaining(k)' = Remaining(k)
    <3>1. <<k, m>> \in settling
        BY <2>1, <2>2
    <3>2. Acks(k, m)
        BY <3>1 DEF SettleInv
    <3>3. k # i
        BY <1>1, <1>13, <3>2 DEF Acks
    <3>4. k \in Call => calls'[k] = calls[k]
        BY <1>8, <3>3
    <3>. QED
        BY <2>1, <3>1, <3>4, AckGoesOn
  <2>3. \A x \in Node, m \in Message :
            Pend(x, m)' => Pend(x, m) \/ (~Quiet(m) /\ x \in Targets(m))
      BY <1>5, <1>9, <1>10
  <2>4. \A r \in late' : r.op = "publish" =>
            r \in late \/ (~Quiet(r.id) /\ r.to \in Targets(r.id))
      BY <1>5, <1>9, <1>11
  <2>. QED
      BY <1>2, <1>3, <1>12, <2>1, <2>2, <2>3, <2>4, OrdinaryStep
<1>14. CASE c.op = "ack"
  <2>1. Progress(i, c.id, todo, may) /\ loop' = loop
    <3>1. CASE SendAnswered(i)
        BY <1>1, <1>14, <3>1 DEF SendAnswered, Sent
    <3>2. CASE SendFails(i) /\ ~SendAnswered(i)
        BY <1>1, <1>14, <3>2 DEF SendFails, Sent, Progress, queues
    <3>. QED
        BY <3>1, <3>2
  <2>2. c.id \in Message
      BY <1>4, <1>14
  <2>3. may => Quiet(c.id) /\ \A x \in Node : Pend(x, c.id)' => x \in todo
    <3>1. SUFFICES ASSUME may, NEW x \in Node, Pend(x, c.id)'
                   PROVE  x \in todo
      <4>1. may => Quiet(c.id)
          BY <2>2 DEF SettleInv
      <4>. QED
          BY <4>1
    <3>2. Pend(x, c.id) => x \in Remaining(i)
        BY <2>2, <3>1 DEF SettleInv
    <3>3. Remaining(i) = c.todo
        BY <1>1 DEF Remaining
    <3>4. Pend(x, c.id)
        BY <1>10, <1>14, <2>2, <3>1
    <3>5. x # n
        BY <1>10, <1>14, <3>1 DEF Pend
    <3>. QED
        BY <3>2, <3>3, <3>4, <3>5
  <2>. HIDE DEF may, todo
  <2>4. /\ \A x \in Call \cup Node, y \in Message : <<x, y>> \in settling' =>
               \/ <<x, y>> \in settling /\ (x # i \/ y # c.id)
               \/ x = i /\ y = c.id /\ may /\ todo # {}
        /\ \A y \in settled' : y \in settled \/ (y = c.id /\ may /\ todo = {})
        /\ settled' \subseteq Message
      BY <2>1, <2>2, ProgressSettles
  <2>5. ASSUME NEW k \in Call \cup Node, NEW m \in Message, <<k, m>> \in settling'
        PROVE  \/ <<k, m>> \in settling /\ Acks(k, m)' /\ Remaining(k)' = Remaining(k)
               \/ /\ Acks(k, m)' /\ Quiet(m)
                  /\ \A x \in Node : Pend(x, m)' => x \in Remaining(k)'
    <3>1. \/ <<k, m>> \in settling /\ (k # i \/ m # c.id)
          \/ k = i /\ m = c.id /\ may /\ todo # {}
        BY <2>4, <2>5
    <3>2. CASE <<k, m>> \in settling /\ (k # i \/ m # c.id)
      <4>1. Acks(k, m)
          BY <3>2 DEF SettleInv
      <4>2. k # i
          BY <1>1, <3>2, <4>1 DEF Acks
      <4>3. k \in Call => calls'[k] = calls[k]
          BY <1>8, <4>2
      <4>. QED
          BY <2>1, <3>2, <4>3, AckGoesOn
    <3>3. CASE k = i /\ m = c.id /\ may /\ todo # {}
      <4>1. /\ calls'[k] # NoCall /\ calls'[k].op = "ack" /\ calls'[k].id = m
            /\ calls'[k].todo = todo
          BY <1>6, <1>8, <1>14, <3>3 DEF todo
      <4>2. Acks(k, m)' /\ Remaining(k)' = todo
          BY <3>3, <4>1 DEF Acks, Remaining
      <4>3. Quiet(m)
          BY <2>3, <3>3
      <4>4. \A x \in Node : Pend(x, m)' => x \in todo
          BY <2>3, <3>3 DEF Pend
      <4>. QED
          BY <4>2, <4>3, <4>4
    <3>. QED
        BY <3>1, <3>2, <3>3
  <2>6. \A y \in settled' : y \in settled \/ (Quiet(y) /\ \A x \in Node : ~Pend(x, y)')
      BY <2>3, <2>4 DEF Pend, Quiet
  <2>7. \A x \in Node, m \in Message :
            Pend(x, m)' => Pend(x, m) \/ (~Quiet(m) /\ x \in Targets(m))
      BY <1>10, <1>14
  <2>8. \A r \in late' : r.op = "publish" =>
            r \in late \/ (~Quiet(r.id) /\ r.to \in Targets(r.id))
      BY <1>11, <1>14
  <2>. QED
      BY <1>2, <1>12, <2>4, <2>5, <2>6, <2>7, <2>8, OrdinaryStep
<1>. QED
    BY <1>13, <1>14

LEMMA HandleLateSettles ==
    ASSUME Inv, SettleInv, NEW r \in late, HandleLate(r)
    PROVE  SettleInv'
<1>1. StoresHold /\ LateHold
    BY DEF Inv, RestHolds
<1>2. /\ late' = late \ {r} /\ Handle(r.op, r.to, r.id)
      /\ UNCHANGED <<loop, calls, rings, settling, settled>>
    BY DEF HandleLate
<1>3. /\ r.to \in Node /\ r.op \in {"publish", "ack", "consume"}
      /\ r.op # "consume" => r.id \in Message
    BY <1>1 DEF LateHold, Request
<1>4. \A x \in Node, y \in Message :
          Pend(x, y)' => Pend(x, y) \/ (r.op = "publish" /\ x = r.to /\ y = r.id)
    BY <1>1, <1>2, <1>3, HandlePend
<1>5. r.op = "publish" => ~Quiet(r.id) /\ r.to \in Targets(r.id)
    BY DEF Quiet, SettleInv
<1>6. \A x \in Node, m \in Message :
          Pend(x, m)' => Pend(x, m) \/ (~Quiet(m) /\ x \in Targets(m))
    BY <1>4, <1>5
<1>7. late' \subseteq late
    BY <1>2
<1>. QED
    BY <1>2, <1>6, <1>7, NobodySends

\* The steps of the consumer loop in which nothing is acknowledged.
LEMMA LoopGoesOnSettles ==
    ASSUME Inv, SettleInv, NEW n \in Node, LoopWakes(n) \/ HandlerFails(n)
    PROVE  SettleInv'
<1>1. LoopHold
    BY DEF Inv, RestHolds
<1>2. loop[n].stage # "acking" /\ \A p \in Node : p # n => loop'[p] = loop[p]
    BY <1>1 DEF LoopWakes, HandlerFails, GoOn, LoopHold
<1>3. UNCHANGED <<store, calls, late, rings, settling, settled>>
    BY DEF LoopWakes, HandlerFails, history
<1>4. \A x \in Node, m \in Message : Pend(x, m)' => Pend(x, m)
    BY <1>3 DEF Pend
<1>. QED
    BY <1>2, <1>3, <1>4, NobodySends

\* A step in which the loop at n acknowledges m, with `todo` left to ask: `may`
\* is whether it will settle m.
LEMMA LoopAckSettles ==
    ASSUME Inv, SettleInv, NEW n \in Node, NEW m \in Message, NEW todo \in SUBSET Node,
           NEW flight, NEW may,
           \A y \in Message : <<n, y>> \in settling => y = m,
           LoopAcks(n, todo, flight), todo # {} => InHand(n) = m,
           Progress(n, m, todo, may),
           may => Quiet(m) /\ \A x \in Node : Pend(x, m)' => x \in todo,
           \A x \in Node, y \in Message : Pend(x, y)' => Pend(x, y),
           \A r \in late' : r.op = "publish" => r \in late,
           UNCHANGED <<calls, rings>>
    PROVE  SettleInv'
<1>1. LoopHold /\ n \notin Call
    BY CallAssumption DEF Inv, RestHolds
<1>2. \A p \in Node : p # n => loop'[p] = loop[p]
    BY <1>1 DEF LoopAcks, GoOn, LoopHold
<1>3. todo # {} => loop'[n].stage = "acking" /\ loop'[n].todo = todo /\ loop'[n].rest = loop[n].rest
  <2>. DEFINE l == [loop[n] EXCEPT !.stage = "acking", !.todo = todo]
  <2>1. loop[n] \in LoopRecord
      BY <1>1 DEF LoopHold
  <2>2. l.stage = "acking" /\ l.todo = todo /\ l.rest = loop[n].rest
      BY <2>1 DEF LoopRecord
  <2>3. todo # {} => loop' = [loop EXCEPT ![n] = l]
      BY <1>1 DEF LoopAcks, LoopHold
  <2>. HIDE DEF l
  <2>. QED
      BY <1>1, <2>2, <2>3 DEF LoopHold
<1>4. /\ \A x \in Call \cup Node, y \in Message : <<x, y>> \in settling' =>
             \/ <<x, y>> \in settling /\ (x # n \/ y # m)
             \/ x = n /\ y = m /\ may /\ todo # {}
      /\ \A y \in settled' : y \in settled \/ (y = m /\ may /\ todo = {})
      /\ settled' \subseteq Message
    BY ProgressSettles
<1>5. ASSUME NEW k \in Call \cup Node, NEW y \in Message, <<k, y>> \in settling'
      PROVE  \/ <<k, y>> \in settling /\ Acks(k, y)' /\ Remaining(k)' = Remaining(k)
             \/ /\ Acks(k, y)' /\ Quiet(y)
                /\ \A x \in Node : Pend(x, y)' => x \in Remaining(k)'
  <2>1. \/ <<k, y>> \in settling /\ (k # n \/ y # m)
        \/ k = n /\ y = m /\ may /\ todo # {}
      BY <1>4, <1>5
  <2>2. CASE <<k, y>> \in settling /\ (k # n \/ y # m)
    <3>1. k # n
        BY <2>2
    <3>2. k \notin Call => loop'[k] = loop[k]
        BY <1>2, <3>1
    <3>. QED
        BY <2>2, <3>2, AckGoesOn
  <2>3. CASE k = n /\ y = m /\ may /\ todo # {}
    <3>1. Acks(k, y)' /\ Remaining(k)' = todo
        BY <1>1, <1>3, <2>3 DEF Acks, Remaining, InHand
    <3>2. Quiet(y) /\ \A x \in Node : Pend(x, y)' => x \in todo
        BY <2>3 DEF Pend
    <3>. QED
        BY <3>1, <3>2
  <2>. QED
      BY <2>1, <2>2, <2>3
<1>6. \A y \in settled' : y \in settled \/ (Quiet(y) /\ \A x \in Node : ~Pend(x, y)')
    BY <1>4 DEF Pend, Quiet
<1>7. \A i \in Call : calls'[i] # NoCall /\ calls'[i].op = "publish" =>
          /\ calls[i] # NoCall /\ calls[i].op = "publish"
          /\ calls[i].id = calls'[i].id /\ calls'[i].todo \subseteq calls[i].todo
    OBVIOUS
<1>. QED
    BY <1>4, <1>5, <1>6, <1>7, OrdinaryStep

LEMMA HandlerSucceedsSettles ==
    ASSUME Inv, SettleInv, NEW n \in Node, HandlerSucceeds(n)
    PROVE  SettleInv'
<1>1. PICK m, todo : m = InHand(n) /\ todo = ResponsibleNodes(n, m) \ {n}
    OBVIOUS
<1>2. StoresHold /\ LoopHold /\ DetectorHolds /\ n \notin Call
    BY CallAssumption DEF Inv, RestHolds
<1>3. /\ loop[n].stage = "handling" /\ AckHere(n, m)
      /\ LoopAcks(n, todo, InFlightAfterAck(n, m))
      /\ Progress(n, m, todo, Undisturbed(n, m))
      /\ UNCHANGED <<calls, late, rings>>
    BY <1>1 DEF HandlerSucceeds
<1>4. m \in Message /\ todo \in SUBSET Node
    BY <1>1, <1>2, <1>3, InHandType, NodesForKeyType
<1>5. \A y \in Message : <<n, y>> \notin settling
    BY <1>2, <1>3 DEF SettleInv, Acks
<1>6. /\ \A x \in Node, y \in Message : Pend(x, y)' => Pend(x, y)
      /\ n \in ResponsibleNodes(n, m) => ~Pend(n, m)'
    BY <1>2, <1>3, <1>4, AckHerePend
<1>7. Undisturbed(n, m) => Quiet(m) /\ \A x \in Node : Pend(x, m)' => x \in todo
  <2>1. SUFFICES ASSUME Undisturbed(n, m)
                 PROVE  Quiet(m) /\ \A x \in Node : Pend(x, m)' => x \in todo
      OBVIOUS
  <2>2. Quiet(m) /\ \A x \in Node : Pend(x, m) => x \in ResponsibleNodes(n, m)
      BY <1>4, <2>1, UndisturbedAsksAll
  <2>. QED
      BY <1>1, <1>4, <1>6, <2>2 DEF Pend
<1>. QED
    BY <1>1, <1>3, <1>4, <1>5, <1>6, <1>7, LoopAckSettles

LEMMA LoopSendSettles ==
    ASSUME Inv, SettleInv, NEW n \in Node, LoopSendAnswered(n) \/ LoopSendFails(n)
    PROVE  SettleInv'
<1>1. PICK m, p, todo : /\ m = InHand(n) /\ p = Nearest(m, loop[n].todo)
                        /\ todo = loop[n].todo \ {p}
    OBVIOUS
<1>. DEFINE may == LoopSendAnswered(n) /\ <<n, m>> \in settling
<1>2. StoresHold /\ LoopHold /\ n \notin Call
    BY CallAssumption DEF Inv, RestHolds
<1>3. loop[n].stage = "acking"
    BY DEF LoopSendAnswered, LoopSendFails
<1>4. m \in Message /\ p \in Node /\ todo \in SUBSET Node
    BY <1>1, <1>2, <1>3, LoopPeer, InHandType
<1>5. \E flight : LoopAcks(n, todo, flight) /\ Progress(n, m, todo, may)
  <2>1. CASE LoopSendAnswered(n)
      BY <1>1, <2>1 DEF LoopSendAnswered, LoopSent
  <2>2. CASE LoopSendFails(n) /\ ~LoopSendAnswered(n)
      BY <1>1, <2>2 DEF LoopSendFails, LoopSent, Progress
  <2>. QED
      BY <2>1, <2>2
<1>6. PICK flight : LoopAcks(n, todo, flight) /\ Progress(n, m, todo, may)
    BY <1>5
<1>7. UNCHANGED <<calls, rings>>
    BY DEF LoopSendAnswered, LoopSendFails, LoopSent
<1>8. /\ \A x \in Node, y \in Message : Pend(x, y)' => Pend(x, y)
      /\ LoopSendAnswered(n) => ~Pend(p, m)'
  <2>1. CASE LoopSendAnswered(n)
    <3>1. Handle("ack", p, m)
        BY <1>1, <2>1 DEF LoopSendAnswered
    <3>. QED
        BY <1>2, <1>4, <3>1, HandlePend
  <2>2. CASE LoopSendFails(n) /\ ~LoopSendAnswered(n)
      BY <2>2 DEF LoopSendFails, Pend
  <2>. QED
      BY <2>1, <2>2
<1>9. may => Quiet(m) /\ \A x \in Node : Pend(x, m)' => x \in todo
  <2>1. SUFFICES ASSUME may
                 PROVE  Quiet(m) /\ \A x \in Node : Pend(x, m)' => x \in todo
      OBVIOUS
  <2>2. Quiet(m) /\ \A x \in Node : Pend(x, m) => x \in Remaining(n)
      BY <1>4, <2>1 DEF SettleInv
  <2>3. Remaining(n) = loop[n].todo
      BY <1>2 DEF Remaining
  <2>. QED
      BY <1>1, <1>4, <1>8, <2>1, <2>2, <2>3 DEF Pend
<1>10. \A y \in Message : <<n, y>> \in settling => y = m
    BY <1>1, <1>2 DEF SettleInv, Acks
<1>11. \A r \in late' : r.op = "publish" => r \in late
  <2>1. CASE LoopSendAnswered(n)
      BY <2>1 DEF LoopSendAnswered
  <2>2. CASE LoopSendFails(n)
    <3>1. late' \in {late, late \cup {[op |-> "ack", to |-> p, id |-> m,
                                       nr |-> faults]}}
        BY <1>1, <2>2 DEF LoopSendFails, GiveUp
    <3>. QED
        BY <3>1
  <2>. QED
      BY <2>1, <2>2
<1>. HIDE DEF may
<1>. QED
    BY <1>1, <1>4, <1>6, <1>7, <1>8, <1>9, <1>10, <1>11, LoopAckSettles

LEMMA RedeliverSettles ==
    ASSUME Inv, SettleInv, NEW n \in Node, NEW m \in Message, Redeliver(n, m)
    PROVE  SettleInv'
<1>1. StoresHold
    BY DEF Inv
<1>2. /\ store' = [store EXCEPT ![n] = Nack(@, m)]
      /\ UNCHANGED <<loop, calls, late, rings, settling, settled>>
    BY DEF Redeliver, history
<1>3. \A x \in Node : store'[x].messages = store[x].messages
    BY <1>1, <1>2, NackHolds DEF StoresHold
<1>4. \A x \in Node, y \in Message : Pend(x, y)' => Pend(x, y)
    BY <1>3 DEF Pend, IsPending
<1>. QED
    BY <1>2, <1>4, NobodySends

LEMMA RebootSettles ==
    ASSUME Inv, SettleInv, NEW n \in Node, Restart(n) \/ CrashInSave(n)
    PROVE  SettleInv'
<1>1. PICK here : here = {i \in Call : calls[i] # NoCall /\ calls[i].at = n}
    OBVIOUS
<1>2. StoresHold /\ LoopHold /\ CallsHold /\ settled \subseteq Message
    BY DEF Inv, RestHolds, HistoryHolds
<1>3. /\ loop' = [loop EXCEPT ![n] = Asleep]
      /\ calls' = [i \in Call |-> IF i \in here THEN NoCall ELSE calls[i]]
      /\ settling' = {s \in settling : s[1] \notin here \cup {n}}
      /\ UNCHANGED <<late, rings, settled>>
    BY <1>1 DEF Restart, CrashInSave, Reboot
<1>4. \A x \in Node, y \in Message : Pend(x, y)' => Pend(x, y)
  <2>1. StoreOK(store[n])
      BY <1>2 DEF StoresHold
  <2>2. CASE Restart(n)
    <3>1. store' = [store EXCEPT ![n] = Load(store[n].file)]
        BY <2>2 DEF Restart, Reboot
    <3>2. \A y \in Message : IsPending(Load(store[n].file), y) => IsPending(store[n], y)
        BY <2>1, LoadOwnFile
    <3>. QED
        BY <1>2, <3>1, <3>2 DEF Pend, StoresHold
  <2>3. CASE CrashInSave(n)
    <3>1. store' = [store EXCEPT ![n] = Load(Torn)]
        BY <2>3 DEF CrashInSave, Reboot
    <3>. QED
        BY <1>2, <3>1, LoadTorn DEF Pend, StoresHold
  <2>. QED
      BY <2>2, <2>3
<1>5. ASSUME NEW k \in Call \cup Node, NEW m \in Message, <<k, m>> \in settling'
      PROVE  <<k, m>> \in settling /\ Acks(k, m)' /\ Remaining(k)' = Remaining(k)
  <2>1. <<k, m>> \in settling /\ k \notin here /\ k # n
      BY <1>3, <1>5
  <2>2. /\ k \in Call => calls'[k] = calls[k]
        /\ k \notin Call => loop'[k] = loop[k]
      BY <1>2, <1>3, <2>1 DEF LoopHold
  <2>. QED
      BY <2>1, <2>2, AckGoesOn
<1>6. \A i \in Call : calls'[i] # NoCall /\ calls'[i].op = "publish" =>
          /\ calls[i] # NoCall /\ calls[i].op = "publish"
          /\ calls[i].id = calls'[i].id /\ calls'[i].todo \subseteq calls[i].todo
  <2>1. \A i \in Call : calls'[i] # NoCall => calls'[i] = calls[i]
      BY <1>3
  <2>. QED
      BY <2>1
<1>. QED
    BY <1>2, <1>3, <1>4, <1>5, <1>6, OrdinaryStep

LEMMA OtherSettles ==
    ASSUME Inv, SettleInv, (\E n \in Node : DetectorStep(n)) \/ UNCHANGED vars
    PROVE  SettleInv'
<1>1. UNCHANGED <<store, loop, calls, late, rings, settling, settled>>
    BY DEF DetectorStep, vars, queues, history
<1>2. \A x \in Node, y \in Message : Pend(x, y)' => Pend(x, y)
    BY <1>1 DEF Pend
<1>. QED
    BY <1>1, <1>2, NobodySends

LEMMA NextSettles == Inv /\ SettleInv /\ [Next]_vars => SettleInv'
<1>. SUFFICES ASSUME Inv, SettleInv, [Next]_vars
              PROVE  SettleInv'
    OBVIOUS
<1>1. CASE ClientStep
    BY <1>1, ConsumerAssumption, PublishSettles, AckSettles, ConsumeSettles DEF ClientStep
<1>2. CASE \E i \in Call : SendStep(i)
    BY <1>2, SendSettles DEF SendStep
<1>3. CASE \E r \in late : HandleLate(r)
    BY <1>3, HandleLateSettles
<1>4. CASE \E n \in Node : LoopStep(n)
    BY <1>4, LoopGoesOnSettles, HandlerSucceedsSettles, LoopSendSettles DEF LoopStep
<1>5. CASE \E n \in Node : \E m \in Message : Redeliver(n, m)
    BY <1>5, RedeliverSettles
<1>6. CASE \E n \in Node : Restart(n) \/ CrashInSave(n)
    BY <1>6, RebootSettles
<1>7. CASE (\E n \in Node : DetectorStep(n)) \/ UNCHANGED vars
    BY <1>7, OtherSettles
<1>. QED
    BY <1>1, <1>2, <1>3, <1>4, <1>5, <1>6, <1>7 DEF Next

-----------------------------------------------------------------------------
(* What is taken from a store *)

\* Of a message that does not wait at n the step takes no copy there: what is in
\* the list of a pass, or in flight, was there or in the list before.
NotTaken(n, m) ==
    /\ m \in Range(loop'[n].rest) => m \in Range(loop[n].rest)
    /\ m \in in_flight'[n] => m \in in_flight[n] \cup Range(loop[n].rest)

LEMMA RangeOfPart ==
    ASSUME NEW S, NEW s \in Seq(S), NEW i \in 1 .. Len(s) + 1, NEW j \in 0 .. Len(s), i <= j + 1
    PROVE  Range(SubSeq(s, i, j)) \subseteq Range(s)
<1>1. Len(s) \in Nat /\ DOMAIN s = 1 .. Len(s)
    BY LenProperties
<1>2. \A k \in i .. j : s[k] \in S
    BY <1>1, ElementOfSeq
<1>3. /\ SubSeq(s, i, j) \in Seq(S)
      /\ Len(SubSeq(s, i, j)) = IF i <= j THEN j - i + 1 ELSE 0
      /\ i <= j => \A k \in 1 .. j - i + 1 : SubSeq(s, i, j)[k] = s[i + k - 1]
    BY <1>1, <1>2, SubSeqProperties
<1>4. DOMAIN SubSeq(s, i, j) = 1 .. Len(SubSeq(s, i, j))
    BY <1>3, LenProperties
<1>5. ASSUME NEW k \in DOMAIN SubSeq(s, i, j)
      PROVE  \E l \in DOMAIN s : SubSeq(s, i, j)[k] = s[l]
  <2>1. i <= j /\ k \in 1 .. j - i + 1
      BY <1>1, <1>3, <1>4, <1>5
  <2>2. i + k - 1 \in DOMAIN s /\ SubSeq(s, i, j)[k] = s[i + k - 1]
      BY <1>1, <1>3, <2>1
  <2>. QED
      BY <2>2
<1>. QED
    BY <1>5 DEF Range

\* get_pending returns messages that are pending.
LEMMA GetPendingWaits ==
    ASSUME NEW s \in Store, NEW limit \in Nat, NEW m \in Range(GetPending(s, limit))
    PROVE  IsPending(s, m)
<1>. DEFINE I == {i \in DOMAIN s.queue : IsPending(s, s.queue[i])}
            q == Pending(s)
<1>1. s.queue \in Seq(Message)
    BY StoreFields
<1>2. I \in SUBSET DOMAIN s.queue /\ q = Picked(s.queue, I)
    BY DEF Pending
<1>3. \A i \in I : IsPending(s, s.queue[i])
    OBVIOUS
<1>. HIDE DEF I
<1>4. q \in Seq(Message) /\ \A x \in Range(q) : \E i \in I : x = s.queue[i]
    BY <1>1, <1>2, PickedElements DEF Range
<1>. HIDE DEF q
<1>5. Range(GetPending(s, limit)) \subseteq Range(q)
  <2>1. CASE Len(q) <= limit
      BY <2>1 DEF GetPending, q
  <2>2. CASE ~(Len(q) <= limit)
    <3>1. Range(SubSeq(q, 1, limit)) \subseteq Range(q)
        BY <1>4, <2>2, RangeOfPart, LenProperties
    <3>. QED
        BY <2>2, <3>1 DEF GetPending, q
  <2>. QED
      BY <2>1, <2>2
<1>. QED
    BY <1>3, <1>4, <1>5

LEMMA DeliverablePart ==
    ASSUME NEW rest \in Seq(Message), NEW flying
    PROVE  Range(Deliverable(rest, flying)) \subseteq Range(rest)
<1>. DEFINE free == {i \in DOMAIN rest : rest[i] \notin flying}
            first == CHOOSE i \in free : \A j \in free : i <= j
<1>1. DOMAIN rest = 1 .. Len(rest) /\ Len(rest) \in Nat
    BY LenProperties
<1>2. CASE free = {}
    BY <1>2, EmptySeq DEF Deliverable, Range
<1>3. CASE free # {}
  <2>1. free \subseteq Nat
      BY <1>1
  <2>2. \E i \in free : \A j \in free : i <= j
      BY <1>3, <2>1, MinExists
  <2>3. first \in 1 .. Len(rest)
      BY <1>1, <2>2
  <2>4. Deliverable(rest, flying) = SubSeq(rest, first, Len(rest))
      BY <1>3 DEF Deliverable
  <2>. HIDE DEF first
  <2>. QED
      BY <1>1, <2>3, <2>4, RangeOfPart
<1>. QED
    BY <1>2, <1>3

LEMMA HeadAndTail ==
    ASSUME NEW s \in Seq(Message), s # <<>>
    PROVE  Head(s) \in Range(s) /\ Range(Tail(s)) \subseteq Range(s)
<1>1. DOMAIN s = 1 .. Len(s) /\ Len(s) \in Nat /\ Len(s) # 0
    BY EmptySeq, LenProperties
<1>2. Head(s) = s[1]
    BY HeadTailProperties
<1>3. /\ Tail(s) \in Seq(Message) /\ Len(Tail(s)) = Len(s) - 1
      /\ \A i \in 1 .. Len(Tail(s)) : Tail(s)[i] = s[i + 1]
    BY HeadTailProperties
<1>4. DOMAIN Tail(s) = 1 .. Len(s) - 1
    BY <1>3, LenProperties
<1>5. \A i \in DOMAIN Tail(s) : i + 1 \in DOMAIN s /\ Tail(s)[i] = s[i + 1]
    BY <1>1, <1>3, <1>4
<1>. QED
    BY <1>1, <1>2, <1>5 DEF Range

\* The loop at p goes on, and of what is in flight some is not any more.
LEMMA GoOnTakes ==
    ASSUME Inv, NEW p \in Node, NEW rest \in Seq(Message),
           NEW flight \in [Node -> SUBSET Message], GoOn(p, rest, flight),
           NEW n \in Node, NEW m \in Message, flight[n] \subseteq in_flight[n],
           n = p /\ m \in Range(rest) => m \in Range(loop[n].rest)
    PROVE  NotTaken(n, m)
<1>. DEFINE next == Deliverable(rest, flight[p])
<1>1. next \in Seq(Message) /\ Range(next) \subseteq Range(rest)
    BY DeliverableType, DeliverablePart
<1>2. /\ loop' = [loop EXCEPT ![p] = IF next = <<>> THEN Asleep
                                     ELSE [stage |-> "handling", rest |-> next, todo |-> {}]]
      /\ in_flight' = IF next = <<>> THEN flight ELSE [flight EXCEPT ![p] = @ \cup {Head(next)}]
    BY DEF GoOn
<1>. HIDE DEF next
<1>3. next # <<>> => Head(next) \in Range(next)
    BY <1>1, HeadAndTail
<1>4. loop \in [Node -> LoopRecord]
    BY DEF Inv, RestHolds, LoopHold
<1>5. CASE n # p
    BY <1>2, <1>4, <1>5 DEF NotTaken
<1>6. CASE n = p
  <2>1. loop'[n].rest = next
      BY <1>2, <1>4, <1>6 DEF Asleep
  <2>2. in_flight'[n] \subseteq in_flight[n] \cup Range(next)
      BY <1>2, <1>3, <1>6
  <2>. QED
      BY <1>1, <1>6, <2>1, <2>2 DEF NotTaken
<1>. QED
    BY <1>5, <1>6

LEMMA LoopAcksTakes ==
    ASSUME Inv, NEW p \in Node, loop[p].stage # "idle", NEW todo \in SUBSET Node,
           NEW flight \in [Node -> SUBSET Message], LoopAcks(p, todo, flight),
           NEW n \in Node, NEW m \in Message, flight[n] \subseteq in_flight[n]
    PROVE  NotTaken(n, m)
<1>1. LoopHold
    BY DEF Inv, RestHolds
<1>2. /\ loop[p].rest \in Seq(Message) /\ Tail(loop[p].rest) \in Seq(Message)
      /\ loop[p].rest # <<>>
    BY <1>1, InHandType DEF LoopHold
<1>3. CASE todo = {}
  <2>1. GoOn(p, Tail(loop[p].rest), flight)
      BY <1>3 DEF LoopAcks
  <2>2. Range(Tail(loop[p].rest)) \subseteq Range(loop[p].rest)
      BY <1>2, HeadAndTail
  <2>. QED
    <3>. PICK rest : rest = Tail(loop[p].rest)
        OBVIOUS
    <3>1. /\ rest \in Seq(Message) /\ GoOn(p, rest, flight)
          /\ n = p /\ m \in Range(rest) => m \in Range(loop[n].rest)
        BY <1>2, <2>1, <2>2
    <3>. QED
        BY <3>1, GoOnTakes, ZenonT(60)
<1>4. CASE todo # {}
  <2>. DEFINE l == [loop[p] EXCEPT !.stage = "acking", !.todo = todo]
  <2>1. loop' = [loop EXCEPT ![p] = l] /\ in_flight' = flight
      BY <1>1, <1>4 DEF LoopAcks, LoopHold
  <2>2. l.rest = loop[p].rest
      BY <1>1 DEF LoopHold, LoopRecord
  <2>. HIDE DEF l
  <2>3. loop'[n].rest = loop[n].rest
      BY <1>1, <2>1, <2>2 DEF LoopHold
  <2>. QED
      BY <2>1, <2>3 DEF NotTaken
<1>. QED
    BY <1>3, <1>4

\* A handler takes what waits, or nothing.
LEMMA InFlightTakes ==
    ASSUME Inv, NEW p \in Node, NEW x, NEW op \in {"publish", "ack", "consume"},
           NEW n \in Node, NEW m \in Message, ~IsPending(store[n], m)
    PROVE  /\ m \in InFlightAfter(op, p, x)[n] => m \in in_flight[n]
           /\ m \in TakeFrom(p)[n] => m \in in_flight[n]
           /\ op = "ack" => InFlightAfter(op, p, x)[n] \subseteq in_flight[n]
           /\ InFlightAfterAck(p, x)[n] \subseteq in_flight[n]
<1>1. in_flight \in [Node -> SUBSET Message] /\ store[n] \in Store
    BY DEF Inv, RestHolds, FlightHolds, StoresHold
<1>2. m \notin Range(GetPending(store[n], ConsumeLimit))
    BY <1>1, GetPendingWaits, LimitsAssumption
<1>3. m \in TakeFrom(p)[n] => m \in in_flight[n]
    BY <1>1, <1>2 DEF TakeFrom
<1>4. [in_flight EXCEPT ![p] = @ \ {x}][n] \subseteq in_flight[n]
    BY <1>1
<1>. QED
    BY <1>3, <1>4 DEF InFlightAfter, InFlightAfterAck

\* The steps of the loops.
LEMMA LoopTakes ==
    ASSUME Inv, NEW p \in Node, LoopStep(p),
           NEW n \in Node, NEW m \in Message, ~IsPending(store[n], m)
    PROVE  NotTaken(n, m)
<1>1. /\ StoresHold /\ RestHolds /\ LoopHold /\ FlightHolds /\ DetectorHolds
      /\ in_flight \in [Node -> SUBSET Message]
    BY DEF Inv, RestHolds, FlightHolds
<1>2. CASE LoopWakes(p)
  <2>. DEFINE messages == GetPending(store[p], PendingLimit)
  <2>1. messages \in Seq(Message)
      BY <1>1, GetPendingType, LimitsAssumption DEF StoresHold
  <2>2. GoOn(p, messages, in_flight)
      BY <1>2 DEF LoopWakes
  <2>3. n = p => m \notin Range(messages)
      BY <1>1, GetPendingWaits, LimitsAssumption DEF StoresHold
  <2>. HIDE DEF messages
  <2>. QED
      BY <1>1, <2>1, <2>2, <2>3, GoOnTakes
<1>3. CASE HandlerSucceeds(p)
  <2>. DEFINE todo == ResponsibleNodes(p, InHand(p)) \ {p}
  <2>1. /\ loop[p].stage # "idle"
        /\ LoopAcks(p, todo, InFlightAfterAck(p, InHand(p)))
      BY <1>3 DEF HandlerSucceeds
  <2>2. todo \in SUBSET Node
      BY <1>1, NodesForKeyType
  <2>. HIDE DEF todo
  <2>3. InFlightAfterAck(p, InHand(p)) \in [Node -> SUBSET Message]
      BY <1>1, InFlightType
  <2>4. InFlightAfterAck(p, InHand(p))[n] \subseteq in_flight[n]
      BY InFlightTakes
  <2>. QED
      BY <2>1, <2>2, <2>3, <2>4, LoopAcksTakes
<1>4. CASE HandlerFails(p)
  <2>. DEFINE flight == [in_flight EXCEPT ![p] = @ \ {InHand(p)}]
  <2>1. GoOn(p, Tail(loop[p].rest), flight) /\ loop[p].stage # "idle"
      BY <1>4 DEF HandlerFails
  <2>2. flight \in [Node -> SUBSET Message] /\ flight[n] \subseteq in_flight[n]
      BY <1>1
  <2>. HIDE DEF flight
  <2>3. /\ loop[p].rest \in Seq(Message) /\ Tail(loop[p].rest) \in Seq(Message)
        /\ loop[p].rest # <<>>
      BY <1>1, <2>1, InHandType DEF LoopHold
  <2>4. Range(Tail(loop[p].rest)) \subseteq Range(loop[p].rest)
      BY <2>3, HeadAndTail
  <2>. QED
    <3>. PICK rest : rest = Tail(loop[p].rest)
        OBVIOUS
    <3>1. /\ rest \in Seq(Message) /\ GoOn(p, rest, flight)
          /\ n = p /\ m \in Range(rest) => m \in Range(loop[n].rest)
        BY <2>1, <2>3, <2>4
    <3>. QED
        BY <2>2, <3>1, GoOnTakes
<1>5. ASSUME NEW flight \in [Node -> SUBSET Message], NEW handled, loop[p].stage = "acking",
             LoopSent(p, flight, handled), flight[n] \subseteq in_flight[n]
      PROVE  NotTaken(n, m)
  <2>. DEFINE todo == loop[p].todo \ {Nearest(InHand(p), loop[p].todo)}
  <2>1. LoopAcks(p, todo, flight)
      BY <1>5 DEF LoopSent
  <2>2. todo \in SUBSET Node
      BY <1>1, <1>5, InHandType
  <2>. HIDE DEF todo
  <2>. QED
      BY <1>5, <2>1, <2>2, LoopAcksTakes
<1>6. CASE LoopSendAnswered(p)
  <2>. DEFINE q == Nearest(InHand(p), loop[p].todo)
              flight == InFlightAfter("ack", q, InHand(p))
  <2>1. loop[p].stage = "acking" /\ LoopSent(p, flight, TRUE)
      BY <1>6 DEF LoopSendAnswered
  <2>2. q \in Node
      BY <1>1, <2>1, LoopPeer
  <2>. HIDE DEF q
  <2>3. flight \in [Node -> SUBSET Message] /\ flight[n] \subseteq in_flight[n]
      BY <1>1, <2>2, InFlightType, InFlightTakes
  <2>. QED
      BY <1>5, <2>1, <2>3
<1>7. CASE LoopSendFails(p)
  <2>1. loop[p].stage = "acking" /\ LoopSent(p, in_flight, FALSE)
      BY <1>7 DEF LoopSendFails
  <2>. QED
      BY <1>1, <1>5, <2>1
<1>. QED
    BY <1>2, <1>3, <1>4, <1>6, <1>7 DEF LoopStep

\* All steps.
LEMMA NextTakes ==
    ASSUME Inv, [Next]_vars, NEW n \in Node, NEW m \in Message, ~IsPending(store[n], m)
    PROVE  NotTaken(n, m)
<1>1. /\ loop \in [Node -> LoopRecord] /\ in_flight \in [Node -> SUBSET Message]
      /\ CallsHold /\ LateHold /\ DetectorHolds
    BY DEF Inv, RestHolds, LoopHold, FlightHolds
<1>2. ASSUME UNCHANGED loop, m \in in_flight'[n] => m \in in_flight[n]
      PROVE  NotTaken(n, m)
    BY <1>2 DEF NotTaken
<1>3. ASSUME NEW i \in Call, NEW p \in Asked, NEW x \in Message,
             Publish(i, p, x) \/ Ack(i, p, x)
      PROVE  NotTaken(n, m)
  <2>1. CASE Publish(i, p, x)
      BY <1>2, <2>1 DEF Publish
  <2>2. CASE Ack(i, p, x)
      BY <1>2, <2>2, ConsumerAssumption, InFlightTakes DEF Ack
  <2>. QED
      BY <1>3, <2>1, <2>2
<1>4. ASSUME NEW i \in Call, NEW p \in Asked, Consume(i, p)
      PROVE  NotTaken(n, m)
  <2>1. m \in TakeFrom(p)[n] => m \in in_flight[n]
      BY ConsumerAssumption, InFlightTakes
  <2>2. UNCHANGED loop /\ in_flight' \in {TakeFrom(p), in_flight}
      BY <1>4 DEF Consume
  <2>. QED
      BY <1>2, <2>1, <2>2
<1>5. ASSUME NEW i \in Call, SendStep(i)
      PROVE  NotTaken(n, m)
  <2>. DEFINE c == calls[i]
              p == Nearest(c.id, c.todo)
  <2>1. CASE SendAnswered(i)
    <3>1. c # NoCall /\ UNCHANGED loop /\ in_flight' = InFlightAfter(c.op, p, c.id)
        BY <2>1 DEF SendAnswered
    <3>2. p \in Node /\ c.op \in {"publish", "ack", "consume"}
        BY <1>1, <3>1, CallFields
    <3>. HIDE DEF c, p
    <3>. QED
        BY <1>2, <3>1, <3>2, InFlightTakes
  <2>2. CASE SendFails(i)
      BY <1>2, <2>2 DEF SendFails, queues
  <2>. QED
      BY <1>5, <2>1, <2>2 DEF SendStep
<1>6. ASSUME NEW q \in late, HandleLate(q)
      PROVE  NotTaken(n, m)
  <2>1. q.to \in Node /\ q.op \in {"publish", "ack", "consume"}
      BY <1>1 DEF LateHold, Request
  <2>. QED
      BY <1>2, <1>6, <2>1, InFlightTakes DEF HandleLate
<1>7. ASSUME NEW p \in Node, NEW x \in Message, Redeliver(p, x)
      PROVE  NotTaken(n, m)
    BY <1>1, <1>2, <1>7 DEF Redeliver
<1>8. ASSUME NEW p \in Node, Restart(p) \/ CrashInSave(p)
      PROVE  NotTaken(n, m)
  <2>1. /\ loop' = [loop EXCEPT ![p] = Asleep]
        /\ in_flight' = [in_flight EXCEPT ![p] = {}]
      BY <1>8 DEF Restart, CrashInSave, Reboot
  <2>2. Range(<<>>) = {}
      BY EmptySeq DEF Range
  <2>3. CASE n = p
      BY <1>1, <2>1, <2>2, <2>3 DEF NotTaken, Asleep
  <2>4. CASE n # p
      BY <1>1, <2>1, <2>4 DEF NotTaken
  <2>. QED
      BY <2>3, <2>4
<1>9. CASE (\E p \in Node : DetectorStep(p)) \/ UNCHANGED vars
    BY <1>2, <1>9 DEF DetectorStep, vars, queues
<1>. QED
    BY <1>3, <1>4, <1>5, <1>6, <1>7, <1>8, <1>9, LoopTakes DEF Next, ClientStep

\* What an ack settled, by the ring the message was published by and with every
\* node answering, waits nowhere, through restarts and late requests too, and no
\* consume and no pass that begins takes it.
THEOREM SettledIsAlwaysOver == Spec => SettledIsOver
<1>. DEFINE Over ==
         \A n \in Node :
             /\ \A m \in settled' : ~IsPending(store'[n], m)
             /\ \A m \in settled :
                   /\ m \in Range(loop'[n].rest) => m \in Range(loop[n].rest)
                   /\ m \in in_flight'[n] => m \in in_flight[n] \cup Range(loop[n].rest)
<1>1. Init => SettleInv
  <2>. SUFFICES ASSUME Init PROVE SettleInv
      OBVIOUS
  <2>1. \A n \in Node, m \in Message : ~Pend(n, m)
      BY EmptyStoreHolds DEF Init, Pend
  <2>2. \A i \in Call : calls[i] = NoCall
      BY DEF Init
  <2>3. late = {} /\ settling = {} /\ settled = {}
      BY DEF Init
  <2>. QED
      BY <2>1, <2>2, <2>3 DEF SettleInv
<1>2. Inv /\ SettleInv /\ [Next]_vars => SettleInv'
    BY NextSettles
<1>3. Inv /\ SettleInv /\ SettleInv' /\ [Next]_vars => Over
  <2>. SUFFICES ASSUME Inv, SettleInv, SettleInv', [Next]_vars, NEW n \in Node
                PROVE  /\ \A m \in settled' : ~IsPending(store'[n], m)
                       /\ \A m \in settled : NotTaken(n, m)
      BY DEF NotTaken
  <2>1. \A m \in settled' : ~IsPending(store'[n], m)
      BY DEF SettleInv, Pend
  <2>2. settled \subseteq Message /\ \A m \in settled : ~IsPending(store[n], m)
      BY DEF SettleInv, Pend, Inv, RestHolds, HistoryHolds
  <2>. QED
      BY <2>1, <2>2, NextTakes
<1>4. Spec => [][Over]_vars
    BY <1>1, <1>2, <1>3, InvHolds, PTL DEF Spec
<1>. QED
    BY <1>4 DEF SettledIsOver
=============================================================================
