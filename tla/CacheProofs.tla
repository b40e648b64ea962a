----------------------------- MODULE CacheProofs -----------------------------
(***************************************************************************)
(* Proofs about Cache, for every cluster, set of keys, size of the cache   *)
(* and bound.                                                              *)
(***************************************************************************)
EXTENDS Cache, Extrema, SequenceTheorems

-----------------------------------------------------------------------------
(* The LRU cache of a node as a sequence *)

Elements(s) == {s[i] : i \in DOMAIN s}

OneEntryPerKey(s) ==
    s \in Seq(Entry) /\ \A i, j \in DOMAIN s : s[i].key = s[j].key => i = j

Sound(s) == OneEntryPerKey(s) /\ Len(s) <= MaxSize

\* Removing the element at i moves those behind it forward by one.
LEMMA RemoveAtProperties ==
    ASSUME NEW S, NEW s \in Seq(S), NEW i \in DOMAIN s
    PROVE  /\ RemoveAt(s, i) \in Seq(S)
           /\ Len(RemoveAt(s, i)) = Len(s) - 1
           /\ \A j \in 1 .. Len(s) - 1 : RemoveAt(s, i)[j] = s[IF j < i THEN j ELSE j + 1]
<1>. DEFINE front == SubSeq(s, 1, i - 1)
            back == SubSeq(s, i + 1, Len(s))
<1>1. Len(s) \in Nat /\ i \in 1 .. Len(s)
    BY LenProperties
<1>2. /\ front \in Seq(S)
      /\ Len(front) = i - 1
      /\ \A j \in 1 .. i - 1 : front[j] = s[j]
  <2>1. CASE i = 1
      BY <1>1, <2>1, SubSeqProperties
  <2>2. CASE i # 1
      BY <1>1, <2>2, SubSeqProperties
  <2>. QED
      BY <2>1, <2>2
<1>3. /\ back \in Seq(S)
      /\ Len(back) = Len(s) - i
      /\ \A j \in 1 .. Len(s) - i : back[j] = s[i + j]
  <2>1. CASE i = Len(s)
      BY <1>1, <2>1, SubSeqProperties
  <2>2. CASE i # Len(s)
      BY <1>1, <2>2, SubSeqProperties
  <2>. QED
      BY <2>1, <2>2
<1>. HIDE DEF front, back
<1>4. /\ front \o back \in Seq(S)
      /\ Len(front \o back) = Len(s) - 1
      /\ \A j \in 1 .. Len(s) - 1 :
             (front \o back)[j] = IF j <= i - 1 THEN front[j] ELSE back[j - (i - 1)]
  <2>1. /\ front \o back \in Seq(S)
        /\ Len(front \o back) = Len(front) + Len(back)
        /\ \A j \in 1 .. Len(front) + Len(back) :
               (front \o back)[j] = IF j <= Len(front) THEN front[j] ELSE back[j - Len(front)]
      BY <1>2, <1>3, ConcatProperties, Zenon
  <2>2. Len(front) + Len(back) = Len(s) - 1
      BY <1>1, <1>2, <1>3
  <2>. QED
      BY <1>2, <2>1, <2>2
<1>5. ASSUME NEW j \in 1 .. Len(s) - 1
      PROVE  (front \o back)[j] = s[IF j < i THEN j ELSE j + 1]
  <2>1. CASE j < i
      BY <1>1, <1>2, <1>4, <2>1
  <2>2. CASE ~(j < i)
    <3>1. back[j - (i - 1)] = s[i + (j - (i - 1))]
        BY <1>1, <1>3, <2>2, SMTT(60)
    <3>. QED
        BY <1>1, <1>4, <2>2, <3>1
  <2>. QED
      BY <2>1, <2>2
<1>6. RemoveAt(s, i) = front \o back
    BY DEF RemoveAt, front, back
<1>. QED
    BY <1>4, <1>5, <1>6

\* The entry of a key is the only one with the key.
LEMMA EntryOfProperties ==
    ASSUME NEW s, OneEntryPerKey(s), NEW k
    PROVE  /\ Elements(s) \subseteq Entry
           /\ Cached(s, k) <=> \E e \in Elements(s) : e.key = k
           /\ Cached(s, k) => /\ Position(s, k) \in DOMAIN s
                              /\ EntryOf(s, k) \in Elements(s)
                              /\ EntryOf(s, k).key = k
           /\ \A e \in Elements(s) : e.key = k => e = EntryOf(s, k)
<1>1. Elements(s) \subseteq Entry
    BY ElementOfSeq, LenProperties DEF OneEntryPerKey, Elements
<1>2. Cached(s, k) <=> \E e \in Elements(s) : e.key = k
    BY DEF Cached, Elements
<1>3. Cached(s, k) => Position(s, k) \in DOMAIN s /\ s[Position(s, k)].key = k
    BY DEF Cached, Position
<1>4. ASSUME NEW i \in DOMAIN s, s[i].key = k
      PROVE  s[i] = EntryOf(s, k)
    BY <1>3, <1>4 DEF OneEntryPerKey, EntryOf, Cached
<1>. QED
    BY <1>1, <1>2, <1>3, <1>4 DEF Elements, EntryOf

\* Without drops the entry of the key and keeps all others.
LEMMA WithoutProperties ==
    ASSUME NEW s, OneEntryPerKey(s), NEW k
    PROVE  /\ OneEntryPerKey(Without(s, k))
           /\ Len(Without(s, k)) = IF Cached(s, k) THEN Len(s) - 1 ELSE Len(s)
           /\ Elements(Without(s, k)) = {e \in Elements(s) : e.key # k}
<1>1. CASE ~Cached(s, k)
  <2>1. Without(s, k) = s
      BY <1>1 DEF Without
  <2>2. Elements(s) = {e \in Elements(s) : e.key # k}
      BY <1>1, EntryOfProperties
  <2>. QED
      BY <1>1, <2>1, <2>2
<1>2. CASE Cached(s, k)
  <2>. DEFINE i == Position(s, k)
              t == RemoveAt(s, i)
  <2>1. s \in Seq(Entry) /\ Len(s) \in Nat /\ DOMAIN s = 1 .. Len(s)
      BY LenProperties DEF OneEntryPerKey
  <2>2. i \in 1 .. Len(s) /\ s[i].key = k
      BY <1>2, <2>1, EntryOfProperties, SMTT(60) DEF EntryOf
  <2>. HIDE DEF i
  <2>3. /\ t \in Seq(Entry)
        /\ Len(t) = Len(s) - 1
        /\ \A j \in 1 .. Len(s) - 1 : t[j] = s[IF j < i THEN j ELSE j + 1]
      BY <2>1, <2>2, RemoveAtProperties, ZenonT(60)
  <2>. HIDE DEF t
  <2>4. DOMAIN t = 1 .. Len(s) - 1
      BY <2>3, LenProperties
  <2>5. OneEntryPerKey(t)
    <3>1. ASSUME NEW j \in DOMAIN t, NEW l \in DOMAIN t, t[j].key = t[l].key
          PROVE  j = l
      <4>. DEFINE at(x) == IF x < i THEN x ELSE x + 1
      <4>1. at(j) \in DOMAIN s /\ at(l) \in DOMAIN s
          BY <2>1, <2>2, <2>4
      <4>2. t[j] = s[at(j)] /\ t[l] = s[at(l)]
          BY <2>3, <2>4
      <4>3. at(j) = at(l)
          BY <3>1, <4>1, <4>2 DEF OneEntryPerKey
      <4>. QED
          BY <2>1, <2>2, <2>4, <4>3
    <3>. QED
        BY <2>3, <3>1 DEF OneEntryPerKey
  <2>6. ASSUME NEW j \in DOMAIN t
        PROVE  t[j] \in Elements(s) /\ t[j].key # k
    <3>1. PICK l \in 1 .. Len(s) : l # i /\ t[j] = s[l]
        BY <2>1, <2>2, <2>3, <2>4
    <3>. QED
        BY <2>1, <2>2, <3>1 DEF OneEntryPerKey, Elements
  <2>7. ASSUME NEW l \in DOMAIN s, s[l].key # k
        PROVE  s[l] \in Elements(t)
    <3>1. l # i
        BY <2>2, <2>7
    <3>2. PICK j \in DOMAIN t : t[j] = s[l]
      <4>1. CASE l < i
        <5>1. l \in DOMAIN t /\ t[l] = s[l]
            BY <2>1, <2>2, <2>3, <2>4, <4>1
        <5>. QED
            BY <5>1
      <4>2. CASE ~(l < i)
        <5>1. l - 1 \in DOMAIN t /\ t[l - 1] = s[l]
            BY <2>1, <2>2, <2>3, <2>4, <3>1, <4>2
        <5>. QED
            BY <5>1
      <4>. QED
          BY <4>1, <4>2
    <3>. QED
        BY <3>2 DEF Elements
  <2>8. Elements(t) = {e \in Elements(s) : e.key # k}
      BY <2>6, <2>7 DEF Elements
  <2>9. Without(s, k) = t
      BY <1>2 DEF Without, t, i
  <2>. QED
      BY <1>2, <2>3, <2>5, <2>8, <2>9
<1>. QED
    BY <1>1, <1>2

\* An entry for a key that is not there may be appended.
LEMMA AppendEntry ==
    ASSUME NEW s, OneEntryPerKey(s), NEW e \in Entry, \A d \in Elements(s) : d.key # e.key
    PROVE  /\ OneEntryPerKey(Append(s, e))
           /\ Len(Append(s, e)) = Len(s) + 1
           /\ Elements(Append(s, e)) = Elements(s) \cup {e}
<1>. DEFINE t == Append(s, e)
<1>1. s \in Seq(Entry) /\ Len(s) \in Nat /\ DOMAIN s = 1 .. Len(s)
    BY LenProperties DEF OneEntryPerKey
<1>2. /\ t \in Seq(Entry)
      /\ Len(t) = Len(s) + 1
      /\ \A i \in 1 .. Len(s) : t[i] = s[i]
      /\ t[Len(s) + 1] = e
    BY <1>1, AppendProperties
<1>3. DOMAIN t = 1 .. Len(s) + 1
    BY <1>2, LenProperties
<1>. HIDE DEF t
<1>4. \A i \in 1 .. Len(s) : s[i] \in Elements(s)
    BY <1>1 DEF Elements
<1>5. ASSUME NEW i \in DOMAIN t, NEW j \in DOMAIN t, t[i].key = t[j].key
      PROVE  i = j
  <2>1. CASE i \in 1 .. Len(s) /\ j \in 1 .. Len(s)
      BY <1>1, <1>2, <1>5, <2>1 DEF OneEntryPerKey
  <2>2. CASE i = Len(s) + 1 /\ j \in 1 .. Len(s)
      BY <1>1, <1>2, <1>4, <1>5, <2>2
  <2>3. CASE j = Len(s) + 1 /\ i \in 1 .. Len(s)
      BY <1>1, <1>2, <1>4, <1>5, <2>3
  <2>. QED
      BY <1>1, <1>3, <2>1, <2>2, <2>3
<1>6. Elements(t) = Elements(s) \cup {e}
  <2>1. \A i \in DOMAIN t : t[i] \in Elements(s) \cup {e}
      BY <1>1, <1>2, <1>3, <1>4
  <2>2. \A i \in DOMAIN s : i \in DOMAIN t /\ t[i] = s[i]
      BY <1>1, <1>2, <1>3
  <2>3. Len(s) + 1 \in DOMAIN t
      BY <1>1, <1>3
  <2>. QED
      BY <1>2, <2>1, <2>2, <2>3 DEF Elements
<1>. QED
    BY <1>2, <1>5, <1>6 DEF OneEntryPerKey, t

\* get moves the entry, and changes none.
LEMMA TouchProperties ==
    ASSUME NEW s, Sound(s), NEW k
    PROVE  Sound(Touch(s, k)) /\ Elements(Touch(s, k)) = Elements(s)
<1>1. CASE ~Cached(s, k)
    BY <1>1 DEF Touch
<1>2. CASE Cached(s, k)
  <2>. DEFINE e == EntryOf(s, k)
              w == Without(s, k)
  <2>1. e \in Entry /\ e.key = k /\ e \in Elements(s) /\ \A d \in Elements(s) : d.key = k => d = e
      BY <1>2, EntryOfProperties DEF Sound
  <2>2. OneEntryPerKey(w) /\ Len(w) = Len(s) - 1 /\ Elements(w) = {d \in Elements(s) : d.key # k}
      BY <1>2, WithoutProperties DEF Sound
  <2>. HIDE DEF e, w
  <2>3. /\ OneEntryPerKey(Append(w, e))
        /\ Len(Append(w, e)) = Len(w) + 1
        /\ Elements(Append(w, e)) = Elements(w) \cup {e}
      BY <2>1, <2>2, AppendEntry
  <2>4. Touch(s, k) = Append(w, e)
      BY <1>2 DEF Touch, w, e
  <2>5. Len(s) \in Nat
      BY LenProperties DEF Sound, OneEntryPerKey
  <2>6. Elements(w) \cup {e} = Elements(s)
      BY <2>1, <2>2
  <2>7. Len(Append(w, e)) <= MaxSize
      BY <2>2, <2>3, <2>5 DEF Sound
  <2>8. Sound(Append(w, e))
      BY <2>3, <2>7 DEF Sound
  <2>. QED
      BY <2>3, <2>4, <2>6, <2>8
<1>. QED
    BY <1>1, <1>2

WithState(e, state) == [e EXCEPT !.state = state]

\* A new state for an entry changes that entry only.
LEMMA MarkProperties ==
    ASSUME NEW s, Sound(s), NEW k, NEW state \in State, Cached(s, k),
           NEW e, e = WithState(EntryOf(s, k), state)
    PROVE  /\ Sound(Mark(s, k, state))
           /\ Elements(Mark(s, k, state)) = {d \in Elements(s) : d.key # k} \cup {e}
           /\ e \in Entry /\ e.key = k /\ e.state = state
           /\ e.value = EntryOf(s, k).value /\ e.version = EntryOf(s, k).version
<1>. DEFINE w == Without(s, k)
<1>1. EntryOf(s, k) \in Entry /\ EntryOf(s, k).key = k
    BY EntryOfProperties DEF Sound
<1>2. /\ e \in Entry /\ e.key = k /\ e.state = state
      /\ e.value = EntryOf(s, k).value /\ e.version = EntryOf(s, k).version
    BY <1>1 DEF Entry, WithState
<1>3. OneEntryPerKey(w) /\ Len(w) = Len(s) - 1 /\ Elements(w) = {d \in Elements(s) : d.key # k}
    BY WithoutProperties DEF Sound
<1>4. Mark(s, k, state) = Append(w, e)
    BY DEF Mark, WithState
<1>. HIDE DEF w
<1>5. /\ OneEntryPerKey(Append(w, e))
      /\ Len(Append(w, e)) = Len(w) + 1
      /\ Elements(Append(w, e)) = Elements(w) \cup {e}
    BY <1>2, <1>3, AppendEntry
<1>6. Len(s) \in Nat
    BY LenProperties DEF Sound, OneEntryPerKey
<1>7. Sound(Append(w, e))
    BY <1>3, <1>5, <1>6 DEF Sound
<1>8. Elements(Append(w, e)) = {d \in Elements(s) : d.key # k} \cup {e}
    BY <1>3, <1>5
<1>. QED
    BY <1>2, <1>4, <1>7, <1>8

\* _evict finds an entry.
LEMMA VictimExists ==
    ASSUME NEW s \in Seq(Entry), s # <<>>
    PROVE  Victim(s) \in DOMAIN s
<1>. DEFINE clean == {i \in DOMAIN s : s[i].state # "modified"}
<1>1. DOMAIN s = 1 .. Len(s) /\ Len(s) \in Nat \ {0}
    BY LenProperties, EmptySeq
<1>2. CASE clean = {}
    BY <1>1, <1>2 DEF Victim
<1>3. CASE clean # {}
  <2>1. clean \subseteq Nat
      BY <1>1
  <2>. HIDE DEF clean
  <2>2. \E i \in clean : \A j \in clean : i <= j
      BY <1>3, <2>1, MinExists
  <2>3. (CHOOSE i \in clean : \A j \in clean : i <= j) \in clean
      BY <2>2
  <2>. QED
      BY <1>3, <2>3 DEF Victim, clean
<1>. QED
    BY <1>2, <1>3

\* Removing any entry leaves a sound cache with some of the others.
LEMMA EvictedProperties ==
    ASSUME NEW s, Sound(s)
    PROVE  /\ OneEntryPerKey(Evicted(s))
           /\ Len(Evicted(s)) <= MaxSize - 1
           /\ Elements(Evicted(s)) \subseteq Elements(s)
<1>1. s \in Seq(Entry) /\ Len(s) \in Nat /\ MaxSize \in Nat \ {0} /\ DOMAIN s = 1 .. Len(s)
    BY LenProperties, SizeAssumption DEF Sound, OneEntryPerKey
<1>2. CASE Len(s) >= MaxSize
  <2>. DEFINE i == Victim(s)
              t == RemoveAt(s, i)
  <2>1. s # <<>>
      BY <1>1, <1>2, EmptySeq
  <2>2. i \in 1 .. Len(s)
      BY <1>1, <2>1, VictimExists
  <2>. HIDE DEF i
  <2>3. /\ t \in Seq(Entry)
        /\ Len(t) = Len(s) - 1
        /\ \A j \in 1 .. Len(s) - 1 : t[j] = s[IF j < i THEN j ELSE j + 1]
      BY <1>1, <2>2, RemoveAtProperties, ZenonT(60)
  <2>. HIDE DEF t
  <2>4. DOMAIN t = 1 .. Len(s) - 1
      BY <2>3, LenProperties
  <2>. DEFINE at(x) == IF x < i THEN x ELSE x + 1
  <2>5. ASSUME NEW j \in DOMAIN t
        PROVE  at(j) \in DOMAIN s /\ t[j] = s[at(j)]
      BY <1>1, <2>2, <2>3, <2>4
  <2>6. ASSUME NEW j \in DOMAIN t, NEW l \in DOMAIN t, t[j].key = t[l].key
        PROVE  j = l
    <3>1. at(j) = at(l)
        BY <2>5, <2>6 DEF Sound, OneEntryPerKey
    <3>. QED
        BY <1>1, <2>2, <2>4, <3>1
  <2>7. Elements(t) \subseteq Elements(s)
      BY <2>5 DEF Elements
  <2>8. Len(t) <= MaxSize - 1
      BY <1>1, <2>3 DEF Sound
  <2>9. Evicted(s) = t
      BY <1>2 DEF Evicted, t, i
  <2>. QED
      BY <2>3, <2>6, <2>7, <2>8, <2>9 DEF OneEntryPerKey
<1>3. CASE ~(Len(s) >= MaxSize)
  <2>1. Evicted(s) = s
      BY <1>3 DEF Evicted
  <2>. QED
      BY <1>1, <1>3, <2>1 DEF Sound
<1>. QED
    BY <1>2, <1>3

\* put: the entry is there afterwards, the only one with its key, and the cache
\* has room for it.
LEMMA PutProperties ==
    ASSUME NEW s, Sound(s), NEW e \in Entry
    PROVE  /\ Sound(Put(s, e))
           /\ e \in Elements(Put(s, e))
           /\ \A d \in Elements(Put(s, e)) : d = e \/ (d \in Elements(s) /\ d.key # e.key)
<1>1. Len(s) \in Nat /\ MaxSize \in Nat \ {0}
    BY LenProperties, SizeAssumption DEF Sound, OneEntryPerKey
<1>2. ASSUME NEW w, OneEntryPerKey(w), Len(w) <= MaxSize - 1,
             \A d \in Elements(w) : d \in Elements(s) /\ d.key # e.key
      PROVE  /\ Sound(Append(w, e))
             /\ e \in Elements(Append(w, e))
             /\ \A d \in Elements(Append(w, e)) :
                    d = e \/ (d \in Elements(s) /\ d.key # e.key)
  <2>1. /\ OneEntryPerKey(Append(w, e))
        /\ Len(Append(w, e)) = Len(w) + 1
        /\ Elements(Append(w, e)) = Elements(w) \cup {e}
      BY <1>2, AppendEntry
  <2>2. Len(w) \in Nat
      BY <1>2, LenProperties DEF OneEntryPerKey
  <2>3. Sound(Append(w, e))
      BY <1>1, <1>2, <2>1, <2>2 DEF Sound
  <2>. QED
      BY <1>2, <2>1, <2>3
<1>3. CASE Cached(s, e.key)
  <2>. DEFINE w == Without(s, e.key)
  <2>1. /\ OneEntryPerKey(w) /\ Len(w) = Len(s) - 1
        /\ Elements(w) = {d \in Elements(s) : d.key # e.key}
      BY <1>3, WithoutProperties DEF Sound
  <2>2. Put(s, e) = Append(w, e)
      BY <1>3 DEF Put
  <2>. HIDE DEF w
  <2>3. Len(w) <= MaxSize - 1
      BY <1>1, <2>1 DEF Sound
  <2>4. \A d \in Elements(w) : d \in Elements(s) /\ d.key # e.key
      BY <2>1
  <2>. QED
      BY <1>2, <2>1, <2>2, <2>3, <2>4
<1>4. CASE ~Cached(s, e.key)
  <2>. DEFINE w == Evicted(s)
  <2>1. OneEntryPerKey(w) /\ Len(w) <= MaxSize - 1 /\ Elements(w) \subseteq Elements(s)
      BY EvictedProperties
  <2>2. Put(s, e) = Append(w, e)
      BY <1>4 DEF Put
  <2>. HIDE DEF w
  <2>3. \A d \in Elements(w) : d \in Elements(s) /\ d.key # e.key
      BY <1>4, <2>1, EntryOfProperties DEF Sound
  <2>. QED
      BY <1>2, <2>1, <2>2, <2>3
<1>. QED
    BY <1>3, <1>4

-----------------------------------------------------------------------------
(* The invariant *)

CachesHold == cache \in [Node -> Seq(Entry)] /\ \A n \in Node : Sound(cache[n])

\* A counter starts again with its node, so it may be behind what it once gave.
VersionsHold ==
    /\ versions \in [Node -> [Key -> Nat]]
    /\ written \in [Node -> [Key -> Nat]]
    /\ \A n \in Node, k \in Key : versions[n][k] <= written[n][k]

\* ModifiedIsNewest and CopiesAreWrites.
CopiesHold ==
    \A n \in Node : \A e \in Elements(cache[n]) :
        /\ e.state = "modified" => e.value.node = n /\ e.version = versions[n][e.key]
        /\ e.version \in 1 .. written[e.value.node][e.key]

\* What an answer carries is a write too, and never passes for modified; what a
\* broadcast carries is not more than its sender has given. `w` is written.
CallHolds(x, w) ==
    /\ x \in {Idle} \cup Reading \cup Writing
    /\ x.op = "read" =>
          /\ x.peers # <<>>
          /\ x.answer.status = "found" =>
                /\ x.answer.entry.state # "modified"
                /\ x.answer.entry.version \in
                       1 .. w[x.answer.entry.value.node][x.answer.entry.key]
    /\ x.op = "write" =>
          x.version <= w[x.node][x.key] /\ x.waiting \subseteq Node \ {x.node}

CallsHold == calls \in [Call -> {Idle} \cup Reading \cup Writing]
             /\ \A c \in Call : CallHolds(calls[c], written)

\* A request that outlived its sender's timeout: somebody else has given the
\* version it carries.
LateHolds(r, w) ==
    /\ r \in Request
    /\ r.type = "invalidate" => \E m \in Node \ {r.to} : r.version <= w[m][r.key]

LateHold == \A r \in late : LateHolds(r, written)

Inv ==
    CachesHold /\ VersionsHold /\ CopiesHold /\ CallsHold /\ LateHold
    /\ restarts \in 0 .. MaxRestarts

\* What InvalidatedByNewer says of a step.
NewerInvalidates ==
    \A n \in Node : \A k \in Key :
        /\ Valid(cache[n], k)
        /\ Cached(cache[n], k)'
        /\ ~Valid(cache[n], k)'
        /\ ~Invalidate(n, k)
        => \E m \in Node \ {n} : written[m][k] > EntryOf(cache[n], k).version

\* The properties the runs check are parts of it.
LEMMA InvImplies == Inv => TypeOK /\ ModifiedIsNewest /\ CopiesAreWrites
<1>. SUFFICES ASSUME Inv PROVE TypeOK /\ ModifiedIsNewest /\ CopiesAreWrites
    OBVIOUS
<1>1. TypeOK
    BY DEF Inv, TypeOK, CachesHold, Sound, OneEntryPerKey, VersionsHold, CallsHold,
           LateHold, LateHolds
<1>2. ModifiedIsNewest /\ CopiesAreWrites
    BY DEF Inv, ModifiedIsNewest, CopiesAreWrites, CopiesHold, Copies, Elements
<1>. QED
    BY <1>1, <1>2

-----------------------------------------------------------------------------
(* Steps by what they change *)

\* The cache of one node changes, and what is new in it is a write, and not
\* modified.
LEMMA CopiesStep ==
    ASSUME Inv, NEW n \in Node, NEW s, Sound(s), cache' = [cache EXCEPT ![n] = s],
           UNCHANGED <<versions, written>>,
           \A d \in Elements(s) :
               \/ d \in Elements(cache[n])
               \/ d.state # "modified" /\ d.version \in 1 .. written[d.value.node][d.key]
    PROVE  CachesHold' /\ VersionsHold' /\ CopiesHold'
<1>1. cache \in [Node -> Seq(Entry)] /\ \A p \in Node : Sound(cache[p])
    BY DEF Inv, CachesHold
<1>2. s \in Seq(Entry)
    BY DEF Sound, OneEntryPerKey
<1>3. cache' \in [Node -> Seq(Entry)] /\ cache'[n] = s /\ \A p \in Node \ {n} : cache'[p] = cache[p]
    BY <1>1, <1>2
<1>4. CachesHold'
    BY <1>1, <1>3 DEF CachesHold
<1>5. VersionsHold'
    BY DEF Inv, VersionsHold
<1>6. CopiesHold'
  <2>. SUFFICES ASSUME NEW p \in Node, NEW e \in Elements(cache'[p])
                PROVE  /\ e.state = "modified" => e.value.node = p /\ e.version = versions[p][e.key]
                       /\ e.version \in 1 .. written[e.value.node][e.key]
      BY DEF CopiesHold
  <2>1. CASE e \in Elements(cache[p])
      BY <2>1 DEF Inv, CopiesHold
  <2>2. CASE e \notin Elements(cache[p])
      BY <1>3, <2>2
  <2>. QED
      BY <2>1, <2>2
<1>. QED
    BY <1>4, <1>5, <1>6

\* Nor is it invalid, unless for a newer write.
LEMMA CacheStep ==
    ASSUME Inv, NEW n \in Node, NEW s, Sound(s), cache' = [cache EXCEPT ![n] = s],
           UNCHANGED <<versions, written>>,
           \A d \in Elements(s) :
               \/ d \in Elements(cache[n])
               \/ /\ d.state # "modified"
                  /\ d.version \in 1 .. written[d.value.node][d.key]
                  /\ d.state = "invalid" =>
                        \E e \in Elements(cache[n]) : e.key = d.key /\
                            \E m \in Node \ {n} : written[m][d.key] > e.version
    PROVE  CachesHold' /\ VersionsHold' /\ CopiesHold' /\ NewerInvalidates
<1>1. \A p \in Node : Sound(cache[p])
    BY DEF Inv, CachesHold
<1>2. CachesHold' /\ VersionsHold' /\ CopiesHold'
    BY CopiesStep
<1>3. cache'[n] = s /\ \A p \in Node \ {n} : cache'[p] = cache[p]
    BY DEF Inv, CachesHold
<1>4. NewerInvalidates
  <2>. SUFFICES ASSUME NEW p \in Node, NEW k \in Key, Valid(cache[p], k),
                       Cached(cache'[p], k), ~Valid(cache'[p], k)
                PROVE  \E m \in Node \ {p} : written[m][k] > EntryOf(cache[p], k).version
      BY DEF NewerInvalidates
  <2>1. p = n
      BY <1>3
  <2>2. EntryOf(cache[n], k).state # "invalid"
      BY <2>1 DEF Valid
  <2>3. EntryOf(s, k).state = "invalid" /\ Cached(s, k)
      BY <1>3, <2>1 DEF Valid
  <2>4. EntryOf(s, k) \in Elements(s) /\ EntryOf(s, k).key = k
      BY <2>3, EntryOfProperties DEF Sound
  <2>5. \A e \in Elements(cache[n]) : e.key = k => e = EntryOf(cache[n], k)
      BY <1>1, EntryOfProperties DEF Sound
  <2>6. EntryOf(s, k) \notin Elements(cache[n])
      BY <2>2, <2>3, <2>4, <2>5
  <2>7. \E e \in Elements(cache[n]) : e.key = k /\
            \E m \in Node \ {n} : written[m][k] > e.version
      BY <2>3, <2>4, <2>6
  <2>. QED
      BY <2>1, <2>5, <2>7
<1>. QED
    BY <1>2, <1>4

\* Nothing changes in the caches.
LEMMA NoCacheStep ==
    ASSUME Inv, UNCHANGED <<cache, versions, written>>
    PROVE  CachesHold' /\ VersionsHold' /\ CopiesHold' /\ NewerInvalidates
<1>1. CachesHold' /\ VersionsHold' /\ CopiesHold'
    BY DEF Inv, CachesHold, VersionsHold, CopiesHold
<1>2. NewerInvalidates
    BY SMTT(60) DEF NewerInvalidates, Valid, Cached
<1>. QED
    BY <1>1, <1>2

\* One call changes.
LEMMA CallStep ==
    ASSUME Inv, NEW c \in Call, NEW x, CallHolds(x, written),
           calls' = [calls EXCEPT ![c] = x], written' = written
    PROVE  CallsHold'
BY DEF Inv, CallsHold, CallHolds

LEMMA LateStep ==
    ASSUME Inv, late' \subseteq late, written' = written
    PROVE  LateHold'
BY DEF Inv, LateHold

\* A sender gives up on a request.
LEMMA GivesUpHolds ==
    ASSUME Inv, NEW r, LateHolds(r, written), GivesUp(r), written' = written
    PROVE  LateHold'
BY DEF Inv, LateHold, GivesUp

\* The peers that a read asks.
LEMMA OtherNodesType ==
    ASSUME NEW n \in Node
    PROVE  OtherNodes(n) \in Seq(Node)
<1>1. Cluster \in Seq(Node)
    BY ClusterAssumption DEF Node
<1>2. \E i \in DOMAIN Cluster : Cluster[i] = n
    BY DEF Node, Range
<1>. QED
    BY <1>1, <1>2, RemoveAtProperties DEF OtherNodes

-----------------------------------------------------------------------------
(* What the handlers do to a cache *)

LEMMA BusReadHolds ==
    ASSUME Inv, NEW n \in Node, NEW k \in Key
    PROVE  /\ Sound(AfterBusRead(n, k))
           /\ \A d \in Elements(AfterBusRead(n, k)) :
                  \/ d \in Elements(cache[n])
                  \/ d.state = "shared" /\ d.version \in 1 .. written[d.value.node][d.key]
           /\ \A d \in Elements(AfterBusRead(n, k)) :
                  /\ d.state = "modified" => d \in Elements(cache[n]) /\ d.key # k
                  /\ \E e \in Elements(cache[n]) : SameWrite(d, e)
<1>. PICK s : s = cache[n]
    OBVIOUS
<1>1. Sound(s)
    BY DEF Inv, CachesHold
<1>2. CASE ~Valid(s, k)
  <2>1. AfterBusRead(n, k) = Touch(s, k)
      BY <1>2 DEF AfterBusRead
  <2>2. Elements(Touch(s, k)) = Elements(s) /\ Sound(Touch(s, k))
      BY <1>1, TouchProperties
  <2>3. \A d \in Elements(s) : d.key = k => d.state = "invalid"
      BY <1>1, <1>2, EntryOfProperties DEF Sound, Valid
  <2>. QED
      BY <2>1, <2>2, <2>3 DEF SameWrite
<1>3. CASE Valid(s, k)
  <2>. PICK t \in State : t = "shared"
      BY DEF State
  <2>. PICK e : e = WithState(EntryOf(s, k), t)
      OBVIOUS
  <2>1. Cached(s, k) /\ EntryOf(s, k).state # "invalid"
      BY <1>3 DEF Valid
  <2>2. AfterBusRead(n, k) = Mark(s, k, t)
      BY <1>3, <2>1 DEF AfterBusRead, OnBusRead
  <2>3. /\ Sound(Mark(s, k, t))
        /\ Elements(Mark(s, k, t)) = {d \in Elements(s) : d.key # k} \cup {e}
        /\ e.key = k /\ e.state = "shared"
        /\ e.value = EntryOf(s, k).value /\ e.version = EntryOf(s, k).version
      BY <1>1, <2>1, MarkProperties
  <2>4. EntryOf(s, k) \in Elements(s) /\ EntryOf(s, k).key = k
      BY <1>1, <2>1, EntryOfProperties DEF Sound
  <2>5. e.version \in 1 .. written[e.value.node][e.key]
      BY <2>3, <2>4 DEF Inv, CopiesHold
  <2>6. SameWrite(e, EntryOf(s, k)) /\ \A d \in Elements(s) : SameWrite(d, d)
      BY <2>3, <2>4 DEF SameWrite
  <2>. QED
      BY <2>2, <2>3, <2>4, <2>5, <2>6
<1>. QED
    BY <1>2, <1>3

LEMMA BusWriteHolds ==
    ASSUME Inv, NEW n \in Node, NEW k \in Key, NEW version \in Nat
    PROVE  /\ Sound(AfterBusWrite(n, k, version))
           /\ \A d \in Elements(AfterBusWrite(n, k, version)) :
                  \/ d \in Elements(cache[n])
                  \/ /\ d.state = "invalid" /\ d.key = k
                     /\ d.version \in 1 .. written[d.value.node][d.key]
                     /\ \E e \in Elements(cache[n]) : e.key = k /\ version > e.version
           /\ \A d \in Elements(AfterBusWrite(n, k, version)) :
                  /\ d.state = "modified" => d \in Elements(cache[n])
                  /\ \E e \in Elements(cache[n]) : SameWrite(d, e)
<1>. PICK s : s = cache[n]
    OBVIOUS
<1>1. Sound(s)
    BY DEF Inv, CachesHold
<1>2. CASE ~(Cached(s, k) /\ version > EntryOf(s, k).version)
  <2>1. AfterBusWrite(n, k, version) = Touch(s, k)
      BY <1>2 DEF AfterBusWrite
  <2>. QED
      BY <1>1, <2>1, TouchProperties DEF SameWrite
<1>3. CASE Cached(s, k) /\ version > EntryOf(s, k).version
  <2>. PICK t \in State : t = "invalid"
      BY DEF State
  <2>. PICK e : e = WithState(EntryOf(s, k), t)
      OBVIOUS
  <2>1. AfterBusWrite(n, k, version) = Mark(s, k, t)
      BY <1>3 DEF AfterBusWrite, OnBusWrite
  <2>2. /\ Sound(Mark(s, k, t))
        /\ Elements(Mark(s, k, t)) = {d \in Elements(s) : d.key # k} \cup {e}
        /\ e.key = k /\ e.state = "invalid"
        /\ e.value = EntryOf(s, k).value /\ e.version = EntryOf(s, k).version
      BY <1>1, <1>3, MarkProperties
  <2>3. EntryOf(s, k) \in Elements(s) /\ EntryOf(s, k).key = k
      BY <1>1, <1>3, EntryOfProperties DEF Sound
  <2>4. e.version \in 1 .. written[e.value.node][e.key]
      BY <2>2, <2>3 DEF Inv, CopiesHold
  <2>5. SameWrite(e, EntryOf(s, k)) /\ \A d \in Elements(s) : SameWrite(d, d)
      BY <2>2, <2>3 DEF SameWrite
  <2>. QED
      BY <1>3, <2>1, <2>2, <2>3, <2>4, <2>5
<1>. QED
    BY <1>2, <1>3

-----------------------------------------------------------------------------
(* The actions *)

LEMMA StartReadHolds ==
    ASSUME Inv, NEW c \in Call, NEW n \in Node, NEW k \in Key, StartRead(c, n, k)
    PROVE  Inv' /\ NewerInvalidates
<1>. DEFINE x == IF Valid(cache[n], k) \/ OtherNodes(n) = <<>> THEN Idle
                 ELSE [op |-> "read", node |-> n, key |-> k,
                       peers |-> OtherNodes(n), answer |-> NoAnswer]
<1>1. Sound(Touch(cache[n], k)) /\ Elements(Touch(cache[n], k)) = Elements(cache[n])
    BY TouchProperties DEF Inv, CachesHold
<1>2. CachesHold' /\ VersionsHold' /\ CopiesHold' /\ NewerInvalidates
  <2>1. cache' = [cache EXCEPT ![n] = Touch(@, k)] /\ UNCHANGED <<versions, written>>
      BY DEF StartRead
  <2>. QED
      BY <1>1, <2>1, CacheStep
<1>3. CallHolds(x, written)
    BY OtherNodesType DEF CallHolds, Idle, Reading, NoAnswer, Answers
<1>4. CallsHold'
  <2>1. calls' = [calls EXCEPT ![c] = x] /\ written' = written
      BY DEF StartRead
  <2>. HIDE DEF x
  <2>. QED
      BY <1>3, <2>1, CallStep
<1>5. LateHold' /\ restarts' \in 0 .. MaxRestarts
    BY LateStep DEF StartRead, Inv
<1>. QED
    BY <1>2, <1>4, <1>5 DEF Inv

\* The answer to a read is a copy that is shared from now on, or nothing.
LEMMA AnswerHolds ==
    ASSUME Inv, NEW n \in Node, NEW k \in Key
    PROVE  /\ Answer(n, k) \in Answers
           /\ Answer(n, k).status = "found" =>
                  /\ Answer(n, k).entry.state # "modified"
                  /\ Answer(n, k).entry.version \in
                         1 .. written[Answer(n, k).entry.value.node][Answer(n, k).entry.key]
                  /\ Answer(n, k).entry.key = k
                  /\ \E e \in Elements(cache[n]) : SameWrite(Answer(n, k).entry, e)
<1>1. CASE ~Valid(cache[n], k)
    BY <1>1 DEF Answer, Missing, Answers
<1>2. CASE Valid(cache[n], k)
  <2>. DEFINE e == EntryOf(cache[n], k)
              f == [e EXCEPT !.state = OnBusRead(e)]
  <2>1. e \in Elements(cache[n]) /\ e \in Entry /\ e.key = k
      BY <1>2, EntryOfProperties DEF Inv, CachesHold, Sound, Valid
  <2>2. OnBusRead(e) = "shared"
      BY <1>2 DEF Valid, OnBusRead
  <2>3. /\ f \in Entry /\ f.state = "shared"
        /\ f.value = e.value /\ f.key = e.key /\ f.version = e.version
      BY <2>1, <2>2 DEF Entry, State
  <2>4. f.version \in 1 .. written[f.value.node][f.key]
      BY <2>1, <2>3 DEF Inv, CopiesHold
  <2>5. Answer(n, k) = [status |-> "found", entry |-> f]
      BY <1>2 DEF Answer
  <2>6. SameWrite(f, e)
      BY <2>3 DEF SameWrite
  <2>. HIDE DEF e, f
  <2>. QED
      BY <2>1, <2>3, <2>4, <2>5, <2>6 DEF Answers
<1>. QED
    BY <1>1, <1>2

LEMMA HandleReadHolds ==
    ASSUME Inv, NEW c \in Call, HandleRead(c)
    PROVE  Inv' /\ NewerInvalidates
<1>1. /\ calls[c] \in Reading /\ calls[c].peers # <<>>
      /\ calls[c].key \in Key /\ CallHolds(calls[c], written)
    BY DEF HandleRead, Inv, CallsHold, CallHolds, Idle, Reading, Writing
<1>2. PICK p, k : p = Head(calls[c].peers) /\ k = calls[c].key
    OBVIOUS
<1>3. p \in Node /\ k \in Key
    BY <1>1, <1>2, HeadTailProperties DEF Reading
<1>4. /\ calls' = [calls EXCEPT ![c].answer = Answer(p, k)]
      /\ cache' = [cache EXCEPT ![p] = AfterBusRead(p, k)]
      /\ UNCHANGED <<versions, late, written, restarts>>
    BY <1>2 DEF HandleRead
<1>5. CachesHold' /\ VersionsHold' /\ CopiesHold' /\ NewerInvalidates
  <2>1. /\ Sound(AfterBusRead(p, k))
        /\ \A d \in Elements(AfterBusRead(p, k)) :
               \/ d \in Elements(cache[p])
               \/ d.state = "shared" /\ d.version \in 1 .. written[d.value.node][d.key]
      BY <1>3, BusReadHolds
  <2>. QED
      BY <1>3, <1>4, <2>1, CacheStep
<1>6. CallsHold'
  <2>. DEFINE x == [calls[c] EXCEPT !.answer = Answer(p, k)]
  <2>1. /\ Answer(p, k) \in Answers
        /\ Answer(p, k).status = "found" =>
               /\ Answer(p, k).entry.state # "modified"
               /\ Answer(p, k).entry.version \in
                      1 .. written[Answer(p, k).entry.value.node][Answer(p, k).entry.key]
      BY <1>3, AnswerHolds
  <2>2. /\ x \in Reading /\ x.op = "read" /\ x.peers = calls[c].peers
        /\ x.answer = Answer(p, k)
      BY <1>1, <2>1 DEF Reading
  <2>3. calls' = [calls EXCEPT ![c] = x]
      BY <1>4
  <2>. HIDE DEF x
  <2>4. CallHolds(x, written)
      BY <1>1, <2>1, <2>2 DEF CallHolds
  <2>. QED
      BY <1>4, <2>3, <2>4, CallStep
<1>7. LateHold' /\ restarts' \in 0 .. MaxRestarts
    BY <1>4, LateStep DEF Inv
<1>. QED
    BY <1>5, <1>6, <1>7 DEF Inv

LEMMA ReadOnHolds ==
    ASSUME Inv, NEW c \in Call, ReadOn(c)
    PROVE  Inv' /\ NewerInvalidates
<1>1. calls[c] \in Reading /\ calls[c].peers # <<>>
    BY DEF ReadOn, Inv, CallsHold, CallHolds, Idle, Reading, Writing
<1>2. CachesHold' /\ VersionsHold' /\ CopiesHold' /\ NewerInvalidates
    BY NoCacheStep DEF ReadOn
<1>3. CallHolds(AskNext(calls[c]), written)
  <2>1. CASE Len(calls[c].peers) = 1
      BY <2>1 DEF AskNext, CallHolds, Idle
  <2>2. CASE Len(calls[c].peers) # 1
    <3>. DEFINE x == [calls[c] EXCEPT !.peers = Tail(@), !.answer = NoAnswer]
    <3>1. calls[c].peers \in Seq(Node) /\ Len(calls[c].peers) \in Nat \ {0}
        BY <1>1, EmptySeq, LenProperties DEF Reading
    <3>2. Tail(calls[c].peers) \in Seq(Node) /\ Tail(calls[c].peers) # <<>>
      <4>1. PICK q : q = calls[c].peers
          OBVIOUS
      <4>2. q \in Seq(Node) /\ q # <<>> /\ Len(q) \in Nat \ {0, 1}
          BY <1>1, <2>2, <3>1, <4>1
      <4>3. Tail(q) \in Seq(Node) /\ Len(Tail(q)) = Len(q) - 1
          BY <4>2, HeadTailProperties
      <4>4. Len(<<>>) = 0 /\ Len(Tail(q)) # 0
          BY <4>2, <4>3
      <4>. QED
          BY <4>1, <4>3, <4>4
    <3>3. x \in Reading /\ x.op = "read" /\ x.peers # <<>> /\ x.answer.status = "none"
        BY <1>1, <3>2 DEF Reading, Answers, NoAnswer
    <3>4. AskNext(calls[c]) = x
        BY <2>2 DEF AskNext
    <3>. HIDE DEF x
    <3>. QED
        BY <3>3, <3>4 DEF CallHolds
  <2>. QED
      BY <2>1, <2>2
<1>4. CallsHold'
  <2>1. calls' = [calls EXCEPT ![c] = AskNext(calls[c])] /\ written' = written
      BY DEF ReadOn
  <2>. QED
      BY <1>3, <2>1, CallStep
<1>5. LateHold'
  <2>. DEFINE r == [type |-> "read", to |-> Head(calls[c].peers),
                    key |-> calls[c].key, version |-> 0]
  <2>1. Head(calls[c].peers) \in Node
      BY <1>1, HeadTailProperties DEF Reading
  <2>2. LateHolds(r, written)
      BY <1>1, <2>1 DEF LateHolds, Request, Reading
  <2>3. late' \subseteq late \/ GivesUp(r)
      BY DEF ReadOn
  <2>4. written' = written
      BY DEF ReadOn
  <2>. HIDE DEF r
  <2>. QED
      BY <2>2, <2>3, <2>4, GivesUpHolds, LateStep
<1>6. restarts' \in 0 .. MaxRestarts
    BY DEF ReadOn, Inv
<1>. QED
    BY <1>2, <1>4, <1>5, <1>6 DEF Inv

LEMMA FillHolds ==
    ASSUME Inv, NEW c \in Call, Fill(c)
    PROVE  Inv' /\ NewerInvalidates
<1>1. /\ calls[c] \in Reading /\ calls[c].answer.status = "found"
      /\ CallHolds(calls[c], written) /\ calls[c].op = "read"
    BY DEF Fill, Inv, CallsHold, CallHolds, Idle, Reading, Writing
<1>2. PICK n, e, f :
          /\ n = calls[c].node
          /\ e = calls[c].answer.entry
          /\ f = [e EXCEPT !.state = IF e.state = "shared" THEN "shared" ELSE "exclusive"]
    OBVIOUS
<1>3. n \in Node /\ e \in Entry
    BY <1>1, <1>2 DEF Reading, Answers, NoAnswer, Missing
<1>4. /\ f \in Entry /\ f.state \in {"shared", "exclusive"}
      /\ f.version \in 1 .. written[f.value.node][f.key]
  <2>1. /\ f \in Entry /\ f.state \in {"shared", "exclusive"}
        /\ f.value = e.value /\ f.key = e.key /\ f.version = e.version
      BY <1>2, <1>3 DEF Entry, State
  <2>. QED
      BY <1>1, <1>2, <2>1 DEF CallHolds
<1>5. /\ cache' = [cache EXCEPT ![n] = Put(cache[n], f)]
      /\ calls' = [calls EXCEPT ![c] = Idle]
      /\ UNCHANGED <<versions, late, written, restarts>>
    BY <1>2 DEF Fill
<1>6. CachesHold' /\ VersionsHold' /\ CopiesHold' /\ NewerInvalidates
  <2>1. Sound(cache[n])
      BY <1>3 DEF Inv, CachesHold
  <2>2. /\ Sound(Put(cache[n], f))
        /\ \A d \in Elements(Put(cache[n], f)) : d = f \/ d \in Elements(cache[n])
      BY <1>4, <2>1, PutProperties
  <2>3. f.state # "modified" /\ f.state # "invalid"
      BY <1>4
  <2>. QED
      BY <1>3, <1>4, <1>5, <2>2, <2>3, CacheStep
<1>7. CallsHold'
  <2>1. CallHolds(Idle, written)
      BY DEF CallHolds, Idle
  <2>. QED
      BY <1>5, <2>1, CallStep
<1>8. LateHold' /\ restarts' \in 0 .. MaxRestarts
    BY <1>5, LateStep DEF Inv
<1>. QED
    BY <1>6, <1>7, <1>8 DEF Inv

LEMMA StartWriteHolds ==
    ASSUME Inv, NEW c \in Call, NEW n \in Node, NEW k \in Key, StartWrite(c, n, k)
    PROVE  Inv' /\ NewerInvalidates
<1>. DEFINE x == [op |-> "write", node |-> n, key |-> k, version |-> versions[n][k],
                  waiting |-> Node \ {n}]
<1>1. /\ cache' = [cache EXCEPT ![n] = Touch(@, k)]
      /\ calls' = [calls EXCEPT ![c] = x]
      /\ UNCHANGED <<versions, late, written, restarts>>
    BY DEF StartWrite
<1>2. Sound(Touch(cache[n], k)) /\ Elements(Touch(cache[n], k)) = Elements(cache[n])
    BY TouchProperties DEF Inv, CachesHold
<1>3. CachesHold' /\ VersionsHold' /\ CopiesHold' /\ NewerInvalidates
    BY <1>1, <1>2, CacheStep
<1>4. CallHolds(x, written)
    BY DEF CallHolds, Inv, VersionsHold, Writing
<1>5. CallsHold'
  <2>. HIDE DEF x
  <2>. QED
      BY <1>1, <1>4, CallStep
<1>6. LateHold' /\ restarts' \in 0 .. MaxRestarts
    BY <1>1, LateStep DEF Inv
<1>. QED
    BY <1>3, <1>5, <1>6 DEF Inv

\* A peer answers, or its RPC is over: the write waits for one peer less.
LEMMA OneLessToWaitFor ==
    ASSUME Inv, NEW c \in Call, calls[c].op = "write", NEW p,
           calls' = [calls EXCEPT ![c].waiting = @ \ {p}], written' = written
    PROVE  CallsHold'
<1>. DEFINE x == [calls[c] EXCEPT !.waiting = @ \ {p}]
<1>1. calls[c] \in Writing /\ CallHolds(calls[c], written)
    BY DEF Inv, CallsHold, CallHolds, Idle, Reading, Writing
<1>2. /\ x \in Writing /\ x.op = "write"
      /\ x.version = calls[c].version /\ x.node = calls[c].node /\ x.key = calls[c].key
      /\ x.waiting \subseteq calls[c].waiting
    BY <1>1 DEF Writing
<1>3. calls' = [calls EXCEPT ![c] = x]
    OBVIOUS
<1>. HIDE DEF x
<1>4. CallHolds(x, written)
    BY <1>1, <1>2 DEF CallHolds
<1>. QED
    BY <1>3, <1>4, CallStep

LEMMA HandleInvalidateHolds ==
    ASSUME Inv, NEW c \in Call, NEW p \in Node, HandleInvalidate(c, p)
    PROVE  Inv' /\ NewerInvalidates
<1>1. /\ calls[c] \in Writing /\ calls[c].op = "write" /\ p \in calls[c].waiting
      /\ CallHolds(calls[c], written)
    BY DEF HandleInvalidate, Inv, CallsHold, CallHolds, Idle, Reading, Writing
<1>2. PICK k, v, m : k = calls[c].key /\ v = calls[c].version /\ m = calls[c].node
    OBVIOUS
<1>3. k \in Key /\ v \in Nat /\ m \in Node \ {p} /\ v <= written[m][k]
    BY <1>1, <1>2 DEF Writing, CallHolds
<1>4. /\ cache' = [cache EXCEPT ![p] = AfterBusWrite(p, k, v)]
      /\ calls' = [calls EXCEPT ![c].waiting = @ \ {p}]
      /\ UNCHANGED <<versions, late, written, restarts>>
    BY <1>2 DEF HandleInvalidate
<1>5. CachesHold' /\ VersionsHold' /\ CopiesHold' /\ NewerInvalidates
  <2>1. /\ Sound(AfterBusWrite(p, k, v))
        /\ \A d \in Elements(AfterBusWrite(p, k, v)) :
               \/ d \in Elements(cache[p])
               \/ /\ d.state = "invalid" /\ d.key = k
                  /\ d.version \in 1 .. written[d.value.node][d.key]
                  /\ \E e \in Elements(cache[p]) : e.key = k /\ v > e.version
      BY <1>3, BusWriteHolds
  <2>2. ASSUME NEW e \in Elements(cache[p]), v > e.version
        PROVE  written[m][k] > e.version
    <3>1. e.version \in Nat
        BY <2>2, EntryOfProperties DEF Inv, CachesHold, Sound, Entry
    <3>2. written[m][k] \in Nat
        BY <1>3 DEF Inv, VersionsHold
    <3>. QED
        BY <1>3, <2>2, <3>1, <3>2
  <2>. QED
      BY <1>3, <1>4, <2>1, <2>2, CacheStep
<1>6. CallsHold'
    BY <1>1, <1>4, OneLessToWaitFor
<1>7. LateHold' /\ restarts' \in 0 .. MaxRestarts
    BY <1>4, LateStep DEF Inv
<1>. QED
    BY <1>5, <1>6, <1>7 DEF Inv

LEMMA InvalidateFailsHolds ==
    ASSUME Inv, NEW c \in Call, NEW p \in Node, InvalidateFails(c, p)
    PROVE  Inv' /\ NewerInvalidates
<1>. DEFINE r == [type |-> "invalidate", to |-> p, key |-> calls[c].key,
                  version |-> calls[c].version]
<1>1. /\ calls[c] \in Writing /\ calls[c].op = "write" /\ p \in calls[c].waiting
      /\ CallHolds(calls[c], written)
    BY DEF InvalidateFails, Inv, CallsHold, CallHolds, Idle, Reading, Writing
<1>2. /\ calls' = [calls EXCEPT ![c].waiting = @ \ {p}]
      /\ GivesUp(r)
      /\ UNCHANGED <<cache, versions, written, restarts>>
    BY DEF InvalidateFails
<1>3. LateHolds(r, written)
  <2>1. r \in Request /\ r.to = p /\ r.key = calls[c].key /\ r.version = calls[c].version
      BY <1>1 DEF Request, Writing
  <2>2. calls[c].node \in Node \ {p}
      BY <1>1 DEF CallHolds, Writing
  <2>. HIDE DEF r
  <2>. QED
      BY <1>1, <2>1, <2>2 DEF LateHolds, CallHolds
<1>. HIDE DEF r
<1>4. CachesHold' /\ VersionsHold' /\ CopiesHold' /\ NewerInvalidates
    BY <1>2, NoCacheStep
<1>5. CallsHold'
    BY <1>1, <1>2, OneLessToWaitFor
<1>6. LateHold' /\ restarts' \in 0 .. MaxRestarts
    BY <1>2, <1>3, GivesUpHolds DEF Inv
<1>. QED
    BY <1>4, <1>5, <1>6 DEF Inv

\* More is written than before: what was a write stays one.
LEMMA WrittenGrows ==
    ASSUME NEW w \in [Node -> [Key -> Nat]], NEW v \in [Node -> [Key -> Nat]],
           \A n \in Node, k \in Key : w[n][k] <= v[n][k]
    PROVE  /\ \A x : CallHolds(x, w) => CallHolds(x, v)
           /\ \A r : LateHolds(r, w) => LateHolds(r, v)
<1>1. ASSUME NEW x, CallHolds(x, w)
      PROVE  CallHolds(x, v)
  <2>1. CASE x = Idle
      BY <2>1 DEF CallHolds, Idle
  <2>2. CASE x \in Reading
    <3>1. x.op = "read" /\ x.answer \in Answers /\ x.peers # <<>>
        BY <1>1, <2>2 DEF Reading, CallHolds
    <3>2. ASSUME x.answer.status = "found"
          PROVE  /\ x.answer.entry.state # "modified"
                 /\ x.answer.entry.version \in
                        1 .. v[x.answer.entry.value.node][x.answer.entry.key]
      <4>1. PICK e : e = x.answer.entry
          OBVIOUS
      <4>2. e \in Entry
          BY <3>1, <3>2, <4>1 DEF Answers, NoAnswer, Missing
      <4>3. e.value.node \in Node /\ e.key \in Key
          BY <4>2 DEF Entry, Value
      <4>4. e.state # "modified" /\ e.version \in 1 .. w[e.value.node][e.key]
          BY <1>1, <3>1, <3>2, <4>1 DEF CallHolds
      <4>5. w[e.value.node][e.key] \in Nat /\ v[e.value.node][e.key] \in Nat
            /\ w[e.value.node][e.key] <= v[e.value.node][e.key]
          BY <4>3
      <4>. QED
          BY <4>1, <4>4, <4>5
    <3>. QED
        BY <2>2, <3>1, <3>2 DEF CallHolds
  <2>3. CASE x \in Writing
    <3>1. /\ x.op = "write" /\ x.node \in Node /\ x.key \in Key /\ x.version \in Nat
          /\ x.version <= w[x.node][x.key] /\ x.waiting \subseteq Node \ {x.node}
        BY <1>1, <2>3 DEF Writing, CallHolds
    <3>2. w[x.node][x.key] \in Nat /\ v[x.node][x.key] \in Nat
          /\ w[x.node][x.key] <= v[x.node][x.key]
        BY <3>1
    <3>3. x.version <= v[x.node][x.key]
        BY <3>1, <3>2
    <3>. QED
        BY <2>3, <3>1, <3>3 DEF CallHolds
  <2>. QED
      BY <1>1, <2>1, <2>2, <2>3 DEF CallHolds
<1>2. ASSUME NEW r, LateHolds(r, w)
      PROVE  LateHolds(r, v)
  <2>1. r \in Request /\ r.key \in Key /\ r.version \in Nat
      BY <1>2 DEF LateHolds, Request
  <2>2. ASSUME NEW m \in Node, r.version <= w[m][r.key]
        PROVE  r.version <= v[m][r.key]
    <3>1. w[m][r.key] \in Nat /\ v[m][r.key] \in Nat /\ w[m][r.key] <= v[m][r.key]
        BY <2>1
    <3>. QED
        BY <2>1, <2>2, <3>1
  <2>. QED
      BY <1>2, <2>1, <2>2 DEF LateHolds
<1>. QED
    BY <1>1, <1>2

LEMMA FinishWriteHolds ==
    ASSUME Inv, NEW c \in Call, FinishWrite(c)
    PROVE  Inv' /\ NewerInvalidates
<1>1. calls[c] \in Writing
    BY DEF FinishWrite, Inv, CallsHold, Idle, Reading, Writing
<1>2. PICK n, k, v, e :
          /\ n = calls[c].node /\ k = calls[c].key /\ v = versions[n][k] + 1
          /\ e = [key |-> k, value |-> [node |-> n, run |-> restarts],
                  state |-> "modified", version |-> v]
    OBVIOUS
<1>3. n \in Node /\ k \in Key
    BY <1>1, <1>2 DEF Writing
<1>4. /\ versions \in [Node -> [Key -> Nat]] /\ written \in [Node -> [Key -> Nat]]
      /\ \A p \in Node, q \in Key : versions[p][q] <= written[p][q]
    BY DEF Inv, VersionsHold
<1>5. v \in Nat /\ v > versions[n][k] /\ v >= 1
    BY <1>2, <1>3, <1>4
<1>6. e \in Entry
  <2>1. restarts \in Nat
      BY BoundsAssumption DEF Inv
  <2>. QED
      BY <1>2, <1>3, <1>5, <2>1 DEF Entry, State, Value
<1>7. /\ versions' = [versions EXCEPT ![n][k] = v]
      /\ written' = [written EXCEPT ![n][k] = IF v > @ THEN v ELSE @]
      /\ cache' = [cache EXCEPT ![n] = Put(@, e)]
      /\ calls' = [calls EXCEPT ![c] = Idle]
      /\ UNCHANGED <<late, restarts>>
    BY <1>2 DEF FinishWrite, NewVersion, OnLocalWrite
<1>8. /\ versions' \in [Node -> [Key -> Nat]] /\ written' \in [Node -> [Key -> Nat]]
      /\ versions'[n][k] = v /\ v <= written'[n][k]
      /\ \A p \in Node, q \in Key : written[p][q] <= written'[p][q]
      /\ \A p \in Node, q \in Key : p # n \/ q # k => versions'[p][q] = versions[p][q]
  <2>1. versions' \in [Node -> [Key -> Nat]] /\ written' \in [Node -> [Key -> Nat]]
      BY <1>3, <1>4, <1>5, <1>7
  <2>2. /\ versions'[n][k] = v
        /\ \A p \in Node, q \in Key : p # n \/ q # k => versions'[p][q] = versions[p][q]
      BY <1>3, <1>4, <1>7
  <2>3. /\ written'[n][k] = IF v > written[n][k] THEN v ELSE written[n][k]
        /\ \A p \in Node, q \in Key : p # n \/ q # k => written'[p][q] = written[p][q]
      BY <1>3, <1>4, <1>7
  <2>4. written[n][k] \in Nat
      BY <1>3, <1>4
  <2>5. ASSUME NEW p \in Node, NEW q \in Key
        PROVE  written[p][q] <= written'[p][q]
      BY <1>4, <1>5, <2>3, <2>4
  <2>. QED
      BY <1>5, <2>1, <2>2, <2>3, <2>4, <2>5
<1>9. VersionsHold'
  <2>1. ASSUME NEW p \in Node, NEW q \in Key
        PROVE  versions'[p][q] <= written'[p][q]
    <3>1. CASE p = n /\ q = k
        BY <1>8, <3>1
    <3>2. CASE p # n \/ q # k
      <4>1. /\ versions[p][q] \in Nat /\ written[p][q] \in Nat /\ written'[p][q] \in Nat
            /\ versions[p][q] <= written[p][q] /\ written[p][q] <= written'[p][q]
            /\ versions'[p][q] = versions[p][q]
          BY <1>4, <1>8, <3>2
      <4>. QED
          BY <4>1
    <3>. QED
        BY <3>1, <3>2
  <2>. QED
      BY <1>8, <2>1 DEF VersionsHold
<1>10. /\ Sound(Put(cache[n], e)) /\ e \in Elements(Put(cache[n], e))
       /\ \A d \in Elements(Put(cache[n], e)) :
              d = e \/ (d \in Elements(cache[n]) /\ d.key # e.key)
    BY <1>3, <1>6, PutProperties DEF Inv, CachesHold
<1>11. /\ cache \in [Node -> Seq(Entry)] /\ cache' \in [Node -> Seq(Entry)]
       /\ cache'[n] = Put(cache[n], e)
       /\ \A p \in Node \ {n} : cache'[p] = cache[p]
       /\ \A p \in Node : Sound(cache[p]) /\ Sound(cache'[p])
    BY <1>3, <1>7, <1>10 DEF Inv, CachesHold, Sound, OneEntryPerKey
<1>12. CachesHold'
    BY <1>11, SMTT(60) DEF CachesHold
<1>13. CopiesHold'
  <2>. SUFFICES ASSUME NEW p \in Node, NEW d \in Elements(cache'[p])
                PROVE  /\ d.state = "modified" => d.value.node = p /\ d.version = versions'[p][d.key]
                       /\ d.version \in 1 .. written'[d.value.node][d.key]
      BY DEF CopiesHold
  <2>1. CASE p = n /\ d = e
      BY <1>2, <1>3, <1>5, <1>8, <2>1
  <2>2. CASE d \in Elements(cache[p]) /\ (p = n => d.key # k)
    <3>1. d \in Entry
        BY <1>11, <2>2, EntryOfProperties DEF Sound
    <3>2. d.value.node \in Node /\ d.key \in Key /\ d.version \in Nat
        BY <3>1 DEF Entry, Value
    <3>3. /\ d.state = "modified" => d.value.node = p /\ d.version = versions[p][d.key]
          /\ d.version \in 1 .. written[d.value.node][d.key]
        BY <2>2 DEF Inv, CopiesHold
    <3>4. versions'[p][d.key] = versions[p][d.key]
        BY <1>8, <2>2, <3>2
    <3>5. /\ written[d.value.node][d.key] \in Nat /\ written'[d.value.node][d.key] \in Nat
          /\ written[d.value.node][d.key] <= written'[d.value.node][d.key]
        BY <1>4, <1>8, <3>2
    <3>. QED
        BY <3>3, <3>4, <3>5
  <2>. QED
      BY <1>2, <1>10, <1>11, <2>1, <2>2
<1>14. CallsHold'
  <2>1. \A x \in Call : CallHolds(calls[x], written')
      BY <1>4, <1>8, WrittenGrows DEF Inv, CallsHold
  <2>2. CallHolds(Idle, written')
      BY DEF CallHolds, Idle
  <2>. QED
      BY <1>7, <2>1, <2>2 DEF Inv, CallsHold
<1>15. LateHold'
  <2>1. \A r \in late : LateHolds(r, written')
      BY <1>4, <1>8, WrittenGrows DEF Inv, LateHold
  <2>. QED
      BY <1>7, <2>1 DEF LateHold
<1>16. NewerInvalidates
  <2>. SUFFICES ASSUME NEW p \in Node, NEW q \in Key, Valid(cache[p], q),
                       Cached(cache'[p], q), ~Valid(cache'[p], q)
                PROVE  FALSE
      BY DEF NewerInvalidates
  <2>1. p = n
      BY <1>11
  <2>2. EntryOf(cache[n], q).state # "invalid"
      BY <2>1 DEF Valid
  <2>3. EntryOf(cache'[n], q).state = "invalid" /\ Cached(cache'[n], q)
      BY <2>1 DEF Valid
  <2>4. EntryOf(cache'[n], q) \in Elements(cache'[n]) /\ EntryOf(cache'[n], q).key = q
      BY <1>3, <1>11, <2>3, EntryOfProperties DEF Sound
  <2>5. EntryOf(cache'[n], q) # e
      BY <1>2, <2>3
  <2>6. EntryOf(cache'[n], q) \in Elements(cache[n])
      BY <1>10, <1>11, <2>4, <2>5
  <2>7. EntryOf(cache'[n], q) = EntryOf(cache[n], q)
      BY <1>3, <1>11, <2>4, <2>6, EntryOfProperties DEF Sound
  <2>. QED
      BY <2>2, <2>3, <2>7
<1>17. restarts' \in 0 .. MaxRestarts
    BY <1>7 DEF Inv
<1>. QED
    BY <1>9, <1>12, <1>13, <1>14, <1>15, <1>16, <1>17 DEF Inv

LEMMA HandleLateHolds ==
    ASSUME Inv, NEW r \in late, HandleLate(r)
    PROVE  Inv' /\ NewerInvalidates
<1>1. LateHolds(r, written)
    BY DEF Inv, LateHold
<1>2. PICK n, k, v : n = r.to /\ k = r.key /\ v = r.version
    OBVIOUS
<1>3. n \in Node /\ k \in Key /\ v \in Nat /\ r.type \in {"read", "invalidate"}
    BY <1>1, <1>2 DEF LateHolds, Request
<1>4. /\ cache' = [cache EXCEPT ![n] = IF r.type = "read" THEN AfterBusRead(n, k)
                                       ELSE AfterBusWrite(n, k, v)]
      /\ late' = late \ {r}
      /\ UNCHANGED <<versions, calls, written, restarts>>
    BY <1>2 DEF HandleLate
<1>5. CachesHold' /\ VersionsHold' /\ CopiesHold' /\ NewerInvalidates
  <2>1. CASE r.type = "read"
    <3>1. /\ Sound(AfterBusRead(n, k))
          /\ \A d \in Elements(AfterBusRead(n, k)) :
                 \/ d \in Elements(cache[n])
                 \/ d.state = "shared" /\ d.version \in 1 .. written[d.value.node][d.key]
        BY <1>3, BusReadHolds
    <3>2. cache' = [cache EXCEPT ![n] = AfterBusRead(n, k)]
        BY <1>4, <2>1
    <3>. QED
        BY <1>3, <1>4, <3>1, <3>2, CacheStep
  <2>2. CASE r.type = "invalidate"
    <3>1. /\ Sound(AfterBusWrite(n, k, v))
          /\ \A d \in Elements(AfterBusWrite(n, k, v)) :
                 \/ d \in Elements(cache[n])
                 \/ /\ d.state = "invalid" /\ d.key = k
                    /\ d.version \in 1 .. written[d.value.node][d.key]
                    /\ \E e \in Elements(cache[n]) : e.key = k /\ v > e.version
        BY <1>3, BusWriteHolds
    <3>2. PICK m \in Node \ {n} : v <= written[m][k]
        BY <1>1, <1>2, <2>2 DEF LateHolds
    <3>3. ASSUME NEW e \in Elements(cache[n]), v > e.version
          PROVE  written[m][k] > e.version
      <4>1. e.version \in Nat
          BY <1>3, EntryOfProperties, ZenonT(60) DEF Inv, CachesHold, Sound, Entry
      <4>2. written[m][k] \in Nat
          BY <1>3 DEF Inv, VersionsHold
      <4>. QED
          BY <1>3, <3>2, <3>3, <4>1, <4>2
    <3>4. cache' = [cache EXCEPT ![n] = AfterBusWrite(n, k, v)]
        BY <1>4, <2>2
    <3>. QED
        BY <1>3, <1>4, <3>1, <3>2, <3>3, <3>4, CacheStep, ZenonT(60)
  <2>. QED
      BY <1>3, <2>1, <2>2
<1>6. CallsHold' /\ LateHold' /\ restarts' \in 0 .. MaxRestarts
  <2>1. LateHold'
      BY <1>4, LateStep
  <2>. QED
      BY <1>4, <2>1 DEF Inv, CallsHold
<1>. QED
    BY <1>5, <1>6 DEF Inv

LEMMA InvalidateHolds ==
    ASSUME Inv, NEW n \in Node, NEW k \in Key, Invalidate(n, k)
    PROVE  Inv' /\ NewerInvalidates
<1>. PICK t \in State : t = "invalid"
    BY DEF State
<1>. PICK s, e : s = cache[n] /\ e = WithState(EntryOf(s, k), t)
    OBVIOUS
<1>1. /\ Cached(s, k) /\ cache' = [cache EXCEPT ![n] = Mark(s, k, t)]
      /\ UNCHANGED <<versions, calls, late, written, restarts>>
    BY DEF Invalidate
<1>2. /\ Sound(Mark(s, k, t))
      /\ Elements(Mark(s, k, t)) = {d \in Elements(s) : d.key # k} \cup {e}
      /\ e.key = k /\ e.state = t
      /\ e.value = EntryOf(s, k).value /\ e.version = EntryOf(s, k).version
    BY <1>1, MarkProperties DEF Inv, CachesHold
<1>3. EntryOf(s, k) \in Elements(s) /\ EntryOf(s, k).key = k
    BY <1>1, EntryOfProperties DEF Inv, CachesHold, Sound
<1>4. e.version \in 1 .. written[e.value.node][e.key]
    BY <1>2, <1>3 DEF Inv, CopiesHold
<1>5. CachesHold' /\ VersionsHold' /\ CopiesHold'
  <2>1. \A d \in Elements(Mark(s, k, t)) :
            \/ d \in Elements(cache[n])
            \/ d.state # "modified" /\ d.version \in 1 .. written[d.value.node][d.key]
      BY <1>2, <1>4
  <2>. QED
      BY <1>1, <1>2, <2>1, CopiesStep
<1>6. NewerInvalidates
  <2>. SUFFICES ASSUME NEW p \in Node, NEW q \in Key, Valid(cache[p], q),
                       Cached(cache'[p], q), ~Valid(cache'[p], q), ~Invalidate(p, q)
                PROVE  FALSE
      BY DEF NewerInvalidates
  <2>1. \A m \in Node : Sound(cache[m]) /\ Sound(cache'[m])
      BY <1>5 DEF Inv, CachesHold
  <2>2. cache'[n] = Mark(s, k, t) /\ \A m \in Node \ {n} : cache'[m] = cache[m]
      BY <1>1 DEF Inv, CachesHold
  <2>3. p = n /\ q # k
      BY <2>2
  <2>4. EntryOf(cache'[n], q).state = "invalid" /\ EntryOf(cache[n], q).state # "invalid"
      BY <2>3 DEF Valid
  <2>5. EntryOf(cache'[n], q) \in Elements(cache'[n]) /\ EntryOf(cache'[n], q).key = q
      BY <2>1, <2>3, EntryOfProperties DEF Sound
  <2>6. EntryOf(cache'[n], q) \in Elements(cache[n])
      BY <1>2, <2>2, <2>3, <2>5
  <2>7. EntryOf(cache'[n], q) = EntryOf(cache[n], q)
      BY <2>1, <2>5, <2>6, EntryOfProperties DEF Sound
  <2>. QED
      BY <2>4, <2>7
<1>7. CallsHold' /\ LateHold' /\ restarts' \in 0 .. MaxRestarts
    BY <1>1 DEF Inv, CallsHold, LateHold
<1>. QED
    BY <1>5, <1>6, <1>7 DEF Inv

LEMMA RestartHolds ==
    ASSUME Inv, NEW n \in Node, Restart(n)
    PROVE  Inv' /\ NewerInvalidates
<1>1. /\ cache' = [cache EXCEPT ![n] = <<>>]
      /\ versions' = [versions EXCEPT ![n] = [k \in Key |-> 0]]
      /\ calls' = [c \in Call |->
             IF calls[c] # Idle /\ calls[c].node = n THEN Idle ELSE calls[c]]
      /\ late' \subseteq late
      /\ written' = written
      /\ restarts' = restarts + 1 /\ restarts < MaxRestarts
    BY DEF Restart
<1>2. restarts' \in 0 .. MaxRestarts
    BY <1>1, BoundsAssumption DEF Inv
<1>3. Sound(<<>>) /\ Elements(<<>>) = {}
    BY SizeAssumption, EmptySeq DEF Sound, OneEntryPerKey, Elements
<1>4. /\ cache' \in [Node -> Seq(Entry)]
      /\ cache'[n] = <<>> /\ \A p \in Node \ {n} : cache'[p] = cache[p]
    BY <1>1, EmptySeq DEF Inv, CachesHold
<1>5. CachesHold'
    BY <1>3, <1>4 DEF Inv, CachesHold
<1>6. /\ versions' \in [Node -> [Key -> Nat]]
      /\ \A k \in Key : versions'[n][k] = 0
      /\ \A p \in Node \ {n} : versions'[p] = versions[p]
    BY <1>1 DEF Inv, VersionsHold
<1>7. VersionsHold'
  <2>1. ASSUME NEW p \in Node, NEW k \in Key
        PROVE  versions'[p][k] <= written'[p][k]
      BY <1>1, <1>6 DEF Inv, VersionsHold
  <2>. QED
      BY <1>1, <1>6, <2>1 DEF Inv, VersionsHold
<1>8. CopiesHold'
  <2>. SUFFICES ASSUME NEW p \in Node, NEW d \in Elements(cache'[p])
                PROVE  /\ d.state = "modified" => d.value.node = p /\ d.version = versions'[p][d.key]
                       /\ d.version \in 1 .. written'[d.value.node][d.key]
      BY DEF CopiesHold
  <2>1. p # n /\ d \in Elements(cache[p])
      BY <1>3, <1>4
  <2>. QED
      BY <1>1, <1>6, <2>1 DEF Inv, CopiesHold
<1>9. CallsHold'
  <2>1. CallHolds(Idle, written)
      BY DEF CallHolds, Idle
  <2>. QED
      BY <1>1, <2>1 DEF Inv, CallsHold
<1>10. LateHold'
    BY <1>1, LateStep
<1>11. NewerInvalidates
  <2>1. ASSUME NEW p \in Node, NEW k \in Key, Cached(cache'[p], k)
        PROVE  cache'[p] = cache[p]
    <3>1. ~Cached(<<>>, k)
        BY DEF Cached
    <3>. QED
        BY <1>4, <2>1, <3>1
  <2>. QED
      BY <2>1 DEF NewerInvalidates
<1>. QED
    BY <1>2, <1>5, <1>7, <1>8, <1>9, <1>10, <1>11 DEF Inv

-----------------------------------------------------------------------------
(* All steps *)

LEMMA InitHolds == Init => Inv
<1>. SUFFICES ASSUME Init PROVE Inv
    OBVIOUS
<1>1. Sound(<<>>) /\ Elements(<<>>) = {}
    BY SizeAssumption, EmptySeq DEF Sound, OneEntryPerKey, Elements
<1>2. CachesHold /\ CopiesHold
    BY <1>1, EmptySeq DEF Init, CachesHold, CopiesHold
<1>3. VersionsHold
    BY DEF Init, VersionsHold
<1>4. CallsHold /\ LateHold
    BY DEF Init, CallsHold, CallHolds, LateHold, Idle
<1>. QED
    BY <1>2, <1>3, <1>4, BoundsAssumption DEF Init, Inv

LEMMA NextHolds == Inv /\ [Next]_vars => Inv' /\ NewerInvalidates
<1>. SUFFICES ASSUME Inv, [Next]_vars PROVE Inv' /\ NewerInvalidates
    OBVIOUS
<1>1. ASSUME NEW c \in Call, NEW n \in Node, NEW k \in Key,
             StartRead(c, n, k) \/ StartWrite(c, n, k)
      PROVE  Inv' /\ NewerInvalidates
    BY <1>1, StartReadHolds, StartWriteHolds
<1>2. ASSUME NEW c \in Call, HandleRead(c) \/ ReadOn(c) \/ Fill(c)
      PROVE  Inv' /\ NewerInvalidates
    BY <1>2, HandleReadHolds, ReadOnHolds, FillHolds
<1>3. ASSUME NEW c \in Call, NEW p \in Node,
             HandleInvalidate(c, p) \/ InvalidateFails(c, p)
      PROVE  Inv' /\ NewerInvalidates
    BY <1>3, HandleInvalidateHolds, InvalidateFailsHolds
<1>4. ASSUME NEW c \in Call, FinishWrite(c)
      PROVE  Inv' /\ NewerInvalidates
    BY <1>4, FinishWriteHolds
<1>5. ASSUME NEW r \in late, HandleLate(r)
      PROVE  Inv' /\ NewerInvalidates
    BY <1>5, HandleLateHolds
<1>6. ASSUME NEW n \in Node, NEW k \in Key, Invalidate(n, k)
      PROVE  Inv' /\ NewerInvalidates
    BY <1>6, InvalidateHolds
<1>7. ASSUME NEW n \in Node, Restart(n)
      PROVE  Inv' /\ NewerInvalidates
    BY <1>7, RestartHolds
<1>8. CASE UNCHANGED vars
  <2>1. UNCHANGED <<cache, versions, written>>
      BY <1>8 DEF vars
  <2>2. CachesHold' /\ VersionsHold' /\ CopiesHold' /\ NewerInvalidates
      BY <2>1, NoCacheStep
  <2>3. CallsHold' /\ LateHold' /\ restarts' \in 0 .. MaxRestarts
      BY <1>8 DEF vars, Inv, CallsHold, LateHold
  <2>. QED
      BY <2>2, <2>3 DEF Inv
<1>. QED
    BY <1>1, <1>2, <1>3, <1>4, <1>5, <1>6, <1>7, <1>8 DEF Next

-----------------------------------------------------------------------------
(* A modified copy is not shared *)

\* A counter is never behind a write of the run it is in: the next write of the
\* node is none that somebody holds.
Given(e) ==
    /\ e.value.run \in 0 .. restarts
    /\ e.value.run = restarts => e.version <= versions[e.value.node][e.key]

Answered == {calls[c].answer.entry :
                 c \in {c \in Call : /\ calls[c].op = "read"
                                     /\ calls[c].answer.status = "found"}}

AllGiven ==
    /\ \A n \in Node : \A e \in Elements(cache[n]) : Given(e)
    /\ \A e \in Answered : Given(e)

\* ModifiedIsUnshared, in the words of the proof.
Unshared ==
    \A n \in Node : \A e \in Elements(cache[n]) : e.state = "modified" =>
        /\ \A m \in Node \ {n} : \A d \in Elements(cache[m]) : ~SameWrite(d, e)
        /\ \A d \in Answered : ~SameWrite(d, e)

LEMMA UnsharedIs == Unshared <=> ModifiedIsUnshared
BY Zenon DEF Unshared, ModifiedIsUnshared, Copies, Elements, Answered

LEMMA SameWriteTransitive ==
    ASSUME NEW d, NEW e
    PROVE  /\ SameWrite(d, d)
           /\ SameWrite(d, e) => SameWrite(e, d)
           /\ \A f : SameWrite(d, e) /\ SameWrite(e, f) => SameWrite(d, f)
BY DEF SameWrite

\* No write is done, and no copy becomes modified: what is held or answered was
\* held or answered before, and an answer is not modified where it comes from.
LEMMA UnsharedStep ==
    ASSUME AllGiven, Unshared, UNCHANGED <<versions, restarts>>,
           \A n \in Node : \A e \in Elements(cache'[n]) :
               /\ e.state = "modified" => e \in Elements(cache[n])
               /\ \E d \in Elements(cache[n]) \cup Answered : SameWrite(e, d),
           \A f \in Answered' :
               \/ f \in Answered
               \/ \E p \in Node :
                      /\ \E d \in Elements(cache[p]) : SameWrite(f, d)
                      /\ \A e \in Elements(cache'[p]) :
                             e.state = "modified" => ~SameWrite(f, e)
    PROVE  AllGiven' /\ Unshared'
<1>1. ASSUME NEW d, NEW e, Given(d), SameWrite(e, d)
      PROVE  Given(e)'
    BY <1>1 DEF Given, SameWrite
<1>2. \A e : SameWrite(e, e)
    BY SameWriteTransitive
<1>3. ASSUME NEW n \in Node, NEW e \in Elements(cache'[n])
      PROVE  Given(e)'
  <2>1. PICK d \in Elements(cache[n]) \cup Answered : SameWrite(e, d)
      BY <1>3
  <2>2. Given(d)
      BY <2>1 DEF AllGiven
  <2>. QED
      BY <1>1, <2>1, <2>2
<1>4. ASSUME NEW f \in Answered'
      PROVE  Given(f)'
  <2>1. CASE f \in Answered
    <3>1. Given(f)
        BY <2>1 DEF AllGiven
    <3>. QED
        BY <1>1, <1>2, <3>1
  <2>2. CASE f \notin Answered
    <3>. PICK p \in Node : \E d \in Elements(cache[p]) : SameWrite(f, d)
        BY <2>2
    <3>1. PICK d \in Elements(cache[p]) : SameWrite(f, d)
        OBVIOUS
    <3>2. Given(d)
        BY DEF AllGiven
    <3>. QED
        BY <1>1, <3>1, <3>2
  <2>. QED
      BY <2>1, <2>2
<1>5. ASSUME NEW n \in Node, NEW e \in Elements(cache'[n]), e.state = "modified",
             NEW m \in Node \ {n}, NEW d \in Elements(cache'[m]), SameWrite(d, e)
      PROVE  FALSE
  <2>1. e \in Elements(cache[n])
      BY <1>5
  <2>2. PICK f \in Elements(cache[m]) \cup Answered : SameWrite(d, f)
      BY <1>5
  <2>3. SameWrite(f, e)
      BY <1>5, <2>2, SameWriteTransitive
  <2>. QED
      BY <1>5, <2>1, <2>2, <2>3 DEF Unshared
<1>6. ASSUME NEW n \in Node, NEW e \in Elements(cache'[n]), e.state = "modified",
             NEW f \in Answered', SameWrite(f, e)
      PROVE  FALSE
  <2>1. e \in Elements(cache[n])
      BY <1>6
  <2>2. f \notin Answered
      BY <1>6, <2>1 DEF Unshared
  <2>3. PICK p \in Node :
            /\ \E d \in Elements(cache[p]) : SameWrite(f, d)
            /\ \A x \in Elements(cache'[p]) : x.state = "modified" => ~SameWrite(f, x)
      BY <2>2
  <2>4. PICK d \in Elements(cache[p]) : SameWrite(f, d)
      BY <2>3
  <2>5. SameWrite(d, e)
      BY <1>6, <2>4, SameWriteTransitive
  <2>6. p # n
      BY <1>6, <2>3
  <2>. QED
      BY <1>6, <2>1, <2>4, <2>5, <2>6 DEF Unshared
<1>7. AllGiven'
    BY <1>3, <1>4 DEF AllGiven
<1>8. Unshared'
    BY <1>5, <1>6 DEF Unshared
<1>. QED
    BY <1>7, <1>8

\* The step changes the cache of one node, and all that is in it was there.
LEMMA SameCopiesStep ==
    ASSUME Inv, AllGiven, Unshared, UNCHANGED <<versions, restarts>>,
           NEW n \in Node, NEW s, cache' = [cache EXCEPT ![n] = s],
           \A d \in Elements(s) :
               /\ d.state = "modified" => d \in Elements(cache[n])
               /\ \E e \in Elements(cache[n]) : SameWrite(d, e),
           Answered' \subseteq Answered
    PROVE  AllGiven' /\ Unshared'
<1>1. cache'[n] = s /\ \A p \in Node \ {n} : cache'[p] = cache[p]
    BY DEF Inv, CachesHold
<1>2. ASSUME NEW p \in Node, NEW e \in Elements(cache'[p])
      PROVE  /\ e.state = "modified" => e \in Elements(cache[p])
             /\ \E d \in Elements(cache[p]) \cup Answered : SameWrite(e, d)
  <2>1. CASE p = n
      BY <1>1, <1>2, <2>1
  <2>2. CASE p # n
      BY <1>1, <1>2, <2>2, SameWriteTransitive
  <2>. QED
      BY <2>1, <2>2
<1>. QED
    BY <1>2, UnsharedStep

LEMMA StartsUnshared ==
    ASSUME Inv, AllGiven, Unshared, NEW c \in Call, NEW n \in Node, NEW k \in Key,
           StartRead(c, n, k) \/ StartWrite(c, n, k)
    PROVE  AllGiven' /\ Unshared'
<1>1. cache' = [cache EXCEPT ![n] = Touch(cache[n], k)] /\ UNCHANGED <<versions, restarts>>
    BY DEF StartRead, StartWrite
<1>2. Elements(Touch(cache[n], k)) = Elements(cache[n])
    BY TouchProperties DEF Inv, CachesHold
<1>3. PICK x : /\ calls' = [calls EXCEPT ![c] = x]
               /\ ~(x.op = "read" /\ x.answer.status = "found")
  <2>1. CASE StartRead(c, n, k)
    <3>. DEFINE y == IF Valid(cache[n], k) \/ OtherNodes(n) = <<>> THEN Idle
                     ELSE [op |-> "read", node |-> n, key |-> k,
                           peers |-> OtherNodes(n), answer |-> NoAnswer]
    <3>1. ~(y.op = "read" /\ y.answer.status = "found")
        BY DEF Idle, NoAnswer
    <3>2. calls' = [calls EXCEPT ![c] = y]
        BY <2>1 DEF StartRead
    <3>. QED
        BY <3>1, <3>2
  <2>2. CASE StartWrite(c, n, k)
    <3>. DEFINE y == [op |-> "write", node |-> n, key |-> k,
                      version |-> versions[n][k], waiting |-> Node \ {n}]
    <3>1. y.op # "read" /\ calls' = [calls EXCEPT ![c] = y]
        BY <2>2 DEF StartWrite
    <3>. HIDE DEF y
    <3>. QED
        BY <3>1
  <2>. QED
      BY <2>1, <2>2
<1>4. Answered' \subseteq Answered
    BY <1>3 DEF Answered, Inv, CallsHold
<1>. QED
    BY <1>1, <1>2, <1>4, SameCopiesStep, SameWriteTransitive

LEMMA HandleReadUnshared ==
    ASSUME Inv, AllGiven, Unshared, NEW c \in Call, HandleRead(c)
    PROVE  AllGiven' /\ Unshared'
<1>1. calls[c] \in Reading /\ calls[c].peers # <<>>
    BY DEF HandleRead, Inv, CallsHold, CallHolds, Idle, Reading, Writing
<1>2. PICK p, k : p = Head(calls[c].peers) /\ k = calls[c].key
    OBVIOUS
<1>3. p \in Node /\ k \in Key
    BY <1>1, <1>2, HeadTailProperties DEF Reading
<1>4. /\ calls' = [calls EXCEPT ![c].answer = Answer(p, k)]
      /\ cache' = [cache EXCEPT ![p] = AfterBusRead(p, k)]
      /\ UNCHANGED <<versions, restarts>>
    BY <1>2 DEF HandleRead
<1>5. /\ cache'[p] = AfterBusRead(p, k)
      /\ \A q \in Node \ {p} : cache'[q] = cache[q]
    BY <1>3, <1>4 DEF Inv, CachesHold
<1>6. \A d \in Elements(AfterBusRead(p, k)) :
          /\ d.state = "modified" => d \in Elements(cache[p]) /\ d.key # k
          /\ \E e \in Elements(cache[p]) : SameWrite(d, e)
    BY <1>3, BusReadHolds
<1>7. ASSUME NEW n \in Node, NEW e \in Elements(cache'[n])
      PROVE  /\ e.state = "modified" => e \in Elements(cache[n])
             /\ \E d \in Elements(cache[n]) \cup Answered : SameWrite(e, d)
  <2>1. CASE n = p
      BY <1>5, <1>6, <1>7, <2>1
  <2>2. CASE n # p
      BY <1>5, <1>7, <2>2, SameWriteTransitive
  <2>. QED
      BY <2>1, <2>2
<1>8. ASSUME NEW f \in Answered', f \notin Answered
      PROVE  /\ \E d \in Elements(cache[p]) : SameWrite(f, d)
             /\ \A e \in Elements(cache'[p]) : e.state = "modified" => ~SameWrite(f, e)
  <2>1. f = Answer(p, k).entry /\ Answer(p, k).status = "found"
      BY <1>1, <1>4, <1>8 DEF Answered, Inv, CallsHold, Reading
  <2>2. f.key = k /\ \E d \in Elements(cache[p]) : SameWrite(f, d)
      BY <1>3, <2>1, AnswerHolds
  <2>3. ASSUME NEW e \in Elements(cache'[p]), e.state = "modified"
        PROVE  ~SameWrite(f, e)
      BY <1>5, <1>6, <2>2, <2>3 DEF SameWrite
  <2>. QED
      BY <2>2, <2>3
<1>. QED
    BY <1>3, <1>4, <1>7, <1>8, UnsharedStep

LEMMA ReadOnUnshared ==
    ASSUME Inv, AllGiven, Unshared, NEW c \in Call, ReadOn(c)
    PROVE  AllGiven' /\ Unshared'
<1>1. UNCHANGED <<cache, versions, restarts>> /\ calls' = [calls EXCEPT ![c] = AskNext(@)]
    BY DEF ReadOn
<1>2. calls[c] \in Reading
    BY DEF ReadOn, Inv, CallsHold, CallHolds, Idle, Reading, Writing
<1>3. ~(AskNext(calls[c]).op = "read" /\ AskNext(calls[c]).answer.status = "found")
    BY <1>2 DEF AskNext, Idle, Reading, NoAnswer
<1>4. Answered' \subseteq Answered
    BY <1>1, <1>3 DEF Answered, Inv, CallsHold
<1>. QED
    BY <1>1, <1>4, UnsharedStep, SameWriteTransitive

LEMMA FillUnshared ==
    ASSUME Inv, AllGiven, Unshared, NEW c \in Call, Fill(c)
    PROVE  AllGiven' /\ Unshared'
<1>1. calls[c] \in Reading /\ calls[c].answer.status = "found" /\ calls[c].op = "read"
    BY DEF Fill, Inv, CallsHold, CallHolds, Idle, Reading, Writing
<1>2. PICK n, e, f :
          /\ n = calls[c].node
          /\ e = calls[c].answer.entry
          /\ f = [e EXCEPT !.state = IF e.state = "shared" THEN "shared" ELSE "exclusive"]
    OBVIOUS
<1>3. n \in Node /\ e \in Entry /\ e \in Answered
    BY <1>1, <1>2 DEF Reading, Answers, NoAnswer, Missing, Answered
<1>4. f \in Entry /\ f.state # "modified" /\ SameWrite(f, e)
    BY <1>2, <1>3 DEF Entry, State, SameWrite
<1>5. /\ cache' = [cache EXCEPT ![n] = Put(cache[n], f)]
      /\ calls' = [calls EXCEPT ![c] = Idle]
      /\ UNCHANGED <<versions, restarts>>
    BY <1>2 DEF Fill
<1>6. \A d \in Elements(Put(cache[n], f)) : d = f \/ d \in Elements(cache[n])
    BY <1>3, <1>4, PutProperties DEF Inv, CachesHold
<1>7. /\ cache'[n] = Put(cache[n], f)
      /\ \A q \in Node \ {n} : cache'[q] = cache[q]
    BY <1>3, <1>5 DEF Inv, CachesHold
<1>8. ASSUME NEW p \in Node, NEW d \in Elements(cache'[p])
      PROVE  /\ d.state = "modified" => d \in Elements(cache[p])
             /\ \E x \in Elements(cache[p]) \cup Answered : SameWrite(d, x)
  <2>1. CASE p = n /\ d = f
      BY <1>3, <1>4, <2>1
  <2>2. CASE d \in Elements(cache[p])
      BY <2>2, SameWriteTransitive
  <2>. QED
      BY <1>6, <1>7, <1>8, <2>1, <2>2
<1>9. Answered' \subseteq Answered
    BY <1>5 DEF Answered, Inv, CallsHold, Idle
<1>. QED
    BY <1>5, <1>8, <1>9, UnsharedStep

\* A request is handled whose answer carries nothing, or that nobody waits for.
LEMMA AfterBusUnshared ==
    ASSUME Inv, AllGiven, Unshared, UNCHANGED <<versions, restarts>>,
           Answered' \subseteq Answered, NEW n \in Node, NEW k \in Key, NEW v \in Nat,
           \/ cache' = [cache EXCEPT ![n] = AfterBusRead(n, k)]
           \/ cache' = [cache EXCEPT ![n] = AfterBusWrite(n, k, v)]
    PROVE  AllGiven' /\ Unshared'
<1>1. CASE cache' = [cache EXCEPT ![n] = AfterBusRead(n, k)]
  <2>. PICK s : s = AfterBusRead(n, k)
      OBVIOUS
  <2>1. \A d \in Elements(s) :
            /\ d.state = "modified" => d \in Elements(cache[n])
            /\ \E e \in Elements(cache[n]) : SameWrite(d, e)
      BY BusReadHolds
  <2>. QED
      BY <1>1, <2>1, SameCopiesStep, ZenonT(60)
<1>2. CASE cache' = [cache EXCEPT ![n] = AfterBusWrite(n, k, v)]
  <2>. PICK s : s = AfterBusWrite(n, k, v)
      OBVIOUS
  <2>1. \A d \in Elements(s) :
            /\ d.state = "modified" => d \in Elements(cache[n])
            /\ \E e \in Elements(cache[n]) : SameWrite(d, e)
      BY BusWriteHolds
  <2>. QED
      BY <1>2, <2>1, SameCopiesStep, ZenonT(60)
<1>. QED
    BY <1>1, <1>2

LEMMA WaitingUnshared ==
    ASSUME Inv, AllGiven, Unshared, NEW c \in Call, NEW p \in Node,
           HandleInvalidate(c, p) \/ InvalidateFails(c, p)
    PROVE  AllGiven' /\ Unshared'
<1>1. /\ calls[c] \in Writing /\ UNCHANGED <<versions, restarts>>
      /\ calls' = [calls EXCEPT ![c].waiting = @ \ {p}]
    BY DEF HandleInvalidate, InvalidateFails, Inv, CallsHold, Idle, Reading, Writing
<1>2. Answered' \subseteq Answered
    BY <1>1 DEF Answered, Inv, CallsHold, Writing
<1>3. CASE HandleInvalidate(c, p)
  <2>1. calls[c].key \in Key /\ calls[c].version \in Nat
      BY <1>1 DEF Writing
  <2>2. cache' = [cache EXCEPT ![p] = AfterBusWrite(p, calls[c].key, calls[c].version)]
      BY <1>3 DEF HandleInvalidate
  <2>. QED
      BY <1>1, <1>2, <2>1, <2>2, AfterBusUnshared
<1>4. CASE InvalidateFails(c, p)
  <2>1. cache' = cache
      BY <1>4 DEF InvalidateFails
  <2>. QED
      BY <1>1, <1>2, <2>1, UnsharedStep, SameWriteTransitive
<1>. QED
    BY <1>3, <1>4

LEMMA HandleLateUnshared ==
    ASSUME Inv, AllGiven, Unshared, NEW r \in late, HandleLate(r)
    PROVE  AllGiven' /\ Unshared'
<1>1. r.to \in Node /\ r.key \in Key /\ r.version \in Nat
    BY DEF Inv, LateHold, LateHolds, Request
<1>2. UNCHANGED <<versions, restarts, calls>>
    BY DEF HandleLate
<1>3. Answered' \subseteq Answered
    BY <1>2 DEF Answered
<1>4. CASE r.type = "read"
  <2>1. cache' = [cache EXCEPT ![r.to] = AfterBusRead(r.to, r.key)]
      BY <1>4 DEF HandleLate
  <2>. QED
      BY <1>1, <1>2, <1>3, <2>1, AfterBusUnshared
<1>5. CASE r.type # "read"
  <2>1. cache' = [cache EXCEPT ![r.to] = AfterBusWrite(r.to, r.key, r.version)]
      BY <1>5 DEF HandleLate
  <2>. QED
      BY <1>1, <1>2, <1>3, <2>1, AfterBusUnshared
<1>. QED
    BY <1>4, <1>5

LEMMA InvalidateUnshared ==
    ASSUME Inv, AllGiven, Unshared, NEW n \in Node, NEW k \in Key, Invalidate(n, k)
    PROVE  AllGiven' /\ Unshared'
<1>. PICK t \in State : t = "invalid"
    BY DEF State
<1>. PICK s, e : s = cache[n] /\ e = WithState(EntryOf(s, k), t)
    OBVIOUS
<1>1. /\ Cached(s, k) /\ cache' = [cache EXCEPT ![n] = Mark(s, k, t)]
      /\ UNCHANGED <<versions, calls, restarts>>
    BY DEF Invalidate
<1>2. /\ Elements(Mark(s, k, t)) = {d \in Elements(s) : d.key # k} \cup {e}
      /\ e.key = k /\ e.state = t
      /\ e.value = EntryOf(s, k).value /\ e.version = EntryOf(s, k).version
    BY <1>1, MarkProperties DEF Inv, CachesHold
<1>3. EntryOf(s, k) \in Elements(s) /\ EntryOf(s, k).key = k
    BY <1>1, EntryOfProperties DEF Inv, CachesHold, Sound
<1>4. SameWrite(e, EntryOf(s, k))
    BY <1>2, <1>3 DEF SameWrite
<1>5. ASSUME NEW d \in Elements(Mark(s, k, t))
      PROVE  /\ d.state = "modified" => d \in Elements(s)
             /\ \E x \in Elements(s) : SameWrite(d, x)
  <2>1. CASE d = e
      BY <1>2, <1>3, <1>4, <2>1
  <2>2. CASE d # e
      BY <1>2, <1>5, <2>2, SameWriteTransitive
  <2>. QED
      BY <2>1, <2>2
<1>6. Answered' \subseteq Answered
    BY <1>1 DEF Answered
<1>. QED
    BY <1>1, <1>5, <1>6, SameCopiesStep

\* The write that is done is one nobody else holds: its version is beyond the
\* counter.
LEMMA FinishWriteUnshared ==
    ASSUME Inv, AllGiven, Unshared, NEW c \in Call, FinishWrite(c)
    PROVE  AllGiven' /\ Unshared'
<1>1. calls[c] \in Writing
    BY DEF FinishWrite, Inv, CallsHold, Idle, Reading, Writing
<1>2. PICK n, k, v, e :
          /\ n = calls[c].node /\ k = calls[c].key /\ v = versions[n][k] + 1
          /\ e = [key |-> k, value |-> [node |-> n, run |-> restarts],
                  state |-> "modified", version |-> v]
    OBVIOUS
<1>3. n \in Node /\ k \in Key /\ restarts \in Nat /\ versions \in [Node -> [Key -> Nat]]
    BY <1>1, <1>2, BoundsAssumption DEF Writing, Inv, VersionsHold
<1>4. /\ versions' = [versions EXCEPT ![n][k] = v]
      /\ cache' = [cache EXCEPT ![n] = Put(@, e)]
      /\ calls' = [calls EXCEPT ![c] = Idle]
      /\ restarts' = restarts
    BY <1>2 DEF FinishWrite, NewVersion, OnLocalWrite
<1>5. v \in Nat /\ v > versions[n][k]
    BY <1>2, <1>3
<1>6. e \in Entry
    BY <1>2, <1>3, <1>5 DEF Entry, State, Value
<1>7. /\ cache'[n] = Put(cache[n], e)
      /\ \A q \in Node \ {n} : cache'[q] = cache[q]
    BY <1>3, <1>4 DEF Inv, CachesHold
<1>8. \A d \in Elements(Put(cache[n], e)) : d = e \/ d \in Elements(cache[n])
    BY <1>3, <1>6, PutProperties DEF Inv, CachesHold
<1>9. Answered' \subseteq Answered
    BY <1>4 DEF Answered, Inv, CallsHold, Idle
<1>10. ASSUME NEW d \in Entry, Given(d)
       PROVE  Given(d)' /\ ~SameWrite(d, e) /\ ~SameWrite(e, d)
  <2>1. d.value.node \in Node /\ d.key \in Key /\ d.version \in Nat /\ d.value.run \in Nat
      BY <1>10 DEF Entry, Value
  <2>2. versions[d.value.node][d.key] <= versions'[d.value.node][d.key]
      BY <1>3, <1>4, <1>5, <2>1
  <2>3. versions[d.value.node][d.key] \in Nat /\ versions'[d.value.node][d.key] \in Nat
      BY <1>3, <1>4, <1>5, <2>1
  <2>4. Given(d)'
      BY <1>4, <1>10, <2>1, <2>2, <2>3 DEF Given
  <2>5. ASSUME d.key = e.key, d.value = e.value, d.version = e.version
        PROVE  FALSE
    <3>1. d.value.node = n /\ d.value.run = restarts /\ d.key = k /\ d.version = v
        BY <1>2, <2>5
    <3>. QED
        BY <1>3, <1>5, <1>10, <3>1 DEF Given
  <2>. QED
      BY <2>4, <2>5 DEF SameWrite
<1>11. Given(e)'
  <2>1. versions'[n][k] = v
      BY <1>3, <1>4
  <2>2. e.value.run = restarts /\ e.value.node = n /\ e.key = k /\ e.version = v
      BY <1>2
  <2>. QED
      BY <1>3, <1>4, <1>5, <2>1, <2>2 DEF Given
<1>12. \A p \in Node : Elements(cache[p]) \subseteq Entry
    BY EntryOfProperties DEF Inv, CachesHold, Sound
<1>13. Answered \subseteq Entry
    BY DEF Answered, Inv, CallsHold, Idle, Reading, Writing, Answers, NoAnswer, Missing
<1>14. /\ \A p \in Node : \A d \in Elements(cache[p]) :
              Given(d)' /\ ~SameWrite(d, e) /\ ~SameWrite(e, d)
       /\ \A d \in Answered : Given(d)' /\ ~SameWrite(d, e) /\ ~SameWrite(e, d)
    BY <1>10, <1>12, <1>13 DEF AllGiven
<1>15. ASSUME NEW p \in Node, NEW d \in Elements(cache'[p])
       PROVE  (p = n /\ d = e) \/ d \in Elements(cache[p])
  <2>1. CASE p = n
      BY <1>7, <1>8, <1>15, <2>1
  <2>2. CASE p # n
      BY <1>7, <1>15, <2>2
  <2>. QED
      BY <2>1, <2>2
<1>16. AllGiven'
  <2>1. ASSUME NEW p \in Node, NEW d \in Elements(cache'[p])
        PROVE  Given(d)'
      BY <1>11, <1>14, <1>15, <2>1
  <2>2. ASSUME NEW d \in Answered'
        PROVE  Given(d)'
      BY <1>9, <1>14, <2>2
  <2>. QED
      BY <2>1, <2>2 DEF AllGiven
<1>17. Unshared'
  <2>1. ASSUME NEW p \in Node, NEW x \in Elements(cache'[p]), x.state = "modified",
               NEW m \in Node \ {p}, NEW d \in Elements(cache'[m]), SameWrite(d, x)
        PROVE  FALSE
    <3>1. CASE p = n /\ x = e
        BY <1>14, <1>15, <2>1, <3>1
    <3>2. CASE m = n /\ d = e /\ x \in Elements(cache[p])
        BY <1>14, <2>1, <3>2
    <3>3. CASE x \in Elements(cache[p]) /\ d \in Elements(cache[m])
        BY <2>1, <3>3 DEF Unshared
    <3>. QED
        BY <1>15, <2>1, <3>1, <3>2, <3>3
  <2>2. ASSUME NEW p \in Node, NEW x \in Elements(cache'[p]), x.state = "modified",
               NEW d \in Answered', SameWrite(d, x)
        PROVE  FALSE
    <3>1. CASE x = e
        BY <1>9, <1>14, <2>2, <3>1
    <3>2. CASE x \in Elements(cache[p])
        BY <1>9, <2>2, <3>2 DEF Unshared
    <3>. QED
        BY <1>15, <2>2, <3>1, <3>2
  <2>. QED
      BY <2>1, <2>2 DEF Unshared
<1>. QED
    BY <1>16, <1>17

\* After a restart whatever anybody holds is of an earlier run.
LEMMA RestartUnshared ==
    ASSUME Inv, AllGiven, Unshared, NEW n \in Node, Restart(n)
    PROVE  AllGiven' /\ Unshared'
<1>1. /\ cache' = [cache EXCEPT ![n] = <<>>]
      /\ calls' = [c \in Call |->
             IF calls[c] # Idle /\ calls[c].node = n THEN Idle ELSE calls[c]]
      /\ restarts' = restarts + 1
    BY DEF Restart
<1>2. Elements(<<>>) = {}
    BY EmptySeq DEF Elements
<1>3. \A p \in Node : Elements(cache'[p]) \subseteq Elements(cache[p])
    BY <1>1, <1>2 DEF Inv, CachesHold
<1>4. Answered' \subseteq Answered
    BY <1>1 DEF Answered, Idle
<1>5. restarts \in Nat
    BY BoundsAssumption DEF Inv
<1>6. ASSUME NEW e, Given(e)
      PROVE  Given(e)'
    BY <1>1, <1>5, <1>6 DEF Given
<1>7. AllGiven'
    BY <1>3, <1>4, <1>6 DEF AllGiven
<1>8. Unshared'
    BY <1>3, <1>4 DEF Unshared
<1>. QED
    BY <1>7, <1>8

LEMMA NextUnshared ==
    Inv /\ AllGiven /\ Unshared /\ [Next]_vars => AllGiven' /\ Unshared'
<1>. SUFFICES ASSUME Inv, AllGiven, Unshared, [Next]_vars
              PROVE  AllGiven' /\ Unshared'
    OBVIOUS
<1>1. CASE UNCHANGED vars
  <2>1. UNCHANGED <<cache, versions, restarts, calls>>
      BY <1>1 DEF vars
  <2>2. Answered' = Answered
      BY <2>1 DEF Answered
  <2>. QED
      BY <2>1, <2>2, UnsharedStep, SameWriteTransitive
<1>. QED
    BY <1>1, StartsUnshared, HandleReadUnshared, ReadOnUnshared, FillUnshared,
       WaitingUnshared, FinishWriteUnshared, HandleLateUnshared, InvalidateUnshared,
       RestartUnshared DEF Next

THEOREM InvAlways == Spec => []Inv
<1>1. Inv /\ [Next]_vars => Inv'
    BY NextHolds
<1>. QED
    BY InitHolds, <1>1, PTL DEF Spec

\* A cache never holds more than max_size entries, nor two of one key, and all
\* variables have their types.
THEOREM CacheTypeOK == Spec => []TypeOK
<1>1. Inv => TypeOK
    BY InvImplies
<1>. QED
    BY InvAlways, <1>1, PTL

\* A modified entry is the newest write of its node.
THEOREM ModifiedIsAlwaysNewest == Spec => []ModifiedIsNewest
<1>1. Inv => ModifiedIsNewest
    BY InvImplies
<1>. QED
    BY InvAlways, <1>1, PTL

\* A copy, however it travelled, is a write with its version.
THEOREM CopiesAreAlwaysWrites == Spec => []CopiesAreWrites
<1>1. Inv => CopiesAreWrites
    BY InvImplies
<1>. QED
    BY InvAlways, <1>1, PTL

\* As long as a copy is modified nobody else holds the same write, or is about to.
THEOREM ModifiedIsAlwaysUnshared == Spec => []ModifiedIsUnshared
<1>. DEFINE IInv == Inv /\ AllGiven /\ Unshared
<1>1. Init => IInv
  <2>. SUFFICES ASSUME Init PROVE IInv
      OBVIOUS
  <2>1. Elements(<<>>) = {}
      BY EmptySeq DEF Elements
  <2>2. Answered = {}
      BY DEF Init, Answered, Idle
  <2>3. \A n \in Node : Elements(cache[n]) = {}
      BY <2>1 DEF Init
  <2>. QED
      BY <2>2, <2>3, InitHolds DEF AllGiven, Unshared
<1>2. IInv /\ [Next]_vars => IInv'
    BY NextHolds, NextUnshared
<1>3. IInv => ModifiedIsUnshared
    BY UnsharedIs
<1>. QED
    BY <1>1, <1>2, <1>3, PTL DEF Spec

\* A message invalidates a copy only for a newer write of another node.
THEOREM OnlyNewerInvalidates == Spec => InvalidatedByNewer
<1>1. Inv /\ [Next]_vars => [NewerInvalidates]_vars
    BY NextHolds
<1>2. Spec => [][NewerInvalidates]_vars
    BY InvAlways, <1>1, PTL DEF Spec
<1>. QED
    BY <1>2 DEF InvalidatedByNewer, NewerInvalidates
=============================================================================
