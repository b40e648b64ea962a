-------------------------------- MODULE Ring --------------------------------
(***************************************************************************)
(* The consistent hash ring of src/nodes/queue_node.py.  A ring is a set   *)
(* of nodes: add_node and remove_node insert and remove all points of a    *)
(* node, so ring and node_map are functions of ConsistentHash.nodes.       *)
(*                                                                         *)
(* Walk is the loop of get_nodes_for_key.  NodesForKey says what it finds: *)
(* the nodes that come first clockwise from the hash of the key.           *)
(***************************************************************************)
EXTENDS Integers, Sequences, FiniteSets, SequencesExt

CONSTANTS
    Node,
    Key,        \* the names that are hashed: queue names and message ids
    Space,      \* size of the circle of hash values
    Points,     \* per node: the hash values of its virtual nodes
    Hash        \* the hash values of the keys

ASSUME SpaceAssumption == Space \in Nat \ {0}
ASSUME NodeAssumption == IsFiniteSet(Node)
ASSUME PointsAssumption ==
    /\ Points \in [Node -> (SUBSET (0 .. Space - 1)) \ {{}}]
    /\ \A n, p \in Node : n # p => Points[n] \cap Points[p] = {}
ASSUME HashAssumption == Hash \in [Key -> 0 .. Space - 1]

\* How far point x is from the hash of key k; a point on the hash is the first.
Clockwise(k, x) == (x - Hash[k]) % Space

\* How far the first point of node n is.
Distance ==
    [k \in Key |-> [n \in Node |->
        CHOOSE d \in {Clockwise(k, x) : x \in Points[n]} :
            \A x \in Points[n] : d <= Clockwise(k, x)]]

Nearer(k, ring, n) == {p \in ring : Distance[k][p] < Distance[k][n]}

\* The node of S that comes first.
Nearest(k, S) == CHOOSE n \in S : Nearer(k, S, n) = {}

\* get_nodes_for_key
NodesForKey(k, ring, count) == {n \in ring : Cardinality(Nearer(k, ring, n)) < count}

\* get_node
NodeForKey(k, ring) == Nearest(k, ring)

-----------------------------------------------------------------------------
(* The loop itself *)

SortedPoints(ring) == SetToSortSeq(UNION {Points[n] : n \in ring}, <)

\* node_map
Owner(ring, x) == CHOOSE n \in ring : x \in Points[n]

BisectLeft(s, h) == Cardinality({i \in DOMAIN s : s[i] < h})

\* From the first point at or after the hash of k around the circle, the nodes
\* not seen before, until there are `count`.
Walk(k, ring, count) ==
    LET points == SortedPoints(ring)
        start == BisectLeft(points, Hash[k])
        result[i \in 0 .. Len(points)] ==
            IF i = 0 THEN <<>>
            ELSE LET node == Owner(ring, points[1 + ((start + i - 1) % Len(points))])
                     seen == result[i - 1]
                 IN  IF node \in Range(seen) \/ Len(seen) = count THEN seen
                     ELSE Append(seen, node)
    IN  result[Len(points)]

\* The loop finds the nodes that NodesForKey says, the nearest first, and the
\* first of them is the one of get_node.
WalkFindsNearest ==
    \A k \in Key, ring \in SUBSET Node \ {{}}, count \in 1 .. Cardinality(Node) :
        LET found == Walk(k, ring, count) IN
        /\ Range(found) = NodesForKey(k, ring, count)
        /\ \A i \in DOMAIN found : found[i] = Nearest(k, ring \ {found[j] : j \in 1 .. i - 1})
        /\ Head(found) = NodeForKey(k, ring)
=============================================================================
