------------------------------ MODULE HashRing ------------------------------
(***************************************************************************)
(* ConsistentHashRing of utils/consistent_hash.py.  Each node places its   *)
(* virtual nodes on a circle of hash values; a key belongs to the node     *)
(* whose virtual node comes first from the key's hash on.  The queue takes *)
(* its replicas from the ring, the cache the owner of a key.               *)
(*                                                                         *)
(* A ring is given by its view, the nodes set_nodes built it from; no view *)
(* is empty, so get_node and get_nodes do not raise.  The hash (MD5) is a  *)
(* constant: the positions of each node, and as h the hash of a key.       *)
(***************************************************************************)
EXTENDS Integers, FiniteSets

CONSTANTS Node,
          Size,    \* hashes are 0..Size-1
          Points   \* the hashes of "<node>:<replica>", by node

Hash == 0..Size - 1

\* No two virtual nodes collide, and a node has at least one (virtual_nodes is
\* taken to be 1 or more).
ASSUME NodesAssumption == IsFiniteSet(Node)
ASSUME PointsAssumption ==
    /\ Size \in Nat
    /\ Points \in [Node -> (SUBSET Hash) \ {{}}]
    /\ \A a, b \in Node : a # b => Points[a] \cap Points[b] = {}

\* _sorted_keys, and the node _ring has at one of them.
RingKeys(view) == UNION {Points[n] : n \in view}
NodeAt(p) == CHOOSE n \in Node : p \in Points[n]

Least(S) == CHOOSE p \in S : \A q \in S : p <= q

\* get_node.
GetNode(view, h) ==
    LET after == {p \in RingKeys(view) : h <= p}
    IN NodeAt(Least(IF after = {} THEN RingKeys(view) ELSE after))

\* How far the walk from h goes until it meets p, and until it meets n.
Turn(h, p) == IF h <= p THEN p - h ELSE p + Size - h
Reach(h, n) == Least({Turn(h, p) : p \in Points[n]})

\* get_nodes walks the circle once from h and keeps each node it meets for the
\* first time: the nodes in the order of Reach, cut at count.
Before(view, h, n) == {m \in view : Reach(h, m) <= Reach(h, n)}
GetNodes(view, h, count) ==
    [i \in 1..(IF count < Cardinality(view) THEN count ELSE Cardinality(view)) |->
        CHOOSE n \in view : Cardinality(Before(view, h, n)) = i]
=============================================================================
