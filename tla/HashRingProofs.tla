--------------------------- MODULE HashRingProofs ---------------------------
(***************************************************************************)
(* Theorems about ConsistentHashRing, for every set of nodes and every     *)
(* placement of their virtual nodes, proved with TLAPS.                    *)
(***************************************************************************)
EXTENDS HashRing, Basics, FiniteSetTheorems, TLAPS

\* Least picks the least member of a non-empty set of naturals.
LEMMA LeastIs ==
    ASSUME NEW T, T \subseteq Nat, T # {}
    PROVE  Least(T) \in T /\ \A q \in T : Least(T) <= q
  BY LeastNatural DEF Least

\* A position that is taken is taken by one node.
LEMMA NodeAtIs ==
    ASSUME NEW n \in Node, NEW p \in Points[n]
    PROVE  NodeAt(p) = n
  BY PointsAssumption DEF NodeAt

\* How far from h a position on the circle is; different positions are at
\* different distances.
LEMMA TurnIs ==
    ASSUME NEW h \in Hash
    PROVE  /\ \A p \in Hash : Turn(h, p) \in Nat
           /\ \A p, q \in Hash : Turn(h, p) = Turn(h, q) => p = q
  BY PointsAssumption DEF Turn, Hash

\* A node is reached at one of its positions, the nearest.
LEMMA ReachIs ==
    ASSUME NEW h \in Hash, NEW n \in Node
    PROVE  /\ Reach(h, n) \in Nat
           /\ \E p \in Points[n] : Reach(h, n) = Turn(h, p)
           /\ \A p \in Points[n] : Reach(h, n) <= Turn(h, p)
<1> DEFINE T == {Turn(h, p) : p \in Points[n]}
<1>1. Points[n] \subseteq Hash /\ Points[n] # {}
  BY PointsAssumption
<1>2. T \subseteq Nat /\ T # {}
  BY <1>1, TurnIs
<1>3. Least(T) \in T /\ \A q \in T : Least(T) <= q
  <2> HIDE DEF T
  <2> QED BY <1>2, LeastIs
<1> QED BY <1>2, <1>3 DEF Reach

\* No two nodes are reached at the same time.
LEMMA ReachDiffers ==
    ASSUME NEW h \in Hash, NEW m \in Node, NEW n \in Node, Reach(h, m) = Reach(h, n)
    PROVE  m = n
<1>1. PICK p \in Points[m] : Reach(h, m) = Turn(h, p)
  BY ReachIs
<1>2. PICK q \in Points[n] : Reach(h, n) = Turn(h, q)
  BY ReachIs
<1>3. p \in Hash /\ q \in Hash
  BY PointsAssumption
<1>4. p = q
  BY <1>1, <1>2, <1>3, TurnIs
<1> QED BY <1>1, <1>2, <1>4, PointsAssumption

\* get_node returns the node of the ring that the walk from the hash of the
\* key reaches first, whether or not the walk passes the end of the circle:
\* with get_nodes it agrees on who comes first.
THEOREM NearestOwns ==
    ASSUME NEW view \in (SUBSET Node) \ {{}}, NEW h \in Hash
    PROVE  /\ GetNode(view, h) \in view
           /\ \A n \in view : Reach(h, GetNode(view, h)) <= Reach(h, n)
<1> DEFINE keys == RingKeys(view)
           after == {p \in keys : h <= p}
           candidates == IF after = {} THEN keys ELSE after
           p0 == Least(candidates)
<1>1. keys \subseteq Hash /\ keys # {}
  <2>1. PICK n \in view : TRUE
    OBVIOUS
  <2>2. Points[n] \subseteq keys /\ Points[n] # {}
    BY PointsAssumption DEF RingKeys
  <2>3. keys \subseteq Hash
    BY PointsAssumption DEF RingKeys
  <2> QED BY <2>2, <2>3
<1>2. candidates \subseteq keys /\ candidates # {} /\ candidates \subseteq Nat
  BY <1>1, PointsAssumption DEF Hash
<1>3. p0 \in candidates /\ \A q \in candidates : p0 <= q
  <2> HIDE DEF candidates
  <2> QED BY <1>2, LeastIs
<1>4. \A q \in keys : Turn(h, p0) <= Turn(h, q)
  <2> SUFFICES ASSUME NEW q \in keys PROVE Turn(h, p0) <= Turn(h, q)
    OBVIOUS
  <2>1. /\ q \in Hash /\ p0 \in Hash /\ h \in Hash /\ Size \in Nat
        /\ \A x \in Hash : x \in Nat /\ x < Size
    BY <1>1, <1>2, <1>3, PointsAssumption DEF Hash
  <2>2. CASE after = {}
    <3>1. p0 <= q /\ ~(h <= q) /\ ~(h <= p0)
      BY <1>2, <1>3, <2>2
    <3> QED BY <2>1, <3>1 DEF Turn
  <2>3. CASE after # {}
    <3>1. h <= p0
      BY <1>3, <2>3
    <3>2. CASE h <= q
      <4>1. p0 <= q
        BY <1>3, <2>3, <3>2
      <4> QED BY <2>1, <3>1, <3>2, <4>1 DEF Turn
    <3>3. CASE ~(h <= q)
      BY <2>1, <3>1, <3>3 DEF Turn
    <3> QED BY <3>2, <3>3
  <2> QED BY <2>2, <2>3
<1>5. PICK owner \in view : p0 \in Points[owner]
  <2>1. p0 \in keys
    BY <1>2, <1>3
  <2> HIDE DEF p0
  <2> QED BY <2>1 DEF RingKeys
<1>6. GetNode(view, h) = owner
  <2>1. GetNode(view, h) = NodeAt(p0)
    BY DEF GetNode
  <2> QED BY <2>1, <1>5, NodeAtIs
<1>7. ASSUME NEW n \in view PROVE Reach(h, owner) <= Reach(h, n)
  <2>1. PICK q \in Points[n] : Reach(h, n) = Turn(h, q)
    BY ReachIs
  <2>2. q \in keys /\ q \in Hash /\ p0 \in Hash
    BY <1>1, <1>2, <1>3 DEF RingKeys
  <2>3. /\ Turn(h, p0) <= Turn(h, q) /\ Reach(h, owner) <= Turn(h, p0)
        /\ Turn(h, p0) \in Nat /\ Turn(h, q) \in Nat /\ Reach(h, owner) \in Nat
    <3> HIDE DEF p0
    <3> QED BY <1>4, <1>5, <2>2, ReachIs, TurnIs
  <2> HIDE DEF p0
  <2> QED BY <2>1, <2>3
<1> QED BY <1>6, <1>7

\* What consistent hashing is for: the nodes that leave take only their own
\* keys with them; a key whose owner stays keeps it.
THEOREM LeavingMovesOnlyOwnKeys ==
    ASSUME NEW view \in (SUBSET Node) \ {{}}, NEW rest \in SUBSET view, NEW h \in Hash,
           GetNode(view, h) \in rest
    PROVE  GetNode(rest, h) = GetNode(view, h)
<1>1. rest \in (SUBSET Node) \ {{}}
  OBVIOUS
<1>2. /\ GetNode(rest, h) \in rest
      /\ Reach(h, GetNode(rest, h)) <= Reach(h, GetNode(view, h))
  BY <1>1, NearestOwns
<1>3. Reach(h, GetNode(view, h)) <= Reach(h, GetNode(rest, h))
  BY <1>2, NearestOwns
<1>4. GetNode(rest, h) \in Node /\ GetNode(view, h) \in Node
  BY <1>2, NearestOwns
<1>5. Reach(h, GetNode(rest, h)) = Reach(h, GetNode(view, h))
  BY <1>2, <1>3, <1>4, ReachIs
<1> QED BY <1>4, <1>5, ReachDiffers

\* A node that is in its own ring and not the owner there forwards to one that
\* is nearer: whatever rings the others have, forwarding cannot come back.
THEOREM ForwardingDescends ==
    ASSUME NEW view \in SUBSET Node, NEW n \in view, NEW h \in Hash, GetNode(view, h) # n
    PROVE  Reach(h, GetNode(view, h)) < Reach(h, n)
<1>1. view \in (SUBSET Node) \ {{}}
  OBVIOUS
<1>2. GetNode(view, h) \in view /\ Reach(h, GetNode(view, h)) <= Reach(h, n)
  BY <1>1, NearestOwns
<1>3. GetNode(view, h) \in Node /\ n \in Node
  BY <1>2
<1>4. Reach(h, GetNode(view, h)) # Reach(h, n)
  BY <1>3, ReachDiffers
<1> QED BY <1>2, <1>3, <1>4, ReachIs

----------------------------------------------------------------------------
(* get_nodes.                                                              *)

\* The nodes of a ring have different ranks on the walk from h, 1 to the
\* number of the nodes.
LEMMA RanksDiffer ==
    ASSUME NEW view \in SUBSET Node, NEW h \in Hash, NEW m \in view, NEW n \in view
    PROVE  /\ Cardinality(Before(view, h, n)) \in 1..Cardinality(view)
           /\ Cardinality(Before(view, h, m)) = Cardinality(Before(view, h, n)) => m = n
<1>1. IsFiniteSet(view) /\ Cardinality(view) \in Nat
  BY NodesAssumption, FS_Subset, FS_CardinalityType
<1>2. \A k \in view : Reach(h, k) \in Nat
  BY ReachIs
<1>3. \A k \in view : /\ Before(view, h, k) \in SUBSET view /\ k \in Before(view, h, k)
                      /\ IsFiniteSet(Before(view, h, k))
  <2>1. \A k \in view : Before(view, h, k) \in SUBSET view /\ k \in Before(view, h, k)
    BY <1>2 DEF Before
  <2> QED BY <2>1, <1>1, FS_Subset
<1>4. Cardinality(Before(view, h, n)) \in 1..Cardinality(view)
  <2>1. Cardinality(Before(view, h, n)) \in Nat /\ Cardinality(Before(view, h, n)) <= Cardinality(view)
    BY <1>1, <1>3, FS_Subset, FS_CardinalityType
  <2>2. Cardinality(Before(view, h, n)) # 0
    BY <1>3, FS_EmptySet
  <2> QED BY <1>1, <2>1, <2>2
<1>5. ASSUME NEW j \in view, NEW k \in view, Reach(h, j) < Reach(h, k)
      PROVE  Cardinality(Before(view, h, j)) # Cardinality(Before(view, h, k))
  <2>1. Before(view, h, j) \subseteq Before(view, h, k)
    BY <1>2, <1>5 DEF Before
  <2>2. k \in Before(view, h, k) /\ k \notin Before(view, h, j)
    BY <1>2, <1>3, <1>5 DEF Before
  <2> QED BY <2>1, <2>2, <1>3, FS_Subset
<1>6. ASSUME Cardinality(Before(view, h, m)) = Cardinality(Before(view, h, n)) PROVE m = n
  <2>1. Reach(h, m) = Reach(h, n)
    BY <1>2, <1>5, <1>6
  <2> QED BY <2>1, ReachDiffers
<1> QED BY <1>4, <1>6

\* Some node has each rank.
LEMMA RankTaken ==
    ASSUME NEW view \in SUBSET Node, NEW h \in Hash, NEW i \in 1..Cardinality(view)
    PROVE  \E n \in view : Cardinality(Before(view, h, n)) = i
<1> SUFFICES ASSUME \A n \in view : Cardinality(Before(view, h, n)) # i PROVE FALSE
  OBVIOUS
<1> DEFINE ranks == 1..Cardinality(view)
           rank == [n \in view |-> Cardinality(Before(view, h, n))]
<1>1. IsFiniteSet(view) /\ Cardinality(view) \in Nat
  BY NodesAssumption, FS_Subset, FS_CardinalityType
<1>2. IsFiniteSet(ranks) /\ Cardinality(ranks) = Cardinality(view)
  BY <1>1, FS_Interval
<1>3. IsFiniteSet(ranks \ {i}) /\ Cardinality(ranks \ {i}) < Cardinality(view)
  <2>1. i \in ranks
    OBVIOUS
  <2> HIDE DEF ranks
  <2>2. /\ IsFiniteSet(ranks \ {i})
        /\ Cardinality(ranks \ {i}) = Cardinality(ranks) - 1
    BY <1>2, <2>1, FS_RemoveElement
  <2> QED BY <1>1, <1>2, <2>2
<1>4. rank \in [view -> ranks \ {i}]
  BY RanksDiffer
<1>5. PICK m \in view, n \in view : m # n /\ rank[m] = rank[n]
  <2> HIDE DEF rank, ranks
  <2> QED BY <1>1, <1>3, <1>4, FS_PigeonHole
<1> QED BY <1>5, RanksDiffer

\* get_nodes returns as many different nodes of the ring as it is asked for,
\* or all of them, nearest first; the first is the one get_node returns.  No
\* two replicas of a queue are one node, and all nodes with one ring choose
\* the same ones.
THEOREM ReplicasDiffer ==
    ASSUME NEW view \in (SUBSET Node) \ {{}}, NEW h \in Hash, NEW count \in Nat \ {0}
    PROVE  LET len == IF count < Cardinality(view) THEN count ELSE Cardinality(view)
               replicas == GetNodes(view, h, count)
           IN /\ replicas \in [1..len -> view]
              /\ \A i, j \in 1..len : i < j => Reach(h, replicas[i]) < Reach(h, replicas[j])
              /\ replicas[1] = GetNode(view, h)
<1> DEFINE len == IF count < Cardinality(view) THEN count ELSE Cardinality(view)
           replicas == GetNodes(view, h, count)
<1>1. IsFiniteSet(view) /\ Cardinality(view) \in Nat \ {0}
  BY NodesAssumption, FS_Subset, FS_CardinalityType, FS_EmptySet
<1>2. len \in Nat /\ 1 \in 1..len /\ 1..len \subseteq 1..Cardinality(view)
  BY <1>1
<1>3. \A i \in 1..len : /\ replicas[i] \in view
                        /\ Cardinality(Before(view, h, replicas[i])) = i
  BY <1>2, RankTaken DEF GetNodes
<1>4. replicas \in [1..len -> view]
  BY <1>3 DEF GetNodes
<1>5. \A n \in view : Reach(h, n) \in Nat
  BY ReachIs
<1>6. ASSUME NEW i \in 1..len, NEW j \in 1..len, i < j
      PROVE  Reach(h, replicas[i]) < Reach(h, replicas[j])
  <2> DEFINE m == replicas[i]
             n == replicas[j]
  <2>1. m \in view /\ n \in view
    BY <1>3
  <2> SUFFICES ASSUME Reach(h, n) <= Reach(h, m) PROVE FALSE
    BY <1>5, <2>1
  <2>2. Before(view, h, n) \subseteq Before(view, h, m)
    <3> HIDE DEF m, n
    <3> QED BY <1>5, <2>1 DEF Before
  <2>3. IsFiniteSet(Before(view, h, m))
    BY <1>1, FS_Subset DEF Before
  <2>4. Cardinality(Before(view, h, n)) <= Cardinality(Before(view, h, m))
    BY <2>2, <2>3, FS_Subset
  <2> QED BY <2>4, <1>3, <1>6
<1>7. replicas[1] = GetNode(view, h)
  <2> DEFINE m == replicas[1]
             n == GetNode(view, h)
  <2>1. n \in view /\ Reach(h, n) <= Reach(h, m) /\ m \in view
    BY <1>2, <1>3, NearestOwns
  <2>2. Cardinality(Before(view, h, m)) = 1
    BY <1>2, <1>3
  <2>3. n \in Before(view, h, m) /\ m \in Before(view, h, m)
    <3> HIDE DEF m, n
    <3> QED BY <2>1, <1>5 DEF Before
  <2>4. \E x : Before(view, h, m) = {x}
    <3>1. IsFiniteSet(Before(view, h, m))
      BY <1>1, FS_Subset DEF Before
    <3> QED BY <2>2, <3>1, FS_Singleton
  <2> QED BY <2>3, <2>4
<1> QED BY <1>4, <1>6, <1>7
=============================================================================
