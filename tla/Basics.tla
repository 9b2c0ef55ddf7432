------------------------------- MODULE Basics -------------------------------
(***************************************************************************)
(* Facts the proofs start from.                                            *)
(*   - Least and greatest members of sets of naturals exist.  The lock     *)
(*     queues (NthIndex) and the quorum index of Raft are chosen with them.*)
(*   - Reachability in a graph, and when edges that are added close no     *)
(*     cycle: for the wait graph of the locks and the search in it.        *)
(***************************************************************************)
EXTENDS Naturals, FiniteSets, FiniteSetTheorems, WellFoundedInduction, Reachability, TLAPS

\* A non-empty set of naturals has a least element: the intervals 1..k are
\* finite sets, and strict inclusion of finite sets is well-founded.
LEMMA LeastNatural ==
    ASSUME NEW T, T \subseteq Nat, T # {}
    PROVE  \E m \in T : \A k \in T : m <= k
<1> DEFINE U == {1..k : k \in T}
<1>1. U \subseteq FiniteSubsetsOf(Nat) /\ U # {}
  <2>1. ASSUME NEW k \in T PROVE 1..k \in SUBSET Nat /\ IsFiniteSet(1..k)
    <3>1. k \in Int
      OBVIOUS
    <3> QED BY <3>1, FS_Interval
  <2> QED BY <2>1 DEF FiniteSubsetsOf
<1>2. PICK s \in U : \A r \in U : ~(<<r, s>> \in StrictSubsetOrdering(Nat))
  <2> HIDE DEF U
  <2> QED BY <1>1, WFMin, FS_StrictSubsetOrderingWellFounded
<1>3. PICK m \in T : s = 1..m
  OBVIOUS
<1>4. ASSUME NEW k \in T, k < m PROVE FALSE
  <2>1. 1..k \in U /\ 1..k \subseteq 1..m /\ m \in 1..m /\ m \notin 1..k
    BY <1>4
  <2>2. <<1..k, 1..m>> \in (SUBSET Nat) \X (SUBSET Nat)
    OBVIOUS
  <2>3. <<1..k, 1..m>> \in StrictSubsetOrdering(Nat)
    BY <2>1, <2>2 DEF StrictSubsetOrdering
  <2> QED BY <2>1, <2>3, <1>2, <1>3
<1> QED BY <1>4

\* A finite non-empty set of naturals has a greatest element: the sets of the
\* members from k upwards shrink strictly as k grows.
LEMMA GreatestOfFinite ==
    ASSUME NEW T, T \subseteq Nat, T # {}, IsFiniteSet(T)
    PROVE  \E m \in T : \A k \in T : k <= m
<1> DEFINE up(k) == {j \in T : k <= j}
           U == {up(k) : k \in T}
<1>1. U \subseteq FiniteSubsetsOf(Nat) /\ U # {}
  <2>1. ASSUME NEW k \in T PROVE up(k) \in SUBSET Nat /\ IsFiniteSet(up(k))
    BY FS_Subset
  <2> HIDE DEF up
  <2> QED BY <2>1 DEF FiniteSubsetsOf
<1>2. PICK s \in U : \A r \in U : ~(<<r, s>> \in StrictSubsetOrdering(Nat))
  <2> HIDE DEF U
  <2> QED BY <1>1, WFMin, FS_StrictSubsetOrderingWellFounded
<1>3. PICK m \in T : s = up(m)
  BY <1>2
<1>4. ASSUME NEW k \in T, ~(k <= m) PROVE FALSE
  <2>0. m \in Nat /\ k \in Nat /\ \A j \in T : k <= j => m <= j
    BY <1>4
  <2>1. up(k) \in U /\ up(k) \subseteq up(m) /\ m \in up(m) /\ m \notin up(k)
    <3>1. up(k) \in U
      OBVIOUS
    <3>2. up(k) \subseteq up(m)
      BY <2>0
    <3>3. m \in up(m) /\ m \notin up(k)
      BY <1>4, <2>0
    <3> QED BY <3>1, <3>2, <3>3
  <2>2. <<up(k), up(m)>> \in (SUBSET Nat) \X (SUBSET Nat)
    OBVIOUS
  <2> HIDE DEF up
  <2>3. <<up(k), up(m)>> \in StrictSubsetOrdering(Nat)
    BY <2>1, <2>2 DEF StrictSubsetOrdering
  <2> QED BY <2>1, <2>3, <1>2, <1>3
<1> QED BY <1>4

----------------------------------------------------------------------------
(* Graphs.                                                                 *)

IsGraph(graph) == \A e \in graph.edge : e[1] \in graph.node /\ e[2] \in graph.node

\* A node reaches itself and, with a node, its successors; nothing outside of
\* a closed set is reached from inside.
LEMMA ReachableSelf ==
    ASSUME NEW graph, NEW n \in graph.node
    PROVE  n \in Reachable(graph, n)
  BY DEF Reachable

LEMMA ReachableStep ==
    ASSUME NEW graph, IsGraph(graph), NEW n
    PROVE  /\ Reachable(graph, n) \in SUBSET graph.node
           /\ ClosedUnder(graph, Reachable(graph, n))
<1>1. ASSUME NEW e \in graph.edge, e[1] \in Reachable(graph, n)
      PROVE  e[2] \in Reachable(graph, n)
  <2>1. e[2] \in graph.node
    BY DEF IsGraph
  <2>2. ASSUME NEW S \in SUBSET graph.node, n \in S, ClosedUnder(graph, S) PROVE e[2] \in S
    <3>1. e[1] \in S
      BY <1>1, <2>2 DEF Reachable
    <3> QED BY <2>2, <3>1 DEF ClosedUnder
  <2> QED BY <2>1, <2>2 DEF Reachable
<1>2. Reachable(graph, n) \in SUBSET graph.node
  BY DEF Reachable
<1> QED BY <1>1, <1>2 DEF ClosedUnder

LEMMA ReachableInClosed ==
    ASSUME NEW graph, NEW S \in SUBSET graph.node, ClosedUnder(graph, S), NEW n \in S
    PROVE  Reachable(graph, n) \subseteq S
  BY DEF Reachable

\* No edge lies on a cycle.
Acyclic(graph) == \A e \in graph.edge : e[1] \notin Reachable(graph, e[2])

\* Taking edges away closes no cycle, nor does adding edges into nodes that have
\* no way out.
LEMMA AddSinks ==
    ASSUME NEW graph, IsGraph(graph), Acyclic(graph), NEW D,
           NEW larger, IsGraph(larger), larger.node = graph.node,
           \A e \in larger.edge : (e \in graph.edge \/ e[2] \in D) /\ e[1] \notin D
    PROVE  Acyclic(larger)
<1> SUFFICES ASSUME NEW e \in larger.edge, e[1] \in Reachable(larger, e[2]) PROVE FALSE
  BY DEF Acyclic
<1> DEFINE S == Reachable(graph, e[2]) \cup (D \cap graph.node)
<1>1. e[1] \in graph.node /\ e[2] \in graph.node /\ e[1] \notin D
  BY DEF IsGraph
<1>2. S \in SUBSET larger.node /\ e[2] \in S
  BY <1>1, ReachableStep, ReachableSelf
<1>3. ClosedUnder(larger, S)
  <2> SUFFICES ASSUME NEW f \in larger.edge, f[1] \in S PROVE f[2] \in S
    BY DEF ClosedUnder
  <2>1. f[1] \in Reachable(graph, e[2]) /\ f[2] \in graph.node
    BY DEF IsGraph
  <2>2. CASE f \in graph.edge
    BY <2>1, <2>2, ReachableStep DEF ClosedUnder
  <2>3. CASE f[2] \in D
    BY <2>1, <2>3
  <2> QED BY <2>2, <2>3
<1>4. e[1] \in Reachable(graph, e[2])
  <2> HIDE DEF S
  <2>1. e[1] \in S
    BY <1>2, <1>3, ReachableInClosed
  <2> QED BY <1>1, <2>1 DEF S
<1>5. CASE e \in graph.edge
  BY <1>4, <1>5 DEF Acyclic
<1>6. CASE e[2] \in D
  <2> DEFINE T == {e[2]}
  <2>1. T \in SUBSET larger.node /\ ClosedUnder(larger, T)
    BY <1>1, <1>6 DEF ClosedUnder
  <2>2. e[1] \in T
    <3> HIDE DEF T
    <3>1. e[2] \in T
      BY DEF T
    <3> QED BY <2>1, <3>1, ReachableInClosed
  <2> QED BY <1>1, <1>6, <2>2
<1> QED BY <1>5, <1>6

\* Adding edges out of one node closes no cycle unless there is one on the way
\* from that node.
LEMMA AddSource ==
    ASSUME NEW graph, IsGraph(graph), Acyclic(graph), NEW o \in graph.node,
           NEW larger, IsGraph(larger), larger.node = graph.node,
           \A e \in larger.edge : e \in graph.edge \/ e[1] = o,
           \A e \in larger.edge : e[1] \in Reachable(larger, o) => e[1] \notin Reachable(larger, e[2])
    PROVE  Acyclic(larger)
<1> SUFFICES ASSUME NEW e \in larger.edge, e[1] \in Reachable(larger, e[2]) PROVE FALSE
  BY DEF Acyclic
<1> DEFINE S == Reachable(graph, e[2]) \cup Reachable(larger, o)
<1>1. e[1] \in graph.node /\ e[2] \in graph.node /\ e[1] \notin Reachable(larger, o)
  BY DEF IsGraph
<1>2. o \in Reachable(larger, o)
  BY ReachableSelf
<1>3. S \in SUBSET larger.node /\ e[2] \in S
  BY <1>1, ReachableStep, ReachableSelf
<1>4. ClosedUnder(larger, S)
  <2> SUFFICES ASSUME NEW f \in larger.edge, f[1] \in S PROVE f[2] \in S
    BY DEF ClosedUnder
  <2>1. CASE f[1] \in Reachable(larger, o)
    BY <2>1, ReachableStep DEF ClosedUnder
  <2>2. CASE f[1] \notin Reachable(larger, o)
    <3>1. f \in graph.edge /\ f[1] \in Reachable(graph, e[2])
      BY <1>2, <2>2
    <3> QED BY <3>1, ReachableStep DEF ClosedUnder
  <2> QED BY <2>1, <2>2
<1>5. e[1] \in Reachable(graph, e[2])
  <2> HIDE DEF S
  <2>1. e[1] \in S
    BY <1>3, <1>4, ReachableInClosed
  <2> QED BY <1>1, <2>1 DEF S
<1>6. e \in graph.edge
  BY <1>1, <1>2
<1> QED BY <1>5, <1>6 DEF Acyclic
=============================================================================
