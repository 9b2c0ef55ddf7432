----------------------- MODULE WaitGraphSearchProofs -----------------------
(***************************************************************************)
(* Theorems about WaitGraphSearch, for every set of owners, every wait     *)
(* graph and every order in which neighbours are visited.                  *)
(***************************************************************************)
EXTENDS WaitGraphSearch, Basics, SequenceTheorems

Frame == [node : Owner, todo : SUBSET Owner]
Left == visited \ Nodes

SearchTypes ==
    /\ edges \subseteq Owner \X Owner /\ start \in Owner /\ visited \subseteq Owner
    /\ frames \in Seq(Frame)
    /\ result \in {"searching", "cycle", "no cycle"}

\* The frames are a path that starts at start, of nodes that differ.
IsPath ==
    /\ frames # << >> => frames[1].node = start
    /\ \A i, j \in 1..Len(frames) :
           /\ i # j => frames[i].node # frames[j].node
           /\ i <= j => frames[j].node \in Reachable(WholeGraph, frames[i].node)

\* What the loop of a call is done with has been left, but for the node that is
\* being visited from it.
Processed ==
    \A i \in 1..Len(frames) :
        LET f == frames[i]
        IN /\ f.todo \subseteq Neighbours(f.node)
           /\ \A m \in Neighbours(f.node) \ f.todo :
                  m \in Left \/ (i < Len(frames) /\ m = frames[i + 1].node)

Ends == /\ start \in visited /\ Nodes \subseteq visited
        /\ result = "searching" <=> (frames # << >> /\ result # "cycle")
        /\ result = "cycle" => CycleFrom(WholeGraph, start)

\* LeftNodesAreClean is inductive only together with what keeps the loops honest:
\* that a call which ends has nothing but left nodes after its own.
SearchInv == SearchTypes /\ IsPath /\ Processed /\ Ends /\ LeftNodesAreClean

LEMMA NodesOf ==
    ASSUME NEW q \in Seq(Frame)
    PROVE  {f.node : f \in ToSet(q)} = {q[i].node : i \in 1..Len(q)}
<1>1. DOMAIN q = 1..Len(q)
  OBVIOUS
<1>2. ToSet(q) = {q[i] : i \in 1..Len(q)}
  BY <1>1, Zenon DEF ToSet
<1> QED BY <1>2, Zenon

LEMMA NodesAre ==
    ASSUME SearchTypes
    PROVE  Nodes = {frames[i].node : i \in 1..Len(frames)}
  BY NodesOf DEF SearchTypes, Nodes

LEMMA WholeIsGraph ==
    ASSUME SearchTypes
    PROVE  /\ IsGraph(WholeGraph)
           /\ WholeGraph.node = Owner /\ WholeGraph.edge = edges
           /\ \A n : \A m : m \in Neighbours(n) <=> (m \in Owner /\ <<n, m>> \in edges)
  BY DEF SearchTypes, IsGraph, WholeGraph, Neighbours

LEMMA InitSearch == Init => SearchInv
<1> SUFFICES ASSUME Init PROVE SearchInv
  OBVIOUS
<1>1. SearchTypes
  BY DEF Init, SearchTypes, Frame, Neighbours
<1>2. Len(frames) = 1 /\ frames[1] = [node |-> start, todo |-> Neighbours(start)]
  BY DEF Init
<1>3. Nodes = {start} /\ visited = {start}
  BY <1>1, <1>2, NodesAre DEF Init
<1>4. IsPath
  <2>1. start \in Reachable(WholeGraph, start)
    BY <1>1, ReachableSelf, WholeIsGraph DEF SearchTypes
  <2>2. \A i \in 1..Len(frames) : i = 1 /\ frames[i].node = start
    BY <1>2
  <2>3. \A i, j \in 1..Len(frames) : i = j
    BY <2>2
  <2> QED BY <1>2, <2>1, <2>2, <2>3 DEF IsPath
<1>5. Processed
  BY <1>2 DEF Processed
<1>6. Ends /\ LeftNodesAreClean
  BY <1>2, <1>3 DEF Init, Ends, LeftNodesAreClean
<1> QED BY <1>1, <1>4, <1>5, <1>6 DEF SearchInv

\* The innermost call.
LEMMA TopIs ==
    ASSUME SearchInv, result = "searching"
    PROVE  /\ Len(frames) \in 1..Len(frames) /\ Len(frames) \in Nat /\ Top \in Frame
           /\ Top.node \in Owner /\ Top.node \in Nodes /\ Top.todo \subseteq Neighbours(Top.node)
           /\ \A i \in 1..Len(frames) : Top.node \in Reachable(WholeGraph, frames[i].node)
<1>1. frames \in Seq(Frame) /\ frames # << >>
  BY DEF SearchInv, SearchTypes, Ends
<1>2. Len(frames) \in 1..Len(frames) /\ Len(frames) \in Nat /\ Top \in Frame
  BY <1>1 DEF Top
<1>3. Top.node \in Owner
  BY <1>2 DEF Frame
<1>4. Top.node \in Nodes
  BY <1>2, NodesAre DEF SearchInv, Top
<1>5. Top.todo \subseteq Neighbours(Top.node)
  BY <1>2 DEF SearchInv, Processed, Top
<1>6. \A i \in 1..Len(frames) : i <= Len(frames)
  BY <1>2
<1>7. \A i \in 1..Len(frames) : Top.node \in Reachable(WholeGraph, frames[i].node)
  BY <1>2, <1>6 DEF SearchInv, IsPath, Top
<1> QED BY <1>2, <1>3, <1>4, <1>5, <1>7

\* Meeting a node of the stack: the path from there to the innermost call and
\* back is a cycle, and start leads to it.
LEMMA CloseKeeps ==
    ASSUME SearchInv, result = "searching", UNCHANGED <<edges, start>>,
           NEW n \in Top.todo, Close(n)
    PROVE  SearchInv'
<1>1. UNCHANGED <<edges, start, visited, frames>> /\ result' = "cycle"
  BY DEF Close
<1>2. /\ UNCHANGED <<Nodes, WholeGraph, Left, LeftNodesAreClean, IsPath, Processed>>
      /\ CycleFrom(WholeGraph, start)' = CycleFrom(WholeGraph, start)
  BY <1>1 DEF Nodes, WholeGraph, Left, LeftNodesAreClean, IsPath, Processed, Neighbours
<1>3. CycleFrom(WholeGraph, start)
  <2> DEFINE e == <<Top.node, n>>
  <2>1. e \in edges /\ Top.node \in Owner
    BY TopIs, WholeIsGraph DEF SearchInv
  <2>2. PICK i \in 1..Len(frames) : n = frames[i].node
    BY NodesAre DEF Close, SearchInv
  <2>3. Top.node \in Reachable(WholeGraph, n)
    BY <2>2, TopIs
  <2>4. Top.node \in Reachable(WholeGraph, start)
    <3>1. 1 \in 1..Len(frames) /\ frames[1].node = start
      BY TopIs DEF SearchInv, SearchTypes, Ends, IsPath
    <3> QED BY <3>1, TopIs
  <2>5. e[1] = Top.node /\ e[2] = n
    OBVIOUS
  <2> HIDE DEF e
  <2> QED BY <2>1, <2>3, <2>4, <2>5, WholeIsGraph DEF SearchInv, CycleFrom
<1> QED BY <1>1, <1>2, <1>3 DEF SearchInv, SearchTypes, Ends

\* What a turn of the innermost loop does to the frames.
TurnOf(n) == [frames EXCEPT ![Len(frames)].todo = @ \ {n}]

LEMMA TurnIs ==
    ASSUME SearchInv, result = "searching", NEW n \in Top.todo
    PROVE  /\ TurnOf(n) \in Seq(Frame) /\ Len(TurnOf(n)) = Len(frames)
           /\ \A i \in 1..Len(frames) :
                  /\ TurnOf(n)[i].node = frames[i].node
                  /\ TurnOf(n)[i].todo \subseteq frames[i].todo
                  /\ frames[i].todo \subseteq
                         TurnOf(n)[i].todo \cup (IF i = Len(frames) THEN {n} ELSE {})
<1> DEFINE t == Top
           f == [t EXCEPT !.todo = @ \ {n}]
<1>1. frames \in Seq(Frame) /\ t \in Frame /\ Len(frames) \in 1..Len(frames) /\ t = frames[Len(frames)]
  BY TopIs DEF SearchInv, SearchTypes, Top
<1>2. TurnOf(n) = [frames EXCEPT ![Len(frames)] = f]
  BY DEF TurnOf, Top
<1> HIDE DEF t
<1>3. f \in Frame /\ f.node = t.node /\ f.todo = t.todo \ {n}
  BY <1>1 DEF Frame
<1> HIDE DEF f
<1>4. TurnOf(n) \in Seq(Frame) /\ Len(TurnOf(n)) = Len(frames)
  BY <1>1, <1>2, <1>3
<1>5. \A i \in 1..Len(frames) : TurnOf(n)[i] = IF i = Len(frames) THEN f ELSE frames[i]
  BY <1>1, <1>2
<1> QED BY <1>1, <1>3, <1>4, <1>5

\* A visited node that is not on the stack has been left.
LEMMA SkipKeeps ==
    ASSUME SearchInv, result = "searching", UNCHANGED <<edges, start>>,
           NEW n \in Top.todo, Skip(n)
    PROVE  SearchInv'
<1>1. /\ UNCHANGED <<edges, start, visited, result>> /\ frames' = TurnOf(n)
      /\ n \in Left
  BY DEF Skip, TurnOf, Left
<1>2. /\ frames' \in Seq(Frame) /\ Len(frames') = Len(frames) /\ frames # << >>
      /\ \A i \in 1..Len(frames) :
             /\ frames'[i].node = frames[i].node
             /\ frames'[i].todo \subseteq frames[i].todo
             /\ frames[i].todo \subseteq frames'[i].todo \cup {n}
  BY <1>1, TurnIs DEF SearchInv, Ends
<1>3. SearchTypes /\ SearchTypes'
  BY <1>1, <1>2 DEF SearchInv, SearchTypes
<1> DEFINE l == Len(frames)
<1>0. l \in Nat /\ 1 \in 1..l /\ \A i \in 1..l : i < l => i + 1 \in 1..l
  <2>1. l \in Nat /\ l \in 1..l
    BY TopIs
  <2> HIDE DEF l
  <2> QED BY <2>1
<1>4. Nodes' = Nodes
  <2>1. Nodes' = {frames'[i].node : i \in 1..Len(frames')}
    BY <1>2, NodesOf DEF Nodes
  <2> QED BY <1>2, <1>3, <2>1, NodesAre
<1>5. Left' = Left /\ WholeGraph' = WholeGraph /\ \A x : Neighbours(x)' = Neighbours(x)
  BY <1>1, <1>4 DEF Left, WholeGraph, Neighbours
<1>6. frames' # << >>
  BY <1>0, <1>2
<1>7. IsPath'
  <2>1. frames'[1].node = start'
    <3> QED BY <1>0, <1>1, <1>2 DEF SearchInv, IsPath
  <2>2. \A i, j \in 1..Len(frames) :
           /\ i # j => frames'[i].node # frames'[j].node
           /\ i <= j => frames'[j].node \in Reachable(WholeGraph, frames'[i].node)
    BY <1>2 DEF SearchInv, IsPath
  <2> QED BY <1>2, <1>5, <2>1, <2>2 DEF IsPath
<1>8. Processed'
  <2> SUFFICES ASSUME NEW i \in 1..Len(frames)
               PROVE  /\ frames'[i].todo \subseteq Neighbours(frames[i].node)
                      /\ \A m \in Neighbours(frames[i].node) \ frames'[i].todo :
                             m \in Left \/ (i < Len(frames) /\ m = frames[i + 1].node)
    <3> QED BY <1>0, <1>2, <1>5 DEF Processed
  <2>1. /\ frames[i].todo \subseteq Neighbours(frames[i].node)
        /\ \A m \in Neighbours(frames[i].node) \ frames[i].todo :
               m \in Left \/ (i < Len(frames) /\ m = frames[i + 1].node)
    BY DEF SearchInv, Processed
  <2> QED BY <1>1, <1>2, <2>1
<1>9. Ends' /\ LeftNodesAreClean'
  BY <1>1, <1>2, <1>4, <1>5, <1>6 DEF SearchInv, Ends, LeftNodesAreClean, Left
<1> QED BY <1>3, <1>7, <1>8, <1>9 DEF SearchInv

\* A new node: the path grows by an edge, and nothing is left by it.
LEMMA EnterKeeps ==
    ASSUME SearchInv, result = "searching", UNCHANGED <<edges, start>>,
           NEW n \in Top.todo, Enter(n)
    PROVE  SearchInv'
<1> DEFINE f == [node |-> n, todo |-> Neighbours(n)]
           l == Len(frames)
           t == TurnOf(n)
<1>1. /\ UNCHANGED <<edges, start, result>> /\ visited' = visited \cup {n}
      /\ frames' = Append(t, f) /\ n \notin visited
  BY DEF Enter, TurnOf
<1>2. /\ n \in Neighbours(Top.node) /\ n \in Owner /\ <<Top.node, n>> \in edges
      /\ Top.node \in Owner /\ Top = frames[l]
  BY TopIs, WholeIsGraph DEF SearchInv, Top
<1>3. f \in Frame /\ f.node = n /\ f.todo = Neighbours(n)
  BY <1>2 DEF Frame, Neighbours
<1> HIDE DEF f
<1>4. l \in Nat /\ 1 \in 1..l /\ l + 1 \notin 1..l
  <2>1. l \in Nat /\ l \in 1..l
    BY TopIs
  <2> HIDE DEF l
  <2> QED BY <2>1
<1>5. /\ t \in Seq(Frame) /\ Len(t) = l
      /\ \A i \in 1..l : /\ t[i].node = frames[i].node
                         /\ t[i].todo \subseteq frames[i].todo
                         /\ frames[i].todo \subseteq
                                t[i].todo \cup (IF i = l THEN {n} ELSE {})
  BY TurnIs
<1> HIDE DEF t
<1>6. /\ frames' \in Seq(Frame) /\ Len(frames') = l + 1
      /\ frames'[l + 1] = f /\ \A i \in 1..l : frames'[i] = t[i]
  BY <1>1, <1>3, <1>5
<1> HIDE DEF l
<1>7. 1..(l + 1) = 1..l \cup {l + 1}
  BY <1>4
<1>8. SearchTypes /\ SearchTypes'
  BY <1>1, <1>2, <1>6 DEF SearchInv, SearchTypes
<1>9. Nodes' = Nodes \cup {n} /\ Nodes = {frames[i].node : i \in 1..l}
  <2>1. Nodes' = {frames'[i].node : i \in 1..(l + 1)}
    BY <1>6, NodesOf DEF Nodes
  <2>2. Nodes = {frames[i].node : i \in 1..l}
    BY <1>8, NodesAre DEF l
  <2> QED BY <1>3, <1>5, <1>6, <1>7, <2>1, <2>2
<1>10. Left' = Left /\ WholeGraph' = WholeGraph /\ \A x : Neighbours(x)' = Neighbours(x)
  BY <1>1, <1>9 DEF Left, WholeGraph, Neighbours
<1>11. /\ frames'[l + 1].node = n /\ frames'[l + 1].todo = Neighbours(n)
       /\ \A i \in 1..l : frames'[i].node = frames[i].node
  BY <1>3, <1>5, <1>6
<1>12. \A i \in 1..l : frames[i].node # n /\ n \in Reachable(WholeGraph, frames[i].node)
  <2> TAKE i \in 1..l
  <2>1. frames[i].node # n
    BY <1>1, <1>9 DEF SearchInv, Ends
  <2>2. Top.node \in Reachable(WholeGraph, frames[i].node)
    BY TopIs DEF l
  <2>3. n \in Reachable(WholeGraph, frames[i].node)
    <3> DEFINE e == <<Top.node, n>>
    <3>1. e \in WholeGraph.edge /\ IsGraph(WholeGraph)
      BY <1>2, <1>8, WholeIsGraph
    <3>2. ClosedUnder(WholeGraph, Reachable(WholeGraph, frames[i].node))
      BY <3>1, ReachableStep
    <3>3. e[1] = Top.node /\ e[2] = n
      OBVIOUS
    <3> HIDE DEF e
    <3> QED BY <2>2, <3>1, <3>2, <3>3 DEF ClosedUnder
  <2> QED BY <2>1, <2>3
<1>13. n \in Reachable(WholeGraph, n)
  BY <1>2, <1>8, ReachableSelf, WholeIsGraph
<1>14. IsPath'
  <2>1. frames'[1].node = start
    BY <1>1, <1>4, <1>11 DEF SearchInv, IsPath, Ends
  <2>2. \A i, j \in 1..l :
           /\ i # j => frames'[i].node # frames'[j].node
           /\ i <= j => frames'[j].node \in Reachable(WholeGraph, frames'[i].node)
    BY <1>11 DEF SearchInv, IsPath, l
  <2>3. \A i \in 1..l : ~(l + 1 <= i)
    BY <1>4
  <2>4. \A i, j \in 1..(l + 1) :
           /\ i # j => frames'[i].node # frames'[j].node
           /\ i <= j => frames'[j].node \in Reachable(WholeGraph, frames'[i].node)
    <3> TAKE i, j \in 1..(l + 1)
    <3>1. CASE i \in 1..l /\ j \in 1..l
      BY <2>2, <3>1
    <3>2. CASE i \in 1..l /\ j = l + 1
      BY <1>11, <1>12, <3>2
    <3>3. CASE i = l + 1 /\ j \in 1..l
      BY <1>11, <1>12, <2>3, <3>3
    <3>4. CASE i = l + 1 /\ j = l + 1
      BY <1>11, <1>13, <3>4
    <3> QED BY <1>7, <3>1, <3>2, <3>3, <3>4
  <2> QED BY <1>1, <1>6, <1>10, <2>1, <2>4 DEF IsPath
<1>15. Processed'
  <2> SUFFICES ASSUME NEW i \in 1..(l + 1)
               PROVE  /\ frames'[i].todo \subseteq Neighbours(frames'[i].node)
                      /\ \A m \in Neighbours(frames'[i].node) \ frames'[i].todo :
                             m \in Left \/ (i < l + 1 /\ m = frames'[i + 1].node)
    BY <1>6, <1>10 DEF Processed
  <2>1. CASE i = l + 1
    BY <1>11, <2>1
  <2>2. CASE i \in 1..l
    <3>1. /\ frames[i].todo \subseteq Neighbours(frames[i].node)
          /\ \A m \in Neighbours(frames[i].node) \ frames[i].todo :
                 m \in Left \/ (i < l /\ m = frames[i + 1].node)
      BY <2>2 DEF SearchInv, Processed, l
    <3>2. /\ frames'[i].todo \subseteq frames[i].todo
          /\ frames[i].todo \subseteq frames'[i].todo \cup (IF i = l THEN {n} ELSE {})
      BY <1>5, <1>6, <2>2
    <3>3. i < l + 1 /\ (i < l => i + 1 \in 1..l) /\ (i # l => i < l)
      BY <1>4, <2>2
    <3>4. frames'[i].node = frames[i].node
      BY <1>11, <2>2
    <3>5. i < l => frames'[i + 1].node = frames[i + 1].node
      BY <1>11, <3>3
    <3>6. i = l => frames'[i + 1].node = n
      BY <1>11
    <3>7. ASSUME NEW m \in Neighbours(frames[i].node), m \notin frames'[i].todo
          PROVE  m \in Left \/ m = frames'[i + 1].node
      <4>1. CASE m \notin frames[i].todo
        BY <3>1, <3>5, <4>1
      <4>2. CASE m \in frames[i].todo
        BY <3>2, <3>6, <3>7, <4>2
      <4> QED BY <4>1, <4>2
    <3> QED BY <3>1, <3>2, <3>3, <3>4, <3>7
  <2> QED BY <1>7, <2>1, <2>2
<1>16. Ends'
  <2>1. frames' # << >>
    BY <1>4, <1>6
  <2> QED BY <1>1, <1>9, <1>10, <2>1 DEF SearchInv, Ends
<1>17. LeftNodesAreClean'
  BY <1>10 DEF SearchInv, LeftNodesAreClean, Left
<1> QED BY <1>8, <1>14, <1>15, <1>16, <1>17 DEF SearchInv

\* A call that ends with all of its neighbours left lies on no cycle: a cycle
\* would lead through left nodes, and they lead to left nodes only.
LEMMA TopIsClean ==
    ASSUME SearchInv, result = "searching", Top.todo = {}
    PROVE  Neighbours(Top.node) \subseteq Left /\ ~CycleFrom(WholeGraph, Top.node)
<1> DEFINE x == Top.node
           W == WholeGraph
<1>1. x \in Owner /\ x \notin Left
  BY TopIs DEF Left
<1>2. Neighbours(x) \subseteq Left
  <2>1. Len(frames) \in 1..Len(frames) /\ ~(Len(frames) < Len(frames))
    BY TopIs
  <2> QED BY <2>1 DEF SearchInv, Processed, Top
<1>3. IsGraph(W) /\ W.node = Owner /\ W.edge = edges /\ Left \subseteq Owner
  BY WholeIsGraph DEF SearchInv, SearchTypes, Left
<1>4. \A e \in W.edge : e[1] \in Owner /\ e[2] \in Neighbours(e[1])
  <2>1. \A e \in W.edge : e = <<e[1], e[2]>> /\ e[1] \in Owner /\ e[2] \in Owner
    BY <1>3 DEF SearchInv, SearchTypes
  <2> QED BY <1>3, <2>1 DEF Neighbours
<1>5. \A n \in Left : Neighbours(n) \subseteq Left /\ ~CycleFrom(W, n)
  BY DEF SearchInv, LeftNodesAreClean, Left
<1> DEFINE S == Left \cup {x}
<1>6. ClosedUnder(W, Left) /\ ClosedUnder(W, S)
  BY <1>2, <1>4, <1>5 DEF ClosedUnder
<1>7. S \in SUBSET W.node /\ x \in S /\ Left \in SUBSET W.node
  BY <1>1, <1>3
<1> HIDE DEF W, x
<1>8. ASSUME NEW e \in W.edge, e[1] \in Reachable(W, x), e[1] \in Reachable(W, e[2]) PROVE FALSE
  <2>1. e[1] \in S
    <3> HIDE DEF S
    <3> QED BY <1>6, <1>7, <1>8, ReachableInClosed
  <2>2. CASE e[1] \in Left
    <3>1. e[1] \in Reachable(W, e[1])
      BY <1>3, <1>4, ReachableSelf
    <3> QED BY <1>5, <1>8, <2>2, <3>1 DEF CycleFrom
  <2>3. CASE e[1] = x
    <3>1. e[2] \in Left
      BY <1>2, <1>4, <2>3
    <3>2. e[1] \in Left
      BY <1>6, <1>7, <1>8, <3>1, ReachableInClosed
    <3> QED BY <1>1, <2>3, <3>2
  <2> QED BY <2>1, <2>2, <2>3
<1>9. ~CycleFrom(W, x)
  BY <1>8 DEF CycleFrom
<1> QED BY <1>2, <1>9 DEF W, x

LEMMA FrontIs ==
    ASSUME NEW q \in Seq(Frame), q # << >>
    PROVE  /\ Front(q) \in Seq(Frame) /\ Len(Front(q)) = Len(q) - 1
           /\ \A i \in 1..(Len(q) - 1) : Front(q)[i] = q[i]
           /\ Front(q) # << >> <=> Len(q) # 1
<1> DEFINE l == Len(q)
           r == SubSeq(q, 1, l - 1)
<1>1. l \in Nat /\ l # 0
  OBVIOUS
<1>2. \A i \in 1..(l - 1) : q[i] \in Frame
  <2>1. \A i \in 1..(l - 1) : i \in 1..l
    BY <1>1
  <2> QED BY <2>1
<1>3. /\ r \in Seq(Frame) /\ Len(r) = IF 1 <= l - 1 THEN (l - 1) - 1 + 1 ELSE 0
      /\ \A i \in 1..((l - 1) - 1 + 1) : r[i] = q[1 + i - 1]
  <2>1. l - 1 \in Int /\ 1 \in Int
    BY <1>1
  <2> HIDE DEF l
  <2> QED BY <1>2, <2>1, SubSeqProperties
<1> HIDE DEF l, r
<1>4. r \in Seq(Frame) /\ Len(r) = l - 1 /\ \A i \in 1..(l - 1) : r[i] = q[i]
  <2>1. (l - 1) - 1 + 1 = l - 1 /\ \A i \in 1..(l - 1) : 1 + i - 1 = i
    BY <1>1
  <2>2. Len(r) = l - 1
    BY <1>1, <1>3
  <2> QED BY <1>3, <2>1, <2>2
<1>5. r # << >> <=> l # 1
  <2>1. r # << >> <=> Len(r) # 0
    BY <1>4, EmptySeq
  <2> QED BY <1>1, <1>4, <2>1
<1>6. Front(q) = r
  BY DEF Front, r, l
<1> QED BY <1>4, <1>5, <1>6 DEF l

LEMMA LeaveKeeps ==
    ASSUME SearchInv, result = "searching", UNCHANGED <<edges, start>>, Leave
    PROVE  SearchInv'
<1> DEFINE l == Len(frames)
           x == Top.node
<1>1. UNCHANGED <<edges, start, visited>> /\ frames' = Front(frames)
  BY DEF Leave
<1>2. result' = IF l = 1 THEN "no cycle" ELSE "searching"
  BY DEF Leave
<1>3. Neighbours(x) \subseteq Left /\ ~CycleFrom(WholeGraph, x)
  BY TopIsClean DEF Leave
<1>4. l \in Nat /\ l \in 1..l /\ x \in Nodes /\ x = frames[l].node
  BY TopIs DEF Top
<1> HIDE DEF x
<1>5. SearchTypes /\ frames \in Seq(Frame)
  BY DEF SearchInv, SearchTypes
<1>6. /\ frames' \in Seq(Frame) /\ Len(frames') = l - 1
      /\ \A i \in 1..(l - 1) : frames'[i] = frames[i]
      /\ frames' # << >> <=> l # 1
  BY <1>1, <1>5, FrontIs DEF SearchInv, Ends
<1> HIDE DEF l
<1>7. /\ 1..l = 1..(l - 1) \cup {l} /\ l - 1 \in Nat /\ l \notin 1..(l - 1)
      /\ l # 1 => 1 \in 1..(l - 1)
      /\ \A i \in 1..(l - 1) : i < l /\ (i < l - 1 => i + 1 \in 1..(l - 1)) /\ (~(i < l - 1) => i + 1 = l)
  BY <1>4
<1>8. SearchTypes'
  BY <1>1, <1>2, <1>5, <1>6 DEF SearchTypes
<1>9. Nodes' = Nodes \ {x}
  <2>1. Nodes' = {frames[i].node : i \in 1..(l - 1)}
    <3>1. Nodes' = {frames'[i].node : i \in 1..(l - 1)}
      BY <1>6, NodesOf DEF Nodes
    <3> QED BY <1>6, <3>1
  <2>2. Nodes = {frames[i].node : i \in 1..l}
    BY <1>5, NodesAre DEF l
  <2>3. \A i \in 1..(l - 1) : frames[i].node # x
    BY <1>4, <1>7 DEF SearchInv, IsPath, l
  <2> QED BY <1>4, <1>7, <2>1, <2>2, <2>3
<1>10. x \in visited /\ Left' = Left \cup {x} /\ WholeGraph' = WholeGraph
  BY <1>1, <1>4, <1>9 DEF Left, SearchInv, Ends, WholeGraph
<1>11. \A n : Neighbours(n)' = Neighbours(n)
  BY <1>1 DEF Neighbours
<1>12. IsPath'
  <2>1. l # 1 => frames'[1].node = start
    <3>1. frames # << >>
      BY DEF SearchInv, Ends
    <3> QED BY <1>6, <1>7, <3>1 DEF SearchInv, IsPath
  <2>2. \A i, j \in 1..(l - 1) :
           /\ i # j => frames'[i].node # frames'[j].node
           /\ i <= j => frames'[j].node \in Reachable(WholeGraph, frames'[i].node)
    BY <1>6, <1>7 DEF SearchInv, IsPath, l
  <2> QED BY <1>1, <1>6, <1>10, <2>1, <2>2 DEF IsPath
<1>13. Processed'
  <2> SUFFICES ASSUME NEW i \in 1..(l - 1)
               PROVE  /\ frames[i].todo \subseteq Neighbours(frames[i].node)
                      /\ \A m \in Neighbours(frames[i].node) \ frames[i].todo :
                             m \in Left \cup {x} \/ (i < l - 1 /\ m = frames[i + 1].node)
    BY <1>6, <1>7, <1>10, <1>11 DEF Processed
  <2>1. /\ frames[i].todo \subseteq Neighbours(frames[i].node)
        /\ \A m \in Neighbours(frames[i].node) \ frames[i].todo :
               m \in Left \/ (i < l /\ m = frames[i + 1].node)
    BY <1>7 DEF SearchInv, Processed, l
  <2>2. ~(i < l - 1) => frames[i + 1].node = x
    BY <1>4, <1>7
  <2> QED BY <2>1, <2>2
<1>14. Ends'
  BY <1>1, <1>2, <1>6, <1>9 DEF SearchInv, Ends
<1>15. LeftNodesAreClean'
  BY <1>3, <1>10, <1>11 DEF SearchInv, LeftNodesAreClean, Left
<1> QED BY <1>8, <1>12, <1>13, <1>14, <1>15 DEF SearchInv

LEMMA NextSearch == SearchInv /\ [Next]_vars => SearchInv'
<1> SUFFICES ASSUME SearchInv, [Next]_vars PROVE SearchInv'
  OBVIOUS
<1>1. ASSUME NEW n \in Top.todo, Close(n), result = "searching", UNCHANGED <<edges, start>>
      PROVE  SearchInv'
  BY <1>1, CloseKeeps
<1>2. ASSUME NEW n \in Top.todo, Skip(n), result = "searching", UNCHANGED <<edges, start>>
      PROVE  SearchInv'
  BY <1>2, SkipKeeps
<1>3. ASSUME NEW n \in Top.todo, Enter(n), result = "searching", UNCHANGED <<edges, start>>
      PROVE  SearchInv'
  BY <1>3, EnterKeeps
<1>4. ASSUME Leave, result = "searching", UNCHANGED <<edges, start>>
      PROVE  SearchInv'
  BY <1>4, LeaveKeeps
<1>5. CASE UNCHANGED vars
  <2>1. UNCHANGED <<edges, start, visited, frames, result>>
    BY <1>5 DEF vars
  <2>2. UNCHANGED <<Nodes, WholeGraph, Left>> /\ \A n : Neighbours(n)' = Neighbours(n)
    BY <2>1 DEF Nodes, WholeGraph, Left, Neighbours
  <2>3. UNCHANGED <<IsPath, SearchTypes, Ends>>
    BY <2>1, <2>2 DEF IsPath, SearchTypes, Ends
  <2>4. UNCHANGED <<Processed, LeftNodesAreClean>>
    BY <2>1, <2>2 DEF Processed, LeftNodesAreClean
  <2> QED BY <2>3, <2>4 DEF SearchInv
<1> QED BY <1>1, <1>2, <1>3, <1>4, <1>5 DEF Next

LEMMA SearchInvariant == Spec => []SearchInv
  BY InitSearch, NextSearch, PTL DEF Spec

----------------------------------------------------------------------------
\* The frames, the visited nodes and the answer stay what the code keeps: owners,
\* sets of owners, and one of the two answers at the end.
THEOREM TypeCorrect == Spec => []TypeOK
<1>1. SearchInv => TypeOK
  <2> SUFFICES ASSUME SearchInv PROVE TypeOK
    OBVIOUS
  <2>1. frames \in Seq(Frame)
    BY DEF SearchInv, SearchTypes
  <2>2. DOMAIN frames = 1..Len(frames) /\ \A i \in 1..Len(frames) : frames[i] \in Frame
    BY <2>1
  <2>3. \A f \in ToSet(frames) : f \in Frame
    BY <2>2, Zenon DEF ToSet
  <2> QED BY <2>3 DEF SearchInv, SearchTypes, TypeOK, Frame
<1> QED BY <1>1, SearchInvariant, PTL

\* _has_cycle answers True exactly when the request leads to a cycle of the wait
\* graph: for every number of owners, every graph and every order of the visits.
THEOREM SearchIsRight == Spec => []AnswerIsRight
<1>1. SearchInv => AnswerIsRight
  <2> SUFFICES ASSUME SearchInv PROVE AnswerIsRight
    OBVIOUS
  <2>1. result = "cycle" => CycleFrom(WholeGraph, start)
    BY DEF SearchInv, Ends
  <2>2. ASSUME result = "no cycle" PROVE ~CycleFrom(WholeGraph, start)
    <3>1. frames = << >> /\ start \in visited
      BY <2>2 DEF SearchInv, Ends
    <3>2. Nodes = {}
      <4>1. SearchTypes /\ Len(frames) = 0
        BY <3>1 DEF SearchInv
      <4> QED BY <4>1, NodesAre
    <3> QED BY <3>1, <3>2 DEF SearchInv, LeftNodesAreClean
  <2> QED BY <2>1, <2>2 DEF AnswerIsRight
<1> QED BY <1>1, SearchInvariant, PTL

\* Why an early return on a visited node is sound: a node whose call has ended
\* lies on no cycle, and neither does anything it leads to.
THEOREM LeftStayClean == Spec => []LeftNodesAreClean
<1>1. SearchInv => LeftNodesAreClean
  BY DEF SearchInv
<1> QED BY <1>1, SearchInvariant, PTL
============================================================================
