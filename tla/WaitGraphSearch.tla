-------------------------- MODULE WaitGraphSearch --------------------------
(***************************************************************************)
(* DistributedLockManager._has_cycle: the depth-first search that decides  *)
(* whether a lock request is refused.  Python iterates over sets, so the   *)
(* order in which neighbours are visited is arbitrary.  The search is      *)
(* compared with its meaning, LockTable!CycleFrom, on every wait graph.    *)
(*                                                                         *)
(* frames is the recursion: one frame per active visit(node), with the     *)
(* neighbours its loop has left.  The set `stack` of the code holds the    *)
(* nodes of these frames.                                                  *)
(***************************************************************************)
EXTENDS LockTable

VARIABLES edges,     \* the wait graph
          start,     \* the owner whose request is being tested
          visited,   \* nodes the search has entered
          frames,    \* active calls of visit, innermost last
          result     \* "searching", then the answer: "cycle" or "no cycle"

vars == <<edges, start, visited, frames, result>>

Nodes == {f.node : f \in ToSet(frames)}
Neighbours(n) == {m \in Owner : <<n, m>> \in edges}
Top == frames[Len(frames)]

Init == /\ edges \in SUBSET (Owner \X Owner)
        /\ start \in Owner
        /\ visited = {start}
        /\ frames = <<[node |-> start, todo |-> Neighbours(start)]>>
        /\ result = "searching"

\* Slip: visited is asked in place of the stack.
CloseVisited(n) == n \in visited /\ result' = "cycle" /\ UNCHANGED <<visited, frames>>

\* visit(n) meets a node of the stack: True, all the way up.
Close(n) == /\ n \in Nodes
            /\ result' = "cycle"
            /\ UNCHANGED <<visited, frames>>

\* visit(n) returns False at once: n was searched before.
Skip(n) == /\ n \in visited \ Nodes
           /\ frames' = [frames EXCEPT ![Len(frames)].todo = @ \ {n}]
           /\ UNCHANGED <<visited, result>>

\* visit(n) enters a new node.
Enter(n) == /\ n \notin visited
            /\ visited' = visited \cup {n}
            /\ frames' = Append([frames EXCEPT ![Len(frames)].todo = @ \ {n}],
                                [node |-> n, todo |-> Neighbours(n)])
            /\ UNCHANGED result

\* Slips: the call returns inside its loop; the last one returns nothing.
LeaveEarly == /\ frames' = Front(frames)
              /\ result' = IF Len(frames) = 1 THEN "no cycle" ELSE "searching"
              /\ UNCHANGED visited
LeaveSilent == /\ Top.todo = {}
               /\ frames' = Front(frames)
               /\ result' = IF Len(frames) = 1 THEN "none" ELSE "searching"
               /\ UNCHANGED visited

\* The loop of the innermost call is over: stack.remove(node), return False.
Leave == /\ Top.todo = {}
         /\ frames' = Front(frames)
         /\ result' = IF Len(frames) = 1 THEN "no cycle" ELSE "searching"
         /\ UNCHANGED visited

Next == /\ result = "searching"
        /\ \/ \E n \in Top.todo : Close(n) \/ Skip(n) \/ Enter(n)
           \/ Leave
        /\ UNCHANGED <<edges, start>>

Spec == Init /\ [][Next]_vars

----------------------------------------------------------------------------
TypeOK == /\ edges \subseteq Owner \X Owner
          /\ start \in Owner
          /\ visited \subseteq Owner
          /\ \A f \in ToSet(frames) : f.node \in Owner /\ f.todo \subseteq Owner
          /\ result \in {"searching", "cycle", "no cycle"}

WholeGraph == [node |-> Owner, edge |-> edges]

\* The answer is right: a refused request meets a cycle of the wait graph,
\* an accepted one does not, whatever the order of the visits was.
AnswerIsRight ==
    /\ result = "cycle" => CycleFrom(WholeGraph, start)
    /\ result = "no cycle" => ~CycleFrom(WholeGraph, start)

\* Why skipping a visited node is sound: one that has been left lies on no
\* cycle, and all its neighbours have been left too.
LeftNodesAreClean ==
    \A n \in visited \ Nodes :
        /\ ~CycleFrom(WholeGraph, n)
        /\ Neighbours(n) \subseteq visited \ Nodes
============================================================================
