---------------------------- MODULE Reachability ----------------------------
(***************************************************************************)
(* Reachability in a directed graph, a record with the fields node and     *)
(* edge as in the community module Graphs.  The definition there is a      *)
(* recursive function, which only TLC can use; this one is by closed sets. *)
(***************************************************************************)

\* No edge leads out of S.
ClosedUnder(graph, S) == \A e \in graph.edge : e[1] \in S => e[2] \in S

\* What a path from start leads to: a path cannot leave a closed set, and the
\* nodes at the end of a path are one.
Reachable(graph, start) ==
    {n \in graph.node :
        \A S \in SUBSET graph.node : start \in S /\ ClosedUnder(graph, S) => n \in S}
=============================================================================
