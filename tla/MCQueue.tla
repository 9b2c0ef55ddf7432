------------------------------ MODULE MCQueue ------------------------------
\* Instances of Queue for TLC: rings of up to two nodes with two virtual nodes
\* each, the second of which is the queue's first replica.
EXTENDS Queue

CONSTANTS a, b

PointsOf == [n \in Node |-> IF n = a THEN {1, 4} ELSE {3, 6}]

\* Faults of the runs.
Calm == {}
All == {"send", "redis", "halt"}
=============================================================================
