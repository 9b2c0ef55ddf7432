------------------------------ MODULE MCCache ------------------------------
\* Instances of Cache for TLC: a ring of two nodes with two virtual nodes each,
\* and keys that belong to the first across the end of the circle.
EXTENDS Cache, TLC

CONSTANTS a, b

PointsOf == [n \in Node |-> IF n = a THEN {1, 4} ELSE {3, 6}]
HashOf == [k \in Key |-> 7]

Symmetry == Permutations(Value) \cup Permutations(Slot)

\* Faults of the run.
All == {"send", "redis", "halt"}
=============================================================================
