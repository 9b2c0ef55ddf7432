------------------------------- MODULE MCRaft -------------------------------
\* Instances of Raft for TLC.
EXTENDS Raft, TLC

Symmetry == Permutations(Flaky) \cup Permutations(Node \ Flaky)
=============================================================================
