--------------------------- MODULE MCRaftStorage ---------------------------
\* Instances of RaftStorage for TLC.
EXTENDS RaftStorage, TLC

Symmetry == Permutations(Task) \cup Permutations(Candidate)

\* What a node does after it forgot something is not followed further.
NothingForgotten == forgot = {}
=============================================================================
