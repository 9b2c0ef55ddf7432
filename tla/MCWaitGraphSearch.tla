------------------------- MODULE MCWaitGraphSearch -------------------------
\* All wait graphs over a few owners.  Key plays no part in the search.
EXTENDS WaitGraphSearch, TLC

Symmetry == Permutations(Owner)
============================================================================
