--------------------------- MODULE MCLockManager ---------------------------
\* Instances of LockManager for TLC: owners and keys are interchangeable.
EXTENDS LockManager, TLC

Symmetry == Permutations(Owner) \cup Permutations(Key)

\* Clients that wait for the answer before they send the next command, and send
\* nothing while they are queued: well-behaved ones, which the code does not ask for.
Polite ==
    /\ \A i, j \in 1..Len(pending) : pending[i].owner = pending[j].owner => i = j
    /\ \A i \in 1..Len(pending), k \in Key : pending[i].owner \notin QueuedOwners(locks[k])
============================================================================
