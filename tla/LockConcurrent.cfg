\* Two requests in flight at once, of well-behaved clients.
CONSTANTS
    Key = {k1, k2}
    Owner = {o1, o2}
    MaxPending = 2
SPECIFICATION Spec
SYMMETRY Symmetry
CONSTRAINT Polite
INVARIANTS NoWaitCycle
