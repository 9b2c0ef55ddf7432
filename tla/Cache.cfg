\* Two nodes, one key, two ops at a time; everything may go wrong, once.
CONSTANTS
    a = a
    b = b
    Node = {a, b}
    Size = 8
    Points <- PointsOf
    Key = {k1}
    KeyHash <- HashOf
    Value = {v1, v2}
    None = None
    Capacity = 1
    Faults <- All
    Slot = {s1, s2}
    MaxClock = 1
    MaxFaults = 1
SPECIFICATION Spec
SYMMETRY Symmetry
INVARIANTS TypeOK StaleOnlyIfOwed
PROPERTIES ForwardsDescend
