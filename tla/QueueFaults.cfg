\* Two nodes; everything may go wrong, twice in all.
CONSTANTS
    a = a
    b = b
    Node = {a, b}
    Size = 8
    Points <- PointsOf
    QueueHash = 5
    Message = {m1}
    Client = {c1}
    None = None
    ReplicationFactor = 2
    Timeout = 1
    Faults <- All
    MaxJobs = 2
    MaxLag = 0
    MaxReady = 1
    MaxFaults = 2
SPECIFICATION Spec
INVARIANTS TypeOK OnlyHoldersLose
PROPERTY ImplementsAtLeastOnce
