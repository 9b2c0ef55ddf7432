\* One node, two messages, one client; nothing goes wrong.
CONSTANTS
    a = a
    b = b
    Node = {a}
    Size = 8
    Points <- PointsOf
    QueueHash = 5
    Message = {m1, m2}
    Client = {c1}
    None = None
    ReplicationFactor = 2
    Timeout = 1
    Faults <- Calm
    MaxJobs = 2
    MaxLag = 1
    MaxReady = 2
    MaxFaults = 0
SPECIFICATION FairSpec
PROPERTY UnackedReturns
