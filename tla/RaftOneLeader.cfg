\* Two replicate calls under the leader of term 1, one follower hard to reach.
CONSTANTS
    Node = {n1, n2, n3}
    Command = {c1, c2}
    None = None
    MaxTerm = 1
    Starters = {n1, n2, n3}
    MaxCalls = 0
    Flaky = {n3}
SPECIFICATION Spec
SYMMETRY Symmetry
INVARIANTS Agreement FollowersHoldPrefix
\* No election starts after MaxTerm: then nothing may be left to do.
CHECK_DEADLOCK FALSE
