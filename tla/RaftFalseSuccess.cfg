\* Two replicate calls under the leader of term 1; no call fails.
CONSTANTS
    Node = {n1, n2}
    Command = {c1, c2}
    None = None
    MaxTerm = 1
    Starters = {n1, n2}
    MaxCalls = 1
    Flaky = {}
SPECIFICATION FairSpec
PROPERTY SuccessReachesAll
\* No election starts after MaxTerm: then nothing may be left to do.
CHECK_DEADLOCK FALSE
