\* Elections of two terms, with heartbeats; the third node only votes and is hard to reach.
CONSTANTS
    Node = {n1, n2, n3}
    Command = {}
    None = None
    MaxTerm = 2
    Starters = {n1, n2}
    MaxCalls = 1
    Flaky = {n3}
SPECIFICATION Spec
SYMMETRY Symmetry
INVARIANTS TypeOK OneBallotPerTerm OneWinnerPerTerm ElectionInv
PROPERTY VoteOnce
\* No election starts after MaxTerm: then nothing may be left to do.
CHECK_DEADLOCK FALSE
