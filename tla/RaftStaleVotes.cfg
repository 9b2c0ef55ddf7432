\* Elections of two terms; no call fails.
CONSTANTS
    Node = {n1, n2, n3}
    Command = {}
    None = None
    MaxTerm = 2
    Starters = {n1, n2, n3}
    MaxCalls = 0
    Flaky = {}
SPECIFICATION Spec
SYMMETRY Symmetry
INVARIANT ElectionSafety
\* No election starts after MaxTerm: then nothing may be left to do.
CHECK_DEADLOCK FALSE
