\* Two terms, another candidate, two logs, two coroutines writing.
CONSTANTS
    Self = n
    Candidate = {c1, c2}
    None = None
    Log = {l0, l1}
    EmptyLog = l0
    MaxTerm = 2
    Task = {t1, t2}
SPECIFICATION Spec
CONSTRAINT NothingForgotten
SYMMETRY Symmetry
INVARIANTS TypeOK OnePromisePerTerm AtRest
