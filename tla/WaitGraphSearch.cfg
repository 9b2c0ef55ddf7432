\* Every wait graph of four owners, up to their names.
CONSTANTS
    Key = {k1}
    Owner = {o1, o2, o3, o4}
SPECIFICATION Spec
SYMMETRY Symmetry
INVARIANTS TypeOK AnswerIsRight LeftNodesAreClean
\* The search stops when it has its answer.
CHECK_DEADLOCK FALSE
