SPECIFICATION RowsSpec
CONSTANTS
    a = a  b = b  c = c  d = d
    Nodes = {a, b, c, d}
    Projects = {a}
    Edges <- Diamond
    Requests = {r1, r2}
    Targets = {1, 2}
    Initial = Initial
    Nil = Nil
SYMMETRY RequestSymmetry
INVARIANTS RowsTypeOK
PROPERTIES VersionTells MovesAreRigid BodyFollowsState
CHECK_DEADLOCK FALSE
