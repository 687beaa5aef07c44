CONSTANTS
    p = p  a = a  b = b  c = c
    e1 = e1  e2 = e2  e3 = e3  r1 = r1  r2 = r2
    None = None
    Nodes <- ThreeNodes
    Projects <- NoProject
    EdgeIds <- ThreeEdges
    MaxDepth = 0
    Requests <- TwoRequests
    Connectors <- TwoRequests
SPECIFICATION RequestsSpec
INVARIANTS Acyclic
SYMMETRY RequestSymmetry
CHECK_DEADLOCK FALSE
