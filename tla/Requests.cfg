CONSTANTS
    p = p  a = a  b = b  c = c
    e1 = e1  e2 = e2  e3 = e3  r1 = r1  r2 = r2
    None = None
    Nodes <- FourNodes
    Projects <- OneProject
    EdgeIds <- ThreeEdges
    MaxDepth = 3
    Requests <- TwoRequests
    Connectors <- OneRequest
SPECIFICATION RequestsSpec
INVARIANTS RequestsTypeOK Acyclic OnePerPair TreesStayTrees
PROPERTIES ServedAsOne
SYMMETRY RequestSymmetry
CHECK_DEADLOCK FALSE
