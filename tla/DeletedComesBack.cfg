CONSTANTS
    n1 = n1  n2 = n2  s1 = s1  s2 = s2  u1 = u1  u2 = u2
    Bootstrap = Bootstrap
    Nil = Nil
    Nodes <- OneNode
    Sockets <- OneSocket
    Updates <- OneUpdate
    WithBody <- OneNode
    MaxFlights = 2
    IdleTicks = 2
    MaxLag = 1
    Env = {"delete"}
SPECIFICATION Spec
INVARIANTS DeletedIsClean
