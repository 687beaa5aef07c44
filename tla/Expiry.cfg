CONSTANTS
    n1 = n1  n2 = n2  s1 = s1  s2 = s2  u1 = u1  u2 = u2
    Bootstrap = Bootstrap
    Nil = Nil
    Nodes <- OneNode
    Sockets <- TwoSockets
    Updates <- TwoUpdates
    WithBody <- OneNode
    MaxFlights = 3
    IdleTicks = 4
    MaxLag = 1
    Env = {"expire", "delete"}
SPECIFICATION FairSpec
INVARIANTS RestsInDb
PROPERTIES DurableSpec EditsReachDb IdleIsFreed
