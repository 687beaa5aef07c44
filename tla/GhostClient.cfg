CONSTANTS
    n1 = n1  n2 = n2  s1 = s1  s2 = s2  u1 = u1
    Bootstrap = Bootstrap
    Nil = Nil
    Nodes <- OneNode
    Sockets <- OneSocket
    Updates <- OneUpdate
    WithBody <- OneNode
    MaxFlights = 1
    IdleTicks = 2
    MaxLag = 1
    Env = {"stray"}
    Impatient = TRUE
SPECIFICATION GatewayFairSpec
PROPERTIES AbandonedIsFreed
CHECK_DEADLOCK FALSE
