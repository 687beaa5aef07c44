CONSTANTS
    n1 = n1  n2 = n2  s1 = s1  s2 = s2  u1 = u1
    Bootstrap = Bootstrap
    Nil = Nil
    Nodes <- TwoNodes
    Sockets <- OneSocket
    Updates <- OneUpdate
    WithBody <- OneNode
    MaxFlights = 1
    IdleTicks = 2
    MaxLag = 1
    Env = {"dbfault"}
    Impatient = FALSE
SPECIFICATION GatewayFairSpec
INVARIANTS ClientsAreConnected
PROPERTIES AbandonedIsFreed
CHECK_DEADLOCK FALSE
