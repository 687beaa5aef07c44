CONSTANTS
    n1 = n1  n2 = n2  s1 = s1  s2 = s2  u1 = u1
    Bootstrap = Bootstrap
    Nil = Nil
    Nodes <- OneNode
    Sockets <- TwoSockets
    Updates <- OneUpdate
    WithBody <- OneNode
    MaxFlights = 1
    IdleTicks = 2
    MaxLag = 1
    Env = {"stray", "fault", "delete", "crash"}
    Impatient = TRUE
SPECIFICATION GatewaySpec
SYMMETRY SocketSymmetry
INVARIANTS GatewayTypeOK RoomsMatchClients RightsAreCurrent
CHECK_DEADLOCK FALSE
