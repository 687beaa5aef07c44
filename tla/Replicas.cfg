CONSTANTS
    c1 = c1  c2 = c2  c3 = c3  u1 = u1  u2 = u2
    Clients <- TwoClients
    Updates <- TwoUpdates
SPECIFICATION ReplicasFairSpec
INVARIANTS ReplicasTypeOK NothingStranded LacksOnlyQuiet
PROPERTIES EveryoneCatchesUp
CHECK_DEADLOCK FALSE
