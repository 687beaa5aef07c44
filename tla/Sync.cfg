CONSTANTS
    c1 = c1  r1 = r1  r2 = r2
    Nil = Nil
    Changes <- OneChange
    Readers <- TwoReaders
    Ttl = 3
    MaxFill = 2
SPECIFICATION SyncFairSpec
INVARIANTS SyncTypeOK StaleAtMostTtl FreshUnlessRaced
PROPERTIES EventuallyFresh
