SPECIFICATION LockFairSpec
CONSTANTS
    p1 = p1
    p2 = p2
    i1 = i1
    i2 = i2
    Passes = {p1, p2}
    Instances = {i1, i2}
    LockSettings <- Locks
    TTL = 4
    Life = 2
    Delay = 1
    MaxKills = 2
    MaxRaises = 2
INVARIANTS OneOwner
PROPERTIES NeverBusyForGood
CHECK_DEADLOCK FALSE
