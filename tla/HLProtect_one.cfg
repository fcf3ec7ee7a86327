SPECIFICATION FairSpec
CONSTANTS
    i1 = i1  i2 = i2
    g1 = g1  g2 = g2  a1 = a1  u1 = u1
    Instances = {i1, i2}
    Managers = {g1, g2}
    Autos = {a1}
    Manuals = {u1}
    Settings <- Alone
    EntryPx <- TwoPrices
    MaxMishaps = 1
    NoPass = NoPass
INVARIANTS FreshEntryUntouched
PROPERTIES StopKept UnprotectedIsRepaired StopReachesEntry
CHECK_DEADLOCK FALSE
