SPECIFICATION BookSpec
CONSTANTS
    c1 = c1
    c2 = c2
    Coins = {c1, c2}
    Settings <- Tried
    MaxSetups = 2
    MaxSize = 5
    MaxLoose = 2
    MaxMishaps = 2
INVARIANTS EveryScalpOnRecord BareIsFlagged OneScalpPerCoin WithinLimits
PROPERTIES StopKept
CHECK_DEADLOCK FALSE
