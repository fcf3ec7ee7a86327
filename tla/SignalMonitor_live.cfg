SPECIFICATION FairSpec
CONSTANTS
    r1 = r1  r2 = r2
    Runs = {r1}
    Direction = "SHORT"
    Entry = 4
    StopLoss = 5
    Ladder <- ShortTargets
    Candles <- ShortCandles
    CandleTicks = 2
    Generated = 1
    FillWindow = 3
    MaxAge = 5
    MaxClock = 6
    NoRun = NoRun
INVARIANTS FillIsFirstTouch ReturnFollowsRow
PROPERTIES EverySignalEnds
CHECK_DEADLOCK FALSE
