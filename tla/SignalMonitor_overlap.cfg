SPECIFICATION Spec
CONSTANTS
    r1 = r1  r2 = r2
    Runs = {r1, r2}
    Direction = "LONG"
    Entry = 2
    StopLoss = 1
    Ladder <- ThreeTargets
    Candles <- LongCandles
    CandleTicks = 1
    Generated = 0
    FillWindow = 2
    MaxAge = 3
    MaxClock = 3
    NoRun = NoRun
INVARIANTS OneVerdict NoWinAfterStop
PROPERTIES VerdictIsFinal
CHECK_DEADLOCK FALSE
