SPECIFICATION FairRotation
CONSTANTS
    Signals = {s1, s2}
    MonitorRuns = {r1, r2}
    Limits = {1, 2}
    MaxFailures = 1
INVARIANTS WholeAndDurable
PROPERTIES EveryEventIsRecorded
CHECK_DEADLOCK FALSE
