SPECIFICATION Spec
CONSTANTS
    Unsaved = Unsaved
    b = b  e = e
    v1 = v1  v2 = v2
    c1 = c1  c2 = c2
    Calls <- Instances
    Due <- Saturday
    Lists <- ScanLists
    TopN = 2
    Faults = {"kv_down", "kv_reply", "act_reply", "db_reply", "crash"}
    MaxCalls = 4
    MaxFailures = 2
    MaxEffect = 2
SYMMETRY CallSymmetry
INVARIANTS RowsAreThePost PostedIsRecorded DeliveredAfterGoodCalls
PROPERTIES RepeatsChangeNothing ImplementsClaimLedger
CHECK_DEADLOCK FALSE
