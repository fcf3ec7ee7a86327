SPECIFICATION FairSpec
CONSTANTS
    Workers = {w1, w2, w3}
    Keys = {k1}
    Faults = {"kv_down", "kv_reply", "disk", "act_reply", "expiry", "crash"}
    MaxEffect = 5
INVARIANTS ClaimGuardsEffect DegradedBound
PROPERTIES ImplementsOncePerKey FailureIsRetriable
CHECK_DEADLOCK FALSE
