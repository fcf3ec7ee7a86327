SPECIFICATION Spec
CONSTANTS
    i1 = i1  i2 = i2
    a1 = a1  a2 = a2  m1 = m1  p1 = p1
    s1 = s1  s2 = s2  s3 = s3  s4 = s4
    c1 = c1  c2 = c2
    Instances = {i1}
    Autos = {a1}
    Manuals = {m1}
    Scalps = {}
    InstanceOf <- OneInstance
    Signals = {s1, s2, s3}
    Coins = {c1, c2}
    CoinOf <- SharedCoin
    MaxOrdersPerRun = 2
    MaxExposure = 1
    ExchangeDedups = FALSE
    Faults = {"kv_down", "kv_reply", "disk", "crash"}
    MaxHeld = 2
    MaxFills = 2
    NoRequest = NoRequest
    NoSignal = NoSignal
INVARIANTS OneFillPerCause OnePositionPerCoin ExposureWithinCap
CHECK_DEADLOCK FALSE
