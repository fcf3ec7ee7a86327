SPECIFICATION Spec
CONSTANTS
    i1 = i1  i2 = i2
    a1 = a1  a2 = a2  m1 = m1  p1 = p1
    s1 = s1  s2 = s2  s3 = s3  s4 = s4
    c1 = c1  c2 = c2
    Instances = {i1, i2}
    Autos = {a1, a2}
    Manuals = {}
    Scalps = {p1}
    InstanceOf <- TwoInstances
    Signals = {s1, s2, s3, s4}
    Coins = {c1}
    CoinOf <- OneCoin
    MaxOrdersPerRun = 2
    MaxExposure = 5
    ExchangeDedups = TRUE
    Faults = {"send_reply", "crash"}
    MaxHeld = 5
    MaxFills = 2
    NoRequest = NoRequest
    NoSignal = NoSignal
SYMMETRY SignalSymmetry
INVARIANTS StackingBounded
PROPERTIES ImplementsOncePerKey
CHECK_DEADLOCK FALSE
