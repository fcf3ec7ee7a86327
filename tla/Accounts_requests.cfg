SPECIFICATION Spec
CONSTANTS
    Ids = {1, 2, 3}
    t1 = t1  t2 = t2
    Txs = {t1, t2}
    Nobody = Nobody
    Passwords = {"p", "q"}
    Watched <- FirstOnly
    MaxVersion = 1
SYMMETRY TxSymmetry
INVARIANTS SessionMatchesPassword NothingSlipsBetween DeadlockNeedsShift
PROPERTIES NeverStranded
CHECK_DEADLOCK FALSE
