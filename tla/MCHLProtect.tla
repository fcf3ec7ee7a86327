----------------------------- MODULE MCHLProtect -----------------------------
(* Model values and the configurations for the runs of HLProtect.          *)
EXTENDS HLProtect, TLC, TradingChecks

CONSTANTS i1, i2, g1, g2, a1, u1

\* g2 runs in a second instance where there is one
OneInstance == [p \in Passes |-> i1]
TwoInstances == [p \in Passes |-> IF p = g2 THEN i2 ELSE i1]

Setting(runs, on, limits, trigger, faults) ==
    [runs |-> runs, on |-> on, limits |-> limits, trigger |-> trigger, faults |-> faults]

\* a manager beside passes that open, with every mishap
Alone == {Setting({g1, a1, u1}, OneInstance, FALSE, "tp1", AllFaults)}

\* managers in two instances: beside a pass that opens, with the R trigger
\* and a lost reply; beside limit entries, with failing cancels and KV
Overlapping ==
    {Setting({g1, g2, a1}, TwoInstances, FALSE, "R", {"lost"}),
     Setting({g1, g2}, TwoInstances, TRUE, "tp1", {"cancel", "kv"})}

\* two trades at different and at the same entry price
TwoPrices == <<1, 2>>
SamePrice == <<1, 1>>
=============================================================================
