---------------------------- MODULE MCHLExecution ---------------------------
(* Model values and small functions for the runs of HLExecution.           *)
EXTENDS HLExecution, TLC

CONSTANTS i1, i2, a1, a2, m1, p1, s1, s2, s3, s4, c1, c2

\* a1 (auto) and m1 (manual) run in instance i1, so does the scalp pass p1;
\* a2 runs in i2 where there is one
OneInstance == [r \in Requests |-> i1]
TwoInstances == [r \in Requests |-> IF r = a2 THEN i2 ELSE i1]

SignalSymmetry == Permutations(Signals)

\* all signals on one coin; s1 and s3 on one, s2 on another
OneCoin == [s \in Signals |-> c1]
SharedCoin == [s \in Signals |-> IF s = s2 THEN c2 ELSE c1]
=============================================================================
