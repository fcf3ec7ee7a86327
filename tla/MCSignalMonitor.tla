-------------------------- MODULE MCSignalMonitor --------------------------
(* Small instances of SignalMonitor.  A long signal: stop 1, entry 2, targets *)
(* above; the short one is its mirror image.                                  *)
EXTENDS SignalMonitor

CONSTANTS r1, r2

TwoTargets   == <<3, 4>>
ThreeTargets == <<3, 4, 5>>
ShortTargets == <<3, 2>>

\* at the entry; at TP1; from entry to TP1; past every target; to the stop; from stop to TP1
LongCandles  == {<<2, 2, 2>>, <<3, 3, 3>>, <<2, 3, 3>>, <<4, 4, 4>>, <<5, 5, 5>>, <<1, 2, 2>>, <<1, 3, 2>>}
ShortCandles == {<<4, 4, 4>>, <<3, 3, 3>>, <<3, 4, 4>>, <<2, 2, 2>>, <<4, 5, 4>>, <<3, 5, 4>>}
=============================================================================
