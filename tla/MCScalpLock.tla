----------------------------- MODULE MCScalpLock ----------------------------
(* The lock's instance for TLC: a request lasts 60 s, the lock 110 s and   *)
(* the three KV calls of the take 24 s; a tick is the longest of those.    *)
EXTENDS ScalpLock, PatternChecks, TLC

CONSTANTS p1, p2, i1, i2

Apart == [p \in Passes |-> IF p = p1 THEN i1 ELSE i2]
Together == [p \in Passes |-> i1]

LockSetting(kv, on, writable) == [kv |-> kv, on |-> on, writable |-> writable]

\* Redis between two instances, of which one can write its file; the file of
\* one instance; the files of two, of which one can be written
Locks ==
    {LockSetting("redis", Apart, {i1}), LockSetting("file", Together, {i1}),
     LockSetting("file", Apart, {i1})}

=============================================================================
