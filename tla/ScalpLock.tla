------------------------------ MODULE ScalpLock -----------------------------
(***************************************************************************)
(* The one-pass lock of the 15-minute scalp book (app._scalp_lock_take,    *)
(* _scalp_lock_drop, the frame of _scalp_hl): a claimed KV key, beside it  *)
(* the time it was taken, and inside it the execute lock of the process.   *)
(* Redis lets the key expire.  Without Redis, or when a command raises,    *)
(* the instance's own file answers (kv.py): there the key never expires,   *)
(* a file that cannot be written lets every claim win, and whatever is     *)
(* claimed or released in it drops the times that were in it.              *)
(*                                                                         *)
(* Times are timers: what is left of the key, how old a recorded time is,  *)
(* how long ago a pass asked for the lock.  Tick advances them all.        *)
(***************************************************************************)
EXTENDS Naturals, FiniteSets

CONSTANTS
    Passes,        \* concurrent calls of the scalp job
    Instances,
    LockSettings,  \* the configurations that are tried, a set of records
    TTL,           \* SCALP_LOCK_TTL_S
    Life,          \* the platform's limit on a request
    Delay,         \* the longest a pass can spend in the KV calls of the take
    MaxKills,      \* bound on how many passes are stopped
    MaxRaises      \* bound on how many KV commands raise

\* kv: is Redis configured?     on: the instance that serves each pass
\* writable: the instances whose file can be written
ASSUME ScalpLockAssumption ==
    /\ LockSettings \subseteq [kv : {"redis", "file"}, on : [Passes -> Instances],
                               writable : SUBSET Instances]
    /\ TTL \in Nat /\ Life \in Nat /\ Delay \in Nat
    /\ Delay <= Life /\ Life < TTL
    /\ MaxKills \in Nat /\ MaxRaises \in Nat

None == TTL + 1     \* no time recorded: no timer ever shows this

VARIABLES
    setting,    \* the configuration
    left,       \* Redis: ticks until the key expires (0: not claimed)
    stamp,      \* Redis: the age of the time beside the key, at most TTL, or None
    keyIn,      \* keyIn[i]: is the key in the file of instance i?
    timeIn,     \* timeIn[i]: the age of the time in the file of instance i, or None
    pc,         \* pc[p]: the step pass p is at
    age,        \* age[p]: ticks since p asked for the lock
    kills,      \* how many passes have been stopped
    raises,     \* how many KV commands have raised
    taken       \* history: has a lock been taken over?

inRedis == <<left, stamp>>
inFiles == <<keyIn, timeIn>>
lockVars == <<setting, inRedis, inFiles, pc, age, kills, raises, taken>>

Taking == {"claim", "look", "start_clock", "stamp"}     \* inside _scalp_lock_take
Owning == {"stamp", "wait", "work", "drop"}             \* it answered yes, or will
LockSteps == Taking \union Owning \union {"idle", "clear"}

LockTypeOK ==
    /\ setting \in LockSettings
    /\ left \in 0..TTL /\ stamp \in 0..None
    /\ keyIn \in [Instances -> BOOLEAN] /\ timeIn \in [Instances -> 0..None]
    /\ pc \in [Passes -> LockSteps]
    /\ age \in [Passes -> 0..Life]
    /\ kills \in 0..MaxKills /\ raises \in 0..MaxRaises
    /\ taken \in BOOLEAN

LockInit ==
    /\ setting \in LockSettings
    /\ left = 0 /\ stamp = None
    /\ keyIn = [i \in Instances |-> FALSE] /\ timeIn = [i \in Instances |-> None]
    /\ pc = [p \in Passes |-> "idle"]
    /\ age = [p \in Passes |-> 0]
    /\ kills = 0 /\ raises = 0
    /\ taken = FALSE

Live == {p \in Passes : pc[p] # "idle"}

Goto(p, step) == pc' = [pc EXCEPT ![p] = step]

End(p) == Goto(p, "idle") /\ age' = [age EXCEPT ![p] = 0]

-----------------------------------------------------------------------------
(* kv.py: who answers a command, and the file.                             *)

Redis == setting.kv = "redis" /\ UNCHANGED raises
Raises == setting.kv = "redis" /\ raises < MaxRaises /\ raises' = raises + 1
File == setting.kv = "file" /\ UNCHANGED raises

Home(p) == setting.on[p]
CanWrite(i) == i \in setting.writable

\* a claim or a release writes the keys and nothing else: the time is lost
WriteKey(i, there) ==
    IF CanWrite(i) THEN keyIn' = [keyIn EXCEPT ![i] = there] /\ timeIn' = [timeIn EXCEPT ![i] = None]
                   ELSE UNCHANGED inFiles

WriteTime(i, at) ==
    /\ timeIn' = IF CanWrite(i) THEN [timeIn EXCEPT ![i] = at] ELSE timeIn
    /\ UNCHANGED keyIn

\* set_value: in Redis, or in the file; a command that raised may have been executed
SetTime(p, at) ==
    \/ Redis /\ stamp' = at /\ UNCHANGED inFiles
    \/ Raises /\ stamp' \in {stamp, at} /\ WriteTime(Home(p), at)
    \/ File /\ WriteTime(Home(p), at) /\ UNCHANGED stamp

-----------------------------------------------------------------------------
(* _scalp_lock_take                                                        *)

Start(p) ==
    /\ pc[p] = "idle"
    /\ Goto(p, "claim")
    /\ age' = [age EXCEPT ![p] = 0]
    /\ UNCHANGED <<setting, inRedis, inFiles, kills, raises, taken>>

\* the key is claimed for shorter than a request may last
ClaimLock_ShortLease(p) ==
    /\ pc[p] = "claim" /\ Redis
    /\ IF left = 0 THEN left' = 1 /\ Goto(p, "stamp")
                   ELSE UNCHANGED left /\ Goto(p, "look")
    /\ UNCHANGED <<setting, stamp, inFiles, kills, age, taken>>

ClaimLock(p) ==
    /\ pc[p] = "claim" /\ Redis
    /\ IF left = 0 THEN left' = TTL /\ Goto(p, "stamp")
                   ELSE UNCHANGED left /\ Goto(p, "look")
    /\ UNCHANGED <<setting, stamp, inFiles, kills, age, taken>>

\* the instance's own file answers: there is no Redis, or it raised, with or
\* without having set the key
ClaimFromFile(p) ==
    /\ pc[p] = "claim"
    /\ \/ File /\ UNCHANGED left
       \/ Raises /\ left' \in {left, IF left = 0 THEN TTL ELSE left}
    /\ IF keyIn[Home(p)] THEN UNCHANGED inFiles /\ Goto(p, "look")
                          ELSE WriteKey(Home(p), TRUE) /\ Goto(p, "stamp")
    /\ UNCHANGED <<setting, stamp, kills, age, taken>>

\* the time that get_value answers for p
Reads(p, at) ==
    \/ Redis /\ at = stamp
    \/ (Raises \/ File) /\ at = timeIn[Home(p)]

\* a key without a time is left alone, for good
Look_NoClock(p) ==
    /\ pc[p] = "look"
    /\ \E at \in 0..None :
          /\ Reads(p, at)
          /\ \/ at = None /\ End(p) /\ UNCHANGED taken
             \/ at < TTL /\ End(p) /\ UNCHANGED taken
             \/ at = TTL /\ Goto(p, "stamp") /\ taken' = TRUE /\ UNCHANGED age
    /\ UNCHANGED <<setting, inRedis, inFiles, kills>>

\* reads the time beside the key: none, young (BUSY) or stale (taken over)
Look(p) ==
    /\ pc[p] = "look"
    /\ \E at \in 0..None :
          /\ Reads(p, at)
          /\ \/ at = None /\ Goto(p, "start_clock") /\ UNCHANGED <<age, taken>>
             \/ at < TTL /\ End(p) /\ UNCHANGED taken
             \/ at = TTL /\ Goto(p, "stamp") /\ taken' = TRUE /\ UNCHANGED age
    /\ UNCHANGED <<setting, inRedis, inFiles, kills>>

\* held but no time beside it: start its clock and answer BUSY
StartClock(p) ==
    /\ pc[p] = "start_clock"
    /\ SetTime(p, age[p])
    /\ End(p)
    /\ UNCHANGED <<setting, left, kills, taken>>

Stamp(p) ==
    /\ pc[p] = "stamp"
    /\ SetTime(p, age[p])
    /\ Goto(p, "wait")
    /\ UNCHANGED <<setting, left, kills, age, taken>>

-----------------------------------------------------------------------------
(* with _hl_execute_lock: one pass of an instance at a time                *)

Enter(p) ==
    /\ pc[p] = "wait"
    /\ \A q \in Passes : Home(q) = Home(p) => pc[q] # "work"
    /\ Goto(p, "work")
    /\ UNCHANGED <<setting, inRedis, inFiles, age, kills, raises, taken>>

Leave(p) ==
    /\ pc[p] = "work"
    /\ Goto(p, "drop")
    /\ UNCHANGED <<setting, inRedis, inFiles, age, kills, raises, taken>>

(* _scalp_lock_drop, in the finally: the key goes whoever holds it, then   *)
(* the time is set to "0".                                                 *)

ForgetKey(i) == IF keyIn[i] THEN WriteKey(i, FALSE) ELSE UNCHANGED inFiles

Drop(p) ==
    /\ pc[p] = "drop"
    /\ \/ Redis /\ left' = 0 /\ UNCHANGED inFiles
       \/ Raises /\ left' \in {left, 0} /\ ForgetKey(Home(p))
       \/ File /\ ForgetKey(Home(p)) /\ UNCHANGED left
    /\ Goto(p, "clear")
    /\ UNCHANGED <<setting, stamp, age, kills, taken>>

Clear(p) ==
    /\ pc[p] = "clear"
    /\ SetTime(p, None)
    /\ End(p)
    /\ UNCHANGED <<setting, left, kills, taken>>

-----------------------------------------------------------------------------
(* The environment: time, the platform that stops an instance (at any      *)
(* time, or at the limit; a stopped pass does not run its finally), and    *)
(* the other keys that are kept in the same file.                          *)

Older(a) == IF a >= TTL THEN a ELSE a + 1

Tick ==
    /\ \A p \in Live : age[p] < IF pc[p] \in Taking THEN Delay ELSE Life
    /\ age' = [p \in Passes |-> IF p \in Live THEN age[p] + 1 ELSE age[p]]
    /\ stamp' = Older(stamp) /\ timeIn' = [i \in Instances |-> Older(timeIn[i])]
    /\ left' = IF left > 0 THEN left - 1 ELSE left
    /\ UNCHANGED <<setting, keyIn, pc, kills, raises, taken>>

Kill(p) ==
    /\ p \in Live
    /\ kills < MaxKills
    /\ kills' = kills + 1
    /\ End(p)
    /\ UNCHANGED <<setting, inRedis, inFiles, raises, taken>>

\* another key is claimed or released in the file of instance i, as every new
\* setup is by the passes themselves (_scalp_run)
OtherKey(i) ==
    /\ CanWrite(i) /\ timeIn[i] # None
    /\ WriteKey(i, keyIn[i])
    /\ UNCHANGED <<setting, inRedis, pc, age, kills, raises, taken>>

Take(p) == ClaimLock(p) \/ ClaimFromFile(p) \/ Look(p) \/ StartClock(p) \/ Stamp(p)

GiveBackLock(p) == Drop(p) \/ Clear(p)

LockStep(p) == Take(p) \/ Enter(p) \/ Leave(p) \/ GiveBackLock(p)

LockNext ==
    \/ Tick
    \/ \E p \in Passes : Start(p) \/ LockStep(p) \/ Kill(p)
    \/ \E i \in Instances : OtherKey(i)

LockSpec == LockInit /\ [][LockNext]_lockVars

(* The scheduler calls again and again and a pass that is not stopped runs *)
(* to its end, also past an execute lock that is free only now and then,   *)
(* and time passes.  MaxKills bounds how often a pass is stopped: if every *)
(* pass were, no lock could help.  MaxRaises does so for the KV.           *)
LockFairSpec ==
    /\ LockSpec
    /\ \A p \in Passes : WF_lockVars(Start(p)) /\ SF_lockVars(LockStep(p))
    /\ WF_lockVars(Tick)

-----------------------------------------------------------------------------
Owners == {p \in Passes : pc[p] \in Owning}

(* One pass at a time as long as no command of the KV raises and nobody    *)
(* has taken over a lock by its recorded time: over Redis in all instances *)
(* together (the key outlives every request, and only its owner drops it), *)
(* without Redis in each instance whose file can be written.               *)
OneOwner ==
    raises = 0 /\ ~taken =>
        \A p, q \in Owners :
            setting.kv = "redis" \/ (Home(p) = Home(q) /\ CanWrite(Home(p))) => p = q

(* A pass killed before its finally does not leave every later pass BUSY   *)
(* for good, in Redis or in the file: some pass gets to work again, always *)
(* (the docstring of _scalp_lock_take), unless other keys keep being       *)
(* claimed or released in an instance's file, which starts the clock of    *)
(* the lock again each time.                                               *)
NeverBusyForGood ==
    \/ []<>(\E p \in Passes : pc[p] = "work")
    \/ []<><<\E i \in Instances : OtherKey(i)>>_lockVars
=============================================================================
