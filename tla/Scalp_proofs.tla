--------------------------- MODULE Scalp_proofs -----------------------------
(***************************************************************************)
(* The scalp book's lock keeps one owner for every number of passes and    *)
(* instances and every lease that outlives a request (TTL > Life).         *)
(* OneOwner is not inductive: over Redis nothing in it stops the key from  *)
(* expiring under its owner. Lease adds what does: the key has at least as *)
(* long to live as its owner has left until the platform's limit. In a     *)
(* file nothing in it says that an owner's key is there; Filed does.       *)
(***************************************************************************)
EXTENDS ScalpLock, ScalpBook, FiniteSetTheorems, TLAPS

Calm == raises = 0 /\ ~taken

\* over Redis: the age of an owner and what is left of its key make up the lease
Lease == Calm /\ setting.kv = "redis" =>
    /\ \A p, q \in Owners : p = q
    /\ \A p \in Owners : left + age[p] >= TTL

\* without: an owner's key is in its instance's file, if that can be written
Filed == Calm /\ setting.kv = "file" =>
    \A p \in Owners : CanWrite(Home(p)) =>
        keyIn[Home(p)] /\ \A q \in Owners : Home(q) = Home(p) => q = p

LockInv == LockTypeOK /\ Lease /\ Filed

USE DEF LockSteps, Taking, Owning

-----------------------------------------------------------------------------

\* The types hold at first.
LEMMA LockTypeInit == LockInit => LockTypeOK
<1> SUFFICES ASSUME LockInit PROVE LockTypeOK
    OBVIOUS
<1>1. None \in 0..None /\ 0 \in 0..TTL /\ 0 \in 0..Life /\ 0 \in 0..MaxKills /\ 0 \in 0..MaxRaises
    BY ScalpLockAssumption DEF None
<1>2. keyIn \in [Instances -> BOOLEAN] /\ timeIn \in [Instances -> 0..None]
    BY <1>1 DEF LockInit
<1>3. pc \in [Passes -> LockSteps] /\ age \in [Passes -> 0..Life]
    BY <1>1 DEF LockInit
<1> QED
    BY <1>1, <1>2, <1>3 DEF LockInit, LockTypeOK

\* Moving on keeps the type of the steps.
LEMMA GotoType ==
    ASSUME LockTypeOK, NEW p \in Passes, NEW s \in LockSteps, Goto(p, s)
    PROVE  pc' \in [Passes -> LockSteps]
BY DEF LockTypeOK, Goto

\* Ending keeps the type of the steps and ages.
LEMMA EndType ==
    ASSUME LockTypeOK, NEW p \in Passes, End(p)
    PROVE  pc' \in [Passes -> LockSteps] /\ age' \in [Passes -> 0..Life]
BY GotoType, ScalpLockAssumption DEF LockTypeOK, End

\* A pass runs in an instance.
LEMMA HomeType ==
    ASSUME LockTypeOK, NEW p \in Passes
    PROVE  Home(p) \in Instances /\ setting.kv \in {"redis", "file"}
BY ScalpLockAssumption DEF LockTypeOK, Home

\* Whoever answers, the commands that raised stay within their bound.
LEMMA RaisesType ==
    ASSUME LockTypeOK, Redis \/ Raises \/ File
    PROVE  raises' \in 0..MaxRaises
BY ScalpLockAssumption DEF LockTypeOK, Redis, Raises, File

\* Writing to a file keeps its types.
LEMMA KeyType ==
    ASSUME LockTypeOK, NEW i \in Instances, NEW there \in BOOLEAN,
           WriteKey(i, there) \/ UNCHANGED inFiles
    PROVE  keyIn' \in [Instances -> BOOLEAN] /\ timeIn' \in [Instances -> 0..None]
<1>1. None \in 0..None
    BY ScalpLockAssumption DEF None
<1> QED
    BY <1>1 DEF LockTypeOK, WriteKey, inFiles

\* Setting the time keeps the types.
LEMMA TimeType ==
    ASSUME LockTypeOK, NEW p \in Passes, NEW at \in 0..None, SetTime(p, at)
    PROVE  /\ stamp' \in 0..None /\ raises' \in 0..MaxRaises
           /\ keyIn' \in [Instances -> BOOLEAN] /\ timeIn' \in [Instances -> 0..None]
<1>1. raises' \in 0..MaxRaises
    BY RaisesType DEF SetTime
<1>2. stamp' \in 0..None /\ keyIn' \in [Instances -> BOOLEAN] /\ timeIn' \in [Instances -> 0..None]
    BY HomeType DEF LockTypeOK, SetTime, WriteTime, inFiles
<1> QED
    BY <1>1, <1>2

\* Every step keeps the types.
LEMMA LockTypeStep == LockTypeOK /\ [LockNext]_lockVars => LockTypeOK'
<1> SUFFICES ASSUME LockTypeOK, [LockNext]_lockVars PROVE LockTypeOK'
    OBVIOUS
<1> USE DEF inRedis, inFiles
<1>n. None \in 0..None /\ TTL \in 0..TTL /\ 0 \in 0..TTL /\ 0 \in 0..Life /\ 0..Life \subseteq 0..None
    BY ScalpLockAssumption DEF None
<1>1. CASE Tick
  <2>1. \A a \in 0..None : Older(a) \in 0..None
    BY ScalpLockAssumption DEF Older, None
  <2>2. age' \in [Passes -> 0..Life]
    BY <1>1, ScalpLockAssumption DEF Tick, Live, LockTypeOK
  <2>3. left' \in 0..TTL
    BY <1>1, ScalpLockAssumption DEF Tick, LockTypeOK
  <2>4. stamp' \in 0..None /\ timeIn' \in [Instances -> 0..None]
    BY <1>1, <2>1 DEF Tick, LockTypeOK
  <2> QED
    BY <1>1, <2>2, <2>3, <2>4 DEF Tick, LockTypeOK
<1>2. ASSUME NEW p \in Passes, Start(p) PROVE LockTypeOK'
    BY <1>2, <1>n, GotoType DEF Start, LockTypeOK
<1>3. ASSUME NEW p \in Passes, ClaimLock(p) PROVE LockTypeOK'
    BY <1>3, <1>n, GotoType, RaisesType DEF ClaimLock, LockTypeOK
<1>4. ASSUME NEW p \in Passes, ClaimFromFile(p) PROVE LockTypeOK'
  <2>1. raises' \in 0..MaxRaises
    BY <1>4, RaisesType DEF ClaimFromFile
  <2>2. keyIn' \in [Instances -> BOOLEAN] /\ timeIn' \in [Instances -> 0..None]
    BY <1>4, HomeType, KeyType DEF ClaimFromFile
  <2>3. pc' \in [Passes -> LockSteps]
    BY <1>4, GotoType DEF ClaimFromFile
  <2>4. left' \in 0..TTL
    BY <1>4, <1>n DEF ClaimFromFile, LockTypeOK
  <2> QED
    BY <1>4, <2>1, <2>2, <2>3, <2>4 DEF ClaimFromFile, LockTypeOK
<1>5. ASSUME NEW p \in Passes, Look(p) PROVE LockTypeOK'
  <2>1. raises' \in 0..MaxRaises
    BY <1>5, RaisesType DEF Look, Reads
  <2>2. pc' \in [Passes -> LockSteps] /\ age' \in [Passes -> 0..Life]
    BY <1>5, GotoType, EndType DEF Look, LockTypeOK
  <2> QED
    BY <1>5, <2>1, <2>2 DEF Look, LockTypeOK
<1>6. ASSUME NEW p \in Passes, StartClock(p) PROVE LockTypeOK'
  <2>1. age[p] \in 0..None
    BY <1>n DEF LockTypeOK
  <2> QED
    BY <1>6, <2>1, EndType, TimeType DEF StartClock, LockTypeOK
<1>7. ASSUME NEW p \in Passes, Stamp(p) PROVE LockTypeOK'
  <2>1. age[p] \in 0..None
    BY <1>n DEF LockTypeOK
  <2> QED
    BY <1>7, <2>1, GotoType, TimeType DEF Stamp, LockTypeOK
<1>8. ASSUME NEW p \in Passes, Enter(p) \/ Leave(p) PROVE LockTypeOK'
    BY <1>8, GotoType DEF Enter, Leave, LockTypeOK
<1>9. ASSUME NEW p \in Passes, Drop(p) PROVE LockTypeOK'
  <2>1. raises' \in 0..MaxRaises
    BY <1>9, RaisesType DEF Drop
  <2>2. keyIn' \in [Instances -> BOOLEAN] /\ timeIn' \in [Instances -> 0..None]
    BY <1>9, HomeType, KeyType DEF Drop, ForgetKey
  <2>3. pc' \in [Passes -> LockSteps]
    BY <1>9, GotoType DEF Drop
  <2> QED
    BY <1>9, <1>n, <2>1, <2>2, <2>3 DEF Drop, LockTypeOK
<1>10. ASSUME NEW p \in Passes, Clear(p) PROVE LockTypeOK'
    BY <1>10, <1>n, EndType, TimeType DEF Clear, LockTypeOK
<1>11. ASSUME NEW p \in Passes, Kill(p) PROVE LockTypeOK'
    BY <1>11, EndType, ScalpLockAssumption DEF Kill, LockTypeOK
<1>12. ASSUME NEW i \in Instances, OtherKey(i) PROVE LockTypeOK'
  <2>1. keyIn' \in [Instances -> BOOLEAN] /\ timeIn' \in [Instances -> 0..None]
    BY <1>12, KeyType DEF OtherKey, LockTypeOK
  <2> QED
    BY <1>12, <2>1 DEF OtherKey, LockTypeOK
<1>13. CASE UNCHANGED lockVars
    BY <1>13 DEF lockVars, LockTypeOK
<1> QED
    BY <1>1, <1>2, <1>3, <1>4, <1>5, <1>6, <1>7, <1>8, <1>9, <1>10, <1>11, <1>12, <1>13
       DEF LockNext, LockStep, Take, GiveBackLock

(* The variables of the lock keep their types: left never exceeds the      *)
(* lease, an age never the request limit.                                  *)
THEOREM LockTypeCorrect == LockSpec => []LockTypeOK
BY LockTypeInit, LockTypeStep, PTL DEF LockSpec

-----------------------------------------------------------------------------
\* An owner's key has not expired.
LEMMA OwnerHasKey ==
    ASSUME LockInv, Calm, setting.kv = "redis", NEW p \in Owners
    PROVE  left > 0
<1>1. age[p] \in 0..Life /\ left \in Nat /\ left + age[p] >= TTL
    BY DEF LockInv, LockTypeOK, Lease, Owners
<1> QED
    BY <1>1, ScalpLockAssumption

\* As long as nothing raises and nothing is taken over, the store in use
\* answers.
LEMMA StaysCalm ==
    ASSUME LockTypeOK, [LockNext]_lockVars, Calm'
    PROVE  Calm /\ setting' = setting /\ ~Raises
<1>1. raises \in Nat
    BY ScalpLockAssumption DEF LockTypeOK
<1>2. ~Raises
    BY <1>1 DEF Calm, Raises
<1>3. setting' = setting /\ (taken' = taken \/ taken' = TRUE)
    BY DEF LockNext, LockStep, Take, GiveBackLock, Tick, Start, ClaimLock, ClaimFromFile, Look, StartClock,
       Stamp, Enter, Leave, Drop, Clear, Kill, OtherKey, lockVars
<1>4. raises' = raises \/ Raises
    BY DEF LockNext, LockStep, Take, GiveBackLock, Tick, Start, ClaimLock, ClaimFromFile, Look, Reads, StartClock,
       Stamp, SetTime, Enter, Leave, Drop, Clear, Kill, OtherKey, lockVars, Redis, File
<1> QED
    BY <1>2, <1>3, <1>4 DEF Calm

\* A step that only moves passes from one owning step to the next, or out of
\* owning, and leaves the keys as they are, keeps both.
LEMMA LeaseKept ==
    ASSUME LockInv, Calm' => Calm, setting' = setting, left' = left, keyIn' = keyIn,
           Owners' \subseteq Owners, \A p \in Owners' : age'[p] = age[p]
    PROVE  Lease' /\ Filed'
BY DEF LockInv, Lease, Filed, Home, CanWrite

\* Every step keeps the lease longer than what is left of its owner's request,
\* and the key of an owner in its file.
LEMMA LeaseStep == LockInv /\ LockTypeOK' /\ [LockNext]_lockVars => Lease' /\ Filed'
<1> SUFFICES ASSUME LockInv, LockTypeOK', [LockNext]_lockVars, Calm' PROVE Lease' /\ Filed'
    BY DEF Lease, Filed
<1> USE DEF Goto, End, LockTypeOK, inRedis, inFiles
<1>c. Calm /\ setting' = setting /\ ~Raises
    BY StaysCalm DEF LockInv
<1>h. \A p \in Passes : Home(p)' = Home(p) /\ CanWrite(Home(p))' = CanWrite(Home(p)) /\ Home(p) \in Instances
    BY <1>c, HomeType DEF LockInv, Home, CanWrite
<1>1. CASE Tick
  <2>1. Owners' = Owners /\ keyIn' = keyIn
    BY <1>1 DEF Tick, Owners, LockInv
  <2>2. ASSUME NEW p \in Owners, setting.kv = "redis" PROVE left' + age'[p] >= TTL
    <3>1. left > 0 /\ left + age[p] >= TTL
      BY <1>c, <2>2, OwnerHasKey DEF LockInv, Lease
    <3>2. age'[p] = age[p] + 1
      BY <1>1 DEF Tick, Live, Owners, LockInv
    <3>3. left' = left \/ left' = left - 1
      BY <1>1 DEF Tick
    <3> QED
      BY <3>1, <3>2, <3>3, ScalpLockAssumption DEF LockInv, Owners
  <2>3. Lease'
    BY <1>c, <2>1, <2>2 DEF Lease, LockInv
  <2>4. Filed'
    BY <1>c, <2>1 DEF Filed, LockInv, Home, CanWrite
  <2> QED
    BY <2>3, <2>4
<1>2. ASSUME NEW p \in Passes, Start(p) PROVE Lease' /\ Filed'
  <2>1. Owners' = Owners /\ \A q \in Owners : age'[q] = age[q]
    BY <1>2 DEF Start, Owners, LockInv
  <2> QED
    BY <1>c, <1>2, <2>1, LeaseKept DEF Start
<1>3. ASSUME NEW p \in Passes, ClaimLock(p) PROVE Lease' /\ Filed'
  <2>1. CASE left = 0
    <3>1. setting.kv = "redis" /\ left' = TTL /\ age' = age
      BY <1>3, <2>1 DEF ClaimLock, Redis
    <3>2. Owners = {}
      BY <1>c, <2>1, <3>1, OwnerHasKey
    <3>3. Owners' = {p}
      BY <1>3, <2>1, <3>2 DEF ClaimLock, Owners, LockInv
    <3>4. age[p] \in Nat
      BY DEF LockInv
    <3> QED
      BY <1>c, <3>1, <3>3, <3>4, ScalpLockAssumption DEF Lease, Filed
  <2>2. CASE left # 0
    <3>1. Owners' = Owners /\ age' = age /\ left' = left /\ keyIn' = keyIn
      BY <1>3, <2>2 DEF ClaimLock, Owners, LockInv
    <3> QED
      BY <1>c, <3>1, LeaseKept
  <2> QED
    BY <2>1, <2>2
<1>4. ASSUME NEW p \in Passes, ClaimFromFile(p) PROVE Lease' /\ Filed'
  <2>1. setting.kv = "file" /\ age' = age /\ left' = left
    BY <1>c, <1>4 DEF ClaimFromFile, File
  <2>2. CASE keyIn[Home(p)]
    <3>1. Owners' = Owners /\ keyIn' = keyIn
      BY <1>4, <2>2 DEF ClaimFromFile, Owners, LockInv
    <3> QED
      BY <1>c, <2>1, <3>1, LeaseKept
  <2>3. CASE ~keyIn[Home(p)]
    <3>1. Owners' = Owners \union {p} /\ WriteKey(Home(p), TRUE)
      BY <1>4, <2>3 DEF ClaimFromFile, Owners, LockInv
    <3>2. CASE CanWrite(Home(p))
      <4>1. \A q \in Owners : Home(q) # Home(p)
        BY <1>c, <2>1, <2>3, <3>2 DEF LockInv, Filed
      <4>2. keyIn' = [keyIn EXCEPT ![Home(p)] = TRUE]
        BY <3>1, <3>2 DEF WriteKey
      <4>3. \A q \in Owners' : CanWrite(Home(q)) =>
               keyIn'[Home(q)] /\ \A r \in Owners' : Home(r) = Home(q) => r = q
        BY <1>c, <1>h, <2>1, <3>1, <4>1, <4>2 DEF LockInv, Filed, Owners
      <4> QED
        BY <1>c, <1>h, <2>1, <4>3 DEF Lease, Filed, Owners
    <3>3. CASE ~CanWrite(Home(p))
      <4>1. keyIn' = keyIn
        BY <3>1, <3>3 DEF WriteKey
      <4>2. \A q \in Owners' : CanWrite(Home(q)) =>
               keyIn'[Home(q)] /\ \A r \in Owners' : Home(r) = Home(q) => r = q
        BY <1>c, <1>h, <2>1, <3>1, <3>3, <4>1 DEF LockInv, Filed, Owners
      <4> QED
        BY <1>c, <1>h, <2>1, <4>2 DEF Lease, Filed, Owners
    <3> QED
      BY <3>2, <3>3
  <2> QED
    BY <2>2, <2>3
<1>5. ASSUME NEW p \in Passes, Look(p) PROVE Lease' /\ Filed'
  <2>1. left' = left /\ keyIn' = keyIn /\ ~taken'
    BY <1>5 DEF Look, Calm
  <2>2. (Goto(p, "start_clock") /\ age' = age) \/ End(p)
    BY <1>5, <2>1 DEF Look
  <2>3. Owners' \subseteq Owners /\ \A q \in Owners' : age'[q] = age[q]
    BY <1>5, <2>2 DEF Look, Owners, LockInv
  <2> QED
    BY <1>c, <2>1, <2>3, LeaseKept
<1>6. ASSUME NEW p \in Passes, StartClock(p) \/ Clear(p) PROVE Lease' /\ Filed'
  <2>1. left' = left /\ keyIn' = keyIn /\ Owners' = Owners /\ pc[p] \notin Owning
    BY <1>6 DEF StartClock, Clear, SetTime, WriteTime, Owners, LockInv
  <2>2. \A q \in Owners' : age'[q] = age[q]
    BY <1>6, <2>1 DEF StartClock, Clear, Owners, LockInv
  <2> QED
    BY <1>c, <2>1, <2>2, LeaseKept
<1>7. ASSUME NEW p \in Passes, Stamp(p) \/ Enter(p) \/ Leave(p) PROVE Lease' /\ Filed'
  <2>1. left' = left /\ keyIn' = keyIn /\ Owners' = Owners /\ age' = age
    BY <1>7 DEF Stamp, Enter, Leave, SetTime, WriteTime, Owners, LockInv
  <2> QED
    BY <1>c, <2>1, LeaseKept
<1>8. ASSUME NEW p \in Passes, Drop(p) PROVE Lease' /\ Filed'
  <2>1. p \in Owners /\ Owners' = Owners \ {p}
    BY <1>8 DEF Drop, Owners, LockInv
  <2>2. CASE setting.kv = "redis"
    <3>1. Owners' = {}
      BY <1>c, <2>1, <2>2 DEF LockInv, Lease
    <3> QED
      BY <1>c, <2>2, <3>1 DEF Lease, Filed
  <2>3. CASE setting.kv # "redis"
    <3>1. setting.kv = "file" /\ ForgetKey(Home(p))
      BY <1>c, <1>8, <2>3 DEF Drop, Redis, File
    <3>2. \A i \in Instances : keyIn'[i] = keyIn[i] \/ (i = Home(p) /\ CanWrite(i))
      BY <1>h, <3>1 DEF ForgetKey, WriteKey, LockInv
    <3>3. ASSUME NEW q \in Owners', CanWrite(Home(q))
          PROVE  keyIn'[Home(q)] /\ \A r \in Owners' : Home(r) = Home(q) => r = q
      <4>1. q \in Owners /\ q # p /\ q \in Passes
        BY <2>1 DEF Owners
      <4>2. keyIn[Home(q)] /\ \A r \in Owners : Home(r) = Home(q) => r = q
        BY <1>c, <3>1, <3>3, <4>1 DEF LockInv, Filed
      <4>3. Home(q) # Home(p)
        BY <2>1, <4>1, <4>2
      <4> QED
        BY <1>h, <2>1, <3>2, <4>1, <4>2, <4>3
    <3> QED
      BY <1>c, <1>h, <3>1, <3>3 DEF Lease, Filed, Owners
  <2> QED
    BY <2>2, <2>3
<1>9. ASSUME NEW p \in Passes, Kill(p) PROVE Lease' /\ Filed'
  <2>1. left' = left /\ keyIn' = keyIn /\ Owners' = Owners \ {p}
    BY <1>9 DEF Kill, Owners, LockInv
  <2>2. \A q \in Owners' : age'[q] = age[q]
    BY <1>9, <2>1 DEF Kill, Owners, LockInv
  <2> QED
    BY <1>c, <2>1, <2>2, LeaseKept
<1>10. ASSUME NEW i \in Instances, OtherKey(i) PROVE Lease' /\ Filed'
  <2>1. left' = left /\ keyIn' = keyIn /\ Owners' = Owners /\ age' = age
    BY <1>10 DEF OtherKey, WriteKey, Owners, LockInv
  <2> QED
    BY <1>c, <2>1, LeaseKept
<1>11. CASE UNCHANGED lockVars
  <2>1. left' = left /\ keyIn' = keyIn /\ Owners' = Owners /\ age' = age
    BY <1>11 DEF lockVars, Owners
  <2> QED
    BY <1>c, <2>1, LeaseKept
<1> QED
    BY <1>1, <1>2, <1>3, <1>4, <1>5, <1>6, <1>7, <1>8, <1>9, <1>10, <1>11
       DEF LockNext, LockStep, Take, GiveBackLock

\* The inductive invariant holds throughout.
LEMMA LockInvHolds == LockSpec => []LockInv
<1>1. LockInit => LockInv
  <2>1. LockInit => Owners = {}
    BY DEF LockInit, Owners
  <2> QED
    BY <2>1, LockTypeInit DEF LockInv, Lease, Filed
<1>2. LockInv /\ [LockNext]_lockVars => LockInv'
    BY LockTypeStep, LeaseStep DEF LockInv
<1> QED
    BY <1>1, <1>2, PTL DEF LockSpec

(* For any number of passes, instances and killed passes, at most one pass *)
(* owns the lock over Redis, and without Redis at most one in each         *)
(* instance whose file can be written, as long as no command of the KV     *)
(* raises and no stale lock was taken over (_scalp_lock_take).             *)
THEOREM OneOwnerCorrect == LockSpec => []OneOwner
<1>1. LockInv => OneOwner
  <2> SUFFICES ASSUME LockInv, Calm, NEW p \in Owners, NEW q \in Owners,
                      setting.kv = "redis" \/ (Home(p) = Home(q) /\ CanWrite(Home(p)))
               PROVE  p = q
    BY DEF OneOwner, Calm
  <2>1. CASE setting.kv = "redis"
    BY <2>1 DEF LockInv, Lease
  <2>2. CASE setting.kv # "redis"
    <3>1. setting.kv = "file"
      BY <2>2, HomeType DEF LockInv, Owners
    <3> QED
      BY <2>2, <3>1 DEF LockInv, Filed
  <2> QED
    BY <2>1, <2>2
<1> QED
    BY <1>1, LockInvHolds, PTL

-----------------------------------------------------------------------------
(* The book's passes. None of the five properties is inductive: they speak *)
(* of the stored records and of the exchange, and while a pass works the   *)
(* truth is in what it has read and not yet written. BookInv therefore     *)
(* says of each coin, at each step, which record is in force (BookOf) and  *)
(* how far the position may have moved since it was read; of the setup at  *)
(* hand, what has been checked (WorkFacts, Careful); of the counters, how  *)
(* far they are behind what has filled (Counts). A part holds as long as   *)
(* the mishaps that break it have not happened (Mild, Whole, Sized,        *)
(* Steady), so that each property is proved with no other mishap excluded  *)
(* than the ones it names; until an entry fills in part or an order it     *)
(* knows nothing of rests, nothing rests loose (LooseInv).                 *)

InWork == {"open", "bare", "left", "reopen", "rebare", "swap", "cover", "uncover"}
Busy == {"manage", "setups", "count", "save"} \union InWork
Read == {"orders"} \union Busy

\* the record in force: the pass's while it works, else the stored one
BookOf(c) == IF step \in Busy THEN recs[c] ELSE saved[c]

\* the coins whose setup the pass has not considered yet
Ahead == IF step \in InWork THEN CoinsOf(Tail(queue)) ELSE CoinsOf(queue)

\* the mishaps under which the records, the positions, the stops are what they should be
Mild == suffered \subseteq {"bare_flip", "unwind", "partial"}
Whole == suffered \subseteq {"bare_flip", "unwind"}
Sized == suffered \subseteq {"bare_flip", "partial"}
Engine == cfg.mode = "engine"

\* each coin has one setup
Distinct(q) == \A i, j \in DOMAIN q : q[i].coin = q[j].coin => i = j

\* where the pass is with the setup at hand
WorkFacts ==
    /\ step \in InWork => queue # <<>>
    /\ step \in {"open", "reopen"} => Mine = NoRec
    /\ step = "open" => view[Setup.coin] = Flat
    /\ step \in {"bare", "rebare", "left", "cover", "uncover", "swap"} => Mine.state = "open"
    /\ step \in {"cover", "uncover", "swap"} => view[Setup.coin].side = Mine.side
    /\ step \in {"open", "reopen", "bare", "rebare"} => Allows(batch, Setup.side)
    /\ step \in {"cover", "uncover"} => Mine.adds < cfg.adds /\ AllowsAdd(batch)
    /\ step \in {"open", "reopen", "bare", "rebare", "left"} => Engine
    /\ step = "uncover" => "unwind" \in suffered
    /\ step = "rebare" => "bare_flip" \in suffered
    /\ Engine => \A c \in Coins : rest[c] = "none"
    /\ Distinct(queue)
    /\ step # "manage" => todo = {}

Flagged(c) ==
    BookOf(c).side # "none" /\ pos[c].side = BookOf(c).side /\ ~Covered(c) =>
        BookOf(c).bare \/ (step \in {"cover", "uncover"} /\ c = Setup.coin)

MildCoin(c) ==
    /\ rest[c] # "none" => pos[c] = Flat /\ BookOf(c).state = "pending" /\ BookOf(c).side = rest[c]
    /\ step \in Read /\ view[c] # Flat => rest[c] = "none"
    /\ step \in Busy /\ pos[c] # Flat => view[c] # Flat \/ recs[c] # NoRec
    /\ step = "manage" =>
         /\ <<c, "cancel">> \in todo => pos[c] = Flat /\ recs[c].state = "pending"
         /\ <<c, "close">> \in todo => recs[c].state = "open" /\ view[c] # Flat
    /\ Flagged(c)

\* the position has not grown behind the pass's back
Unmoved(c) ==
    /\ step = "orders" => pos[c] = view[c] \/ pos[c] = Flat
    /\ step = "manage" => pos[c].size <= view[c].size
    /\ ((Mild /\ view[c] # Flat) \/ Engine) /\ step \in Busy /\ c \in Ahead => pos[c].size <= view[c].size

Overgrown(c) == \A o \in stops[c] : o.listed => o.size < pos[c].size
Fresh(c) == \E o \in stops[c] : ~o.listed /\ o.size >= pos[c].size
Small(c) == pos[c].size <= 2 /\ \A o \in stops[c] : o.size <= 2

SteadyCoin(c) ==
    /\ step = "manage" /\ <<c, "cancel">> \in todo => pos[c] = Flat \/ pos[c].side # saved[c].side
    /\ step \in Busy /\ c \in Ahead /\ view[c] # Flat => pos[c].size <= view[c].size \/ Overgrown(c)
    /\ ~Engine =>
         /\ pos[c] = Flat \/ rest[c] # "none" => Small(c)
         /\ step \in Read /\ rest[c] # "none" => view[c].size <= 2
         /\ step \in Read /\ view[c] = Flat /\ c \in Ahead =>
              Small(c) /\ (rest[c] # "none" => pos[c] = Flat)

\* the coin of the setup at hand
Careful ==
    /\ step \in {"open", "reopen"} => pos[Setup.coin] = Flat
    /\ step = "cover" => pos[Setup.coin].size <= Capped(view[Setup.coin].size + 2)
    /\ step = "swap" => Fresh(Setup.coin) \/ Overgrown(Setup.coin)

MildWork ==
    step \in {"cover", "uncover"} /\ pos[Setup.coin] # Flat =>
        Mine.bare \/ \E o \in stops[Setup.coin] : o.size >= view[Setup.coin].size

OnRecord(c) == Side(c) # "none" => BookOf(c).side = Side(c)

RightSize(c) ==
    /\ pos[c].size <= 2 * (1 + cfg.adds)
    /\ BookOf(c) # NoRec =>
         \/ pos[c].size <= 2 * (1 + BookOf(c).adds)
         \/ step = "cover" /\ c = Setup.coin /\ pos[c].size <= 2 * (2 + BookOf(c).adds)

Named(s) == {c \in Coins : BookOf(c).side = s}
Later == Busy \ {"manage"}

Counts ==
    /\ \A s \in Sides : Cardinality(Named(s)) <= cfg.perSide
    /\ Cardinality(Named("LONG")) + Cardinality(Named("SHORT")) <= cfg.open
    /\ step \in Later =>
         /\ \A s \in Sides :
              /\ Cardinality(Named(s)) <= batch[s] + (IF step = "bare" /\ s = Setup.side THEN 1 ELSE 0)
              /\ batch[s] <= cfg.perSide
         /\ batch.LONG + batch.SHORT <= cfg.open
         /\ filled <= batch.candle + (IF step \in {"bare", "cover"} THEN 1 ELSE 0)
         /\ batch.candle >= entries
         /\ step \in Later \ {"count", "swap"} => batch.candle = entries
    /\ step \notin Later => filled <= entries

-----------------------------------------------------------------------------
\* Of a position: its size is bounded, and it is flat exactly when it has no side or no size.
LEMMA PositionFacts ==
    ASSUME NEW x \in Positions
    PROVE  /\ x.size \in Nat /\ x.size <= MaxSize /\ x.side \in Sides \union {"none"}
           /\ x = Flat <=> x.side = "none"
           /\ x = Flat <=> x.size = 0
BY ScalpBookAssumption DEF Positions, Flat, Sides

\* Flat is a position without side or size.
LEMMA FlatFacts == Flat \in Positions /\ Flat.side = "none" /\ Flat.size = 0
BY DEF Positions, Flat

\* Of a record: the types of its fields, and it is NoRec exactly when it has no side or no state.
LEMMA RecordFacts ==
    ASSUME NEW r \in Records, cfg \in Settings
    PROVE  /\ r.side \in Sides \union {"none"} /\ r.state \in {"none", "pending", "open"}
           /\ r.bare \in BOOLEAN /\ r.adds \in Nat /\ r.adds <= cfg.adds
           /\ r = NoRec <=> r.side = "none"
           /\ r = NoRec <=> r.state = "none"
<1>1. cfg.adds \in Nat
  BY ScalpBookAssumption
<1>2. CASE r = NoRec
  BY <1>1, <1>2 DEF NoRec, Sides
<1>3. CASE r \in [side : Sides, state : {"pending", "open"}, bare : BOOLEAN, adds : 0..cfg.adds]
  BY <1>1, <1>3 DEF NoRec, Sides
<1> QED
  BY <1>2, <1>3 DEF Records

\* NoRec is a record without side, state or adds.
LEMMA NoRecFacts ==
    ASSUME cfg \in Settings
    PROVE  /\ NoRec \in Records /\ NoRec.side = "none" /\ NoRec.state = "none" /\ NoRec.adds = 0
           /\ NoRec.bare = FALSE
BY DEF Records, NoRec

\* What Rec makes.
LEMMA RecFacts ==
    ASSUME cfg \in Settings, NEW s \in Sides, NEW st \in {"pending", "open"}, NEW b \in BOOLEAN
    PROVE  /\ Rec(s, st, b) \in Records /\ Rec(s, st, b).side = s /\ Rec(s, st, b).state = st
           /\ Rec(s, st, b).bare = b /\ Rec(s, st, b).adds = 0
<1>1. cfg.adds \in Nat
  BY ScalpBookAssumption
<1>2. 0 \in 0..cfg.adds
  BY <1>1
<1> QED
  BY <1>2 DEF Records, Rec

\* a record is promoted, marked bare, or has one more add
LEMMA ChangedRecord ==
    ASSUME cfg \in Settings, NEW r \in Records, r # NoRec, NEW st \in {"pending", "open"},
           NEW b \in BOOLEAN
    PROVE  /\ [r EXCEPT !.state = st] \in Records
           /\ [r EXCEPT !.state = st].side = r.side /\ [r EXCEPT !.state = st].state = st
           /\ [r EXCEPT !.state = st].bare = r.bare /\ [r EXCEPT !.state = st].adds = r.adds
           /\ [r EXCEPT !.bare = b] \in Records
           /\ [r EXCEPT !.bare = b].side = r.side /\ [r EXCEPT !.bare = b].state = r.state
           /\ [r EXCEPT !.bare = b].bare = b /\ [r EXCEPT !.bare = b].adds = r.adds
           /\ r.adds < cfg.adds =>
                /\ [r EXCEPT !.adds = @ + 1, !.bare = FALSE] \in Records
                /\ [r EXCEPT !.adds = @ + 1, !.bare = FALSE].side = r.side
                /\ [r EXCEPT !.adds = @ + 1, !.bare = FALSE].state = r.state
                /\ [r EXCEPT !.adds = @ + 1, !.bare = FALSE].bare = FALSE
                /\ [r EXCEPT !.adds = @ + 1, !.bare = FALSE].adds = r.adds + 1
<1>1. cfg.adds \in Nat
  BY ScalpBookAssumption
<1> DEFINE R == [side : Sides, state : {"pending", "open"}, bare : BOOLEAN, adds : 0..cfg.adds]
<1>2. r \in R
  BY DEF Records
<1>3. [r EXCEPT !.state = st] \in R /\ [r EXCEPT !.bare = b] \in R
  BY <1>2
<1>4. r.adds < cfg.adds => [r EXCEPT !.adds = @ + 1, !.bare = FALSE] \in R
  <2>1. r.adds < cfg.adds => r.adds + 1 \in 0..cfg.adds
    BY <1>1, <1>2
  <2> QED
    BY <1>2, <2>1
<1>5. R \subseteq Records
  BY DEF Records
<1> QED
  BY <1>2, <1>3, <1>4, <1>5

\* What a market order of size 2 makes of a position.
LEMMA TradedFacts ==
    ASSUME NEW x \in Positions, NEW s \in Sides
    PROVE  /\ Traded(x, s, 2) \in Positions
           /\ Traded(x, s, 2).size <= Capped(x.size + 2)
           /\ x.side \in {s, "none"} =>
                Traded(x, s, 2).side = s /\ Traded(x, s, 2).size = Capped(x.size + 2)
           /\ x.size <= 2 => Traded(x, s, 2).size <= 2 \/ Traded(x, s, 2).size = Capped(x.size + 2)
           /\ x = Flat => Traded(x, s, 2).side = s /\ Traded(x, s, 2).size = 2
<1>1. MaxSize \in Nat /\ MaxSize >= 4
  BY ScalpBookAssumption
<1>2. x.size \in Nat /\ x.size <= MaxSize
  BY PositionFacts
<1>3. x = Flat => x.side = "none" /\ x.size = 0
  BY FlatFacts
<1>4. CASE x.side \in {s, "none"}
  <2>1. Traded(x, s, 2) = [side |-> s, size |-> Capped(x.size + 2)]
    BY <1>4 DEF Traded
  <2>2. Capped(x.size + 2) \in 1..MaxSize /\ (x.size = 0 => Capped(x.size + 2) = 2)
    BY <1>1, <1>2 DEF Capped
  <2> QED
    BY <1>3, <2>1, <2>2, <1>1, <1>2 DEF Positions
<1>5. CASE x.side \notin {s, "none"}
  <2>0. x # Flat
    BY <1>5, <1>3
  <2>1. x \in [side : Sides, size : 1..MaxSize]
    BY <2>0 DEF Positions
  <2>2. CASE x.size = 2
    <3>1. Traded(x, s, 2) = Flat
      BY <1>5, <2>2 DEF Traded
    <3> QED
      BY <1>1, <1>5, <2>0, <2>2, <3>1, FlatFacts DEF Capped
  <2>3. CASE x.size > 2
    <3>1. Traded(x, s, 2) = [x EXCEPT !.size = @ - 2]
      BY <1>5, <2>3, <1>2 DEF Traded
    <3>2. [x EXCEPT !.size = @ - 2] \in [side : Sides, size : 1..MaxSize]
          /\ [x EXCEPT !.size = @ - 2].size = x.size - 2
      BY <1>1, <1>2, <2>1, <2>3
    <3> QED
      BY <1>1, <1>2, <1>5, <2>0, <2>3, <3>1, <3>2 DEF Capped, Positions
  <2>4. CASE x.size < 2
    <3>1. Traded(x, s, 2) = [side |-> s, size |-> 2 - x.size]
      BY <1>5, <2>4, <1>2 DEF Traded
    <3>2. 2 - x.size \in 1..MaxSize /\ 2 - x.size <= 2
      BY <1>1, <2>1, <2>4
    <3> QED
      BY <1>1, <1>2, <1>5, <2>0, <2>4, <3>1, <3>2 DEF Capped, Positions
  <2> QED
    BY <1>2, <2>2, <2>3, <2>4
<1> QED
  BY <1>4, <1>5

\* What a part of an entry makes of a position is a position.
LEMMA PartTraded ==
    ASSUME NEW x \in Positions, NEW s \in Sides, NEW n \in 1..2
    PROVE  Traded(x, s, n) \in Positions
<1>1. MaxSize \in Nat /\ MaxSize >= 4 /\ n \in Nat /\ n > 0 /\ n <= 2
  BY ScalpBookAssumption
<1>2. x.size \in Nat /\ x.size <= MaxSize
  BY PositionFacts
<1>3. CASE x.side \in {s, "none"}
  <2>1. Traded(x, s, n) = [side |-> s, size |-> Capped(x.size + n)]
    BY <1>3 DEF Traded
  <2>2. Capped(x.size + n) \in 1..MaxSize
    BY <1>1, <1>2 DEF Capped
  <2> QED
    BY <2>1, <2>2 DEF Positions
<1>4. CASE x.side \notin {s, "none"}
  <2>0. x # Flat
    BY <1>4, FlatFacts
  <2>1. x \in [side : Sides, size : 1..MaxSize]
    BY <2>0 DEF Positions
  <2>2. CASE x.size = n
    <3>1. Traded(x, s, n) = Flat
      BY <1>4, <2>2 DEF Traded
    <3> QED
      BY <3>1, FlatFacts
  <2>3. CASE x.size > n
    <3>1. Traded(x, s, n) = [x EXCEPT !.size = @ - n]
      BY <1>1, <1>2, <1>4, <2>3 DEF Traded
    <3>2. x.size - n \in 1..MaxSize
      BY <1>1, <1>2, <2>3
    <3> QED
      BY <2>1, <3>1, <3>2 DEF Positions
  <2>4. CASE x.size < n
    <3>1. Traded(x, s, n) = [side |-> s, size |-> n - x.size]
      BY <1>1, <1>2, <1>4, <2>4 DEF Traded
    <3>2. n - x.size \in 1..MaxSize
      BY <1>1, <1>2, <2>4
    <3> QED
      BY <3>1, <3>2 DEF Positions
  <2> QED
    BY <1>1, <1>2, <2>2, <2>3, <2>4
<1> QED
  BY <1>3, <1>4

\* a stop order
StopOrders == [size : 1..MaxSize, listed : BOOLEAN]

\* What StopOf makes.
LEMMA StopFacts ==
    ASSUME NEW n \in 1..MaxSize
    PROVE  StopOf(n) \in StopOrders /\ StopOf(n).size = n /\ StopOf(n).listed = FALSE
BY DEF StopOf, StopOrders

\* Capped keeps a size up to MaxSize and cuts a larger one.
LEMMA SizeFacts ==
    /\ MaxSize \in Nat /\ MaxSize >= 4 /\ 2 \in 1..MaxSize
    /\ \A n \in Nat : Capped(n) \in Nat /\ Capped(n) <= MaxSize /\ Capped(n) <= n /\ (n > 0 => Capped(n) > 0)
    /\ \A n \in Nat : n <= MaxSize => Capped(n) = n
    /\ \A n \in Nat : n > MaxSize => Capped(n) = MaxSize
<1>1. MaxSize \in Nat /\ MaxSize >= 4
  BY ScalpBookAssumption
<1> QED
  BY <1>1 DEF Capped

\* The types of a configuration's fields.
LEMMA SettingFacts ==
    ASSUME cfg \in Settings
    PROVE  /\ cfg.mode \in {"engine", "limit"} /\ cfg.open \in Nat /\ cfg.perSide \in Nat
           /\ cfg.new \in Nat /\ cfg.adds \in Nat /\ cfg.coins \subseteq Coins
           /\ cfg.mishaps \subseteq AllMishaps
BY ScalpBookAssumption

\* the setup at hand
LEMMA SetupFacts ==
    ASSUME cfg \in Settings, queue \in Seq(Setups), queue # <<>>
    PROVE  /\ Setup \in Setups /\ Setup.coin \in Coins /\ Setup.side \in Sides
           /\ Tail(queue) \in Seq(Setups)
           /\ Setup.coin \in CoinsOf(queue)
           /\ CoinsOf(Tail(queue)) \subseteq CoinsOf(queue)
           /\ Distinct(queue) => Setup.coin \notin CoinsOf(Tail(queue)) /\ Distinct(Tail(queue))
<1> DEFINE q == queue
<1>1. q \in Seq(Setups) /\ Len(q) \in Nat /\ Len(q) > 0 /\ DOMAIN q = 1..Len(q)
  OBVIOUS
<1>2. /\ Tail(q) \in Seq(Setups) /\ DOMAIN Tail(q) = 1..(Len(q) - 1)
      /\ \A i \in 1..(Len(q) - 1) : Tail(q)[i] = q[i + 1] /\ i + 1 \in 1..Len(q) /\ i + 1 # 1
  BY <1>1
<1>3. Setup = q[1] /\ 1 \in 1..Len(q)
  BY <1>1 DEF Setup
<1>4. Setup \in Setups
  BY <1>1, <1>3
<1>5. Setup.coin \in Coins /\ Setup.side \in Sides
  BY <1>4, SettingFacts DEF Setups
<1> HIDE DEF q
<1>6. /\ Setup.coin \in CoinsOf(q)
      /\ CoinsOf(Tail(q)) \subseteq CoinsOf(q)
  BY <1>1, <1>2, <1>3 DEF CoinsOf
<1>7. Distinct(q) => Setup.coin \notin CoinsOf(Tail(q)) /\ Distinct(Tail(q))
  BY <1>1, <1>2, <1>3 DEF CoinsOf, Distinct
<1> QED
  BY <1>2, <1>4, <1>5, <1>6, <1>7 DEF q

-----------------------------------------------------------------------------
(* Types, and where the pass is with the setup at hand. *)

\* The setups a pass begins with are a sequence, one per coin.
LEMMA NewSetups ==
    ASSUME cfg \in Settings, NEW q \in BoundedSeq(Setups, MaxSetups), Cardinality(CoinsOf(q)) = Len(q)
    PROVE  q \in Seq(Setups) /\ Distinct(q)
<1>1. q \in Seq(Setups)
  <2>1. PICK m \in 0..MaxSetups : q \in [1..m -> Setups]
    BY DEF BoundedSeq, SeqOf
  <2> QED
    BY <2>1, ScalpBookAssumption
<1>2. PICK n \in Nat : n = Len(q)
  BY <1>1
<1>3. ASSUME NEW i \in DOMAIN q, NEW j \in DOMAIN q, q[i].coin = q[j].coin, i # j PROVE FALSE
  <2>1. CoinsOf(q) = {q[k].coin : k \in (1..n) \ {j}}
    <3>1. DOMAIN q = 1..n
      BY <1>1, <1>2
    <3>2. i \in (1..n) \ {j}
      BY <1>3, <3>1
    <3>3. \A k \in 1..n : \E l \in (1..n) \ {j} : q[k].coin = q[l].coin
      BY <1>3, <3>2
    <3>4. CoinsOf(q) = {q[k].coin : k \in 1..n}
      BY <3>1 DEF CoinsOf
    <3> DEFINE others == {q[k].coin : k \in (1..n) \ {j}}
    <3>a. ASSUME NEW k \in 1..n PROVE q[k].coin \in others
      <4>1. PICK l \in (1..n) \ {j} : q[k].coin = q[l].coin
        BY <3>3
      <4> QED
        BY <4>1
    <3> HIDE DEF others
    <3>5. CoinsOf(q) \subseteq others
      BY <3>a, <3>4
    <3>6. \A k \in 1..n : q[k].coin \in CoinsOf(q)
      BY <3>4
    <3>7. others \subseteq CoinsOf(q)
      BY <3>6 DEF others
    <3> QED
      BY <3>5, <3>7 DEF others
  <2>2. IsFiniteSet(1..n) /\ Cardinality(1..n) = n
    <3>0. 1 \in Int /\ n \in Int
      OBVIOUS
    <3>1. /\ IsFiniteSet(1..n)
          /\ Cardinality(1..n) = IF 1 > n THEN 0 ELSE n - 1 + 1
      BY <3>0, FS_Interval, Zenon
    <3>2. n > 0
      BY <1>1, <1>2, <1>3
    <3> QED
      BY <3>1, <3>2
  <2>3. j \in 1..n
    BY <1>1, <1>2, <1>3
  <2>4. IsFiniteSet((1..n) \ {j}) /\ Cardinality((1..n) \ {j}) = n - 1
    BY <2>2, <2>3, FS_RemoveElement
  <2> DEFINE f == [k \in (1..n) \ {j} |-> q[k].coin]
  <2>5. CoinsOf(q) = {f[k] : k \in (1..n) \ {j}}
    BY <2>1
  <2>6. f \in Surjection((1..n) \ {j}, CoinsOf(q))
    BY <2>5 DEF Surjection
  <2>7. Cardinality(CoinsOf(q)) <= n - 1
    BY <2>4, <2>6, FS_Surjection
  <2> QED
    BY <1>2, <2>7
<1> QED
  BY <1>1, <1>3 DEF Distinct

Facts == WorkTypeOK /\ WorkFacts

\* positions, records and setups as the proofs see them: by their facts alone
LEMMA CoinFacts ==
    ASSUME WorkTypeOK, NEW c \in Coins
    PROVE  /\ cfg \in Settings
           /\ pos[c] \in Positions /\ view[c] \in Positions
           /\ saved[c] \in Records /\ recs[c] \in Records
           /\ rest[c] \in Sides \union {"none"}
           /\ stops[c] \subseteq StopOrders
           /\ \A o \in stops[c] : o.size \in 1..MaxSize /\ o.listed \in BOOLEAN
BY DEF WorkTypeOK, StopOrders

\* what an exchange of stop orders, a record or a position leaves is of its type
LEMMA NewStops ==
    ASSUME WorkTypeOK, NEW c \in Coins, NEW S \in SUBSET StopOrders
    PROVE  /\ [stops EXCEPT ![c] = S] \in [Coins -> SUBSET StopOrders]
           /\ [stops EXCEPT ![c] = {}] \in [Coins -> SUBSET StopOrders]
           /\ stops \in [Coins -> SUBSET StopOrders]
BY DEF WorkTypeOK, StopOrders

\* An entry's stop is a stop order.
LEMMA Seconds ==
    ASSUME WorkTypeOK, WorkFacts
    PROVE  /\ 2 \in 1..MaxSize /\ StopOf(2) \in StopOrders
           /\ cfg.new \in Nat
BY SizeFacts, StopFacts, SettingFacts DEF WorkTypeOK

\* what no action but the exchange's touches
LEMMA TradeType ==
    ASSUME WorkTypeOK, NEW c \in Coins, NEW s \in Sides, Trade(c, s)
    PROVE  pos' \in [Coins -> Positions] /\ filled' \in Nat /\ rest' = rest
<1>1. pos[c] \in Positions
  BY CoinFacts
<1>2. Traded(pos[c], s, 2) \in Positions
  BY <1>1, TradedFacts
<1> QED
  BY <1>2 DEF Trade, WorkTypeOK

\* A close, in full or in part, keeps the types.
LEMMA CloseType ==
    ASSUME WorkTypeOK, NEW c \in Coins, Close(c) \/ CloseHalf(c) \/ UNCHANGED exchange
    PROVE  /\ pos' \in [Coins -> Positions] /\ rest' = rest
           /\ stops' \in [Coins -> SUBSET StopOrders]
<1>1. CASE Close(c)
  <2>1. pos' \in [Coins -> Positions]
    BY <1>1, FlatFacts DEF Close, WorkTypeOK
  <2> QED
    BY <1>1, <2>1, NewStops DEF Close
<1>2. CASE CloseHalf(c)
  <2>1. pos[c] \in Positions /\ pos[c].size > 1
    BY <1>2, CoinFacts DEF CloseHalf
  <2>2. pos[c] \in [side : Sides, size : 1..MaxSize]
    BY <2>1, FlatFacts DEF Positions
  <2>3. pos[c].size \div 2 \in 1..MaxSize
    BY <2>1, <2>2, SizeFacts
  <2>4. [pos[c] EXCEPT !.size = @ \div 2] \in Positions
    BY <2>2, <2>3 DEF Positions
  <2>5. pos' = [pos EXCEPT ![c] = [pos[c] EXCEPT !.size = @ \div 2]]
    BY <1>2 DEF CloseHalf
  <2>6. pos' \in [Coins -> Positions]
    BY <2>4, <2>5 DEF WorkTypeOK
  <2> QED
    BY <1>2, <2>6, NewStops DEF CloseHalf
<1>3. CASE UNCHANGED exchange
  BY <1>3, NewStops DEF exchange, WorkTypeOK
<1> QED
  BY <1>1, <1>2, <1>3

\* Recording keeps the type of the records.
LEMMA RecordType ==
    ASSUME WorkTypeOK, NEW c \in Coins, NEW r \in Records, Record(c, r)
    PROVE  recs' \in [Coins -> Records]
BY DEF WorkTypeOK, Record

\* Dropping a record keeps the type of the records.
LEMMA PopType ==
    ASSUME WorkTypeOK, NEW c \in Coins, Pop(c)
    PROVE  recs' \in [Coins -> Records]
<1>1. NoRec \in Records
  BY NoRecFacts DEF WorkTypeOK
<1> QED
  BY <1>1 DEF WorkTypeOK, Pop

\* A mishap is one of the configuration's, and none is forgotten.
LEMMA MishapType ==
    ASSUME WorkTypeOK
    PROVE  /\ \A m : Mishap(m) => suffered' \subseteq cfg.mishaps /\ suffered \subseteq suffered'
           /\ UNCHANGED suffered => suffered' \subseteq cfg.mishaps /\ suffered \subseteq suffered'
BY DEF WorkTypeOK, Mishap

\* A count within the limits keeps the type of the counters.
LEMMA CommitType ==
    ASSUME Facts, queue # <<>>
    PROVE  /\ AllowsAdd(batch) =>
                CommittedAdd(batch) \in [LONG : Nat, SHORT : Nat, candle : 0..cfg.new]
           /\ Allows(batch, Setup.side) =>
                Committed(batch, Setup.side) \in [LONG : Nat, SHORT : Nat, candle : 0..cfg.new]
<1>1. cfg.new \in Nat /\ batch \in [LONG : Nat, SHORT : Nat, candle : 0..cfg.new]
      /\ Setup.side \in {"LONG", "SHORT"}
  BY SettingFacts, SetupFacts DEF Facts, WorkTypeOK, Sides
<1>2. ASSUME batch.candle < cfg.new PROVE batch.candle + 1 \in 0..cfg.new
  BY <1>1, <1>2
<1>3. batch.LONG + 1 \in Nat /\ batch.SHORT + 1 \in Nat
  BY <1>1
<1>4. AllowsAdd(batch) => CommittedAdd(batch) \in [LONG : Nat, SHORT : Nat, candle : 0..cfg.new]
  BY <1>1, <1>2 DEF AllowsAdd, CommittedAdd
<1>5. CASE Setup.side = "LONG"
  <2>1. Committed(batch, Setup.side) = [batch EXCEPT !.LONG = batch.LONG + 1, !.candle = batch.candle + 1]
    BY <1>1, <1>5 DEF Committed
  <2> QED
    BY <1>1, <1>2, <1>3, <1>4, <2>1 DEF Allows
<1>6. CASE Setup.side = "SHORT"
  <2>1. Committed(batch, Setup.side) = [batch EXCEPT !.SHORT = batch.SHORT + 1, !.candle = batch.candle + 1]
    BY <1>1, <1>6 DEF Committed
  <2> QED
    BY <1>1, <1>2, <1>3, <1>4, <2>1 DEF Allows
<1> QED
  BY <1>1, <1>5, <1>6

\* The types depend on the configuration only.
LEMMA SameSettings ==
    ASSUME cfg' = cfg
    PROVE  Records' = Records /\ Setups' = Setups /\ (Engine' <=> Engine) /\ StopOrders' = StopOrders
           /\ Positions' = Positions
BY DEF Records, Setups, Engine, StopOrders, Positions

Batches == [LONG : Nat, SHORT : Nat, candle : 0..cfg.new]
Acting == Coins \X {"cancel", "close"}

\* The type invariant with its sets named.
LEMMA TypeNow ==
    ASSUME Facts
    PROVE  /\ cfg \in Settings /\ pos \in [Coins -> Positions] /\ view \in [Coins -> Positions]
           /\ rest \in [Coins -> Sides \union {"none"}] /\ stops \in [Coins -> SUBSET StopOrders]
           /\ saved \in [Coins -> Records] /\ recs \in [Coins -> Records]
           /\ entries \in 0..cfg.new /\ offered \subseteq Coins /\ filled \in Nat
           /\ suffered \subseteq cfg.mishaps /\ step \in BookSteps
           /\ queue \in Seq(Setups) /\ todo \subseteq Acting /\ batch \in Batches
BY DEF Facts, WorkTypeOK, StopOrders, Batches, Acting

\* The type invariant of the next state with its sets named.
LEMMA TypeNext ==
    ASSUME Facts, cfg' = cfg, pos' \in [Coins -> Positions], view' \in [Coins -> Positions],
           rest' \in [Coins -> Sides \union {"none"}], stops' \in [Coins -> SUBSET StopOrders],
           saved' \in [Coins -> Records], recs' \in [Coins -> Records],
           entries' \in 0..cfg.new, offered' \subseteq Coins, filled' \in Nat,
           suffered' \subseteq cfg.mishaps, step' \in BookSteps,
           queue' \in Seq(Setups), todo' \subseteq Acting, batch' \in Batches
    PROVE  WorkTypeOK'
<1>1. Records' = Records /\ Setups' = Setups
  BY SameSettings
<1> QED
  BY <1>1, TypeNow DEF WorkTypeOK, StopOrders, Batches, Acting

\* The facts about the work hold when no setup is being worked on.
LEMMA RestingFacts ==
    ASSUME Facts, cfg' = cfg, step' \notin InWork, Distinct(queue'), step' # "manage" => todo' = {},
           Engine => \A c \in Coins : rest'[c] \in {rest[c], "none"}
    PROVE  WorkFacts'
BY DEF Facts, WorkFacts, InWork, Engine

\* The facts about the work hold while one setup is worked on.
LEMMA WorkingFacts ==
    ASSUME Facts, cfg' = cfg, queue' = queue, queue # <<>>, rest' = rest, todo' = {},
           step' \in {"open", "reopen"} => recs'[Setup.coin] = NoRec,
           step' = "open" => view'[Setup.coin] = Flat,
           step' \in {"bare", "rebare", "left", "cover", "uncover", "swap"} =>
               recs'[Setup.coin].state = "open",
           step' \in {"cover", "uncover", "swap"} => view'[Setup.coin].side = recs'[Setup.coin].side,
           step' \in {"open", "reopen", "bare", "rebare"} => Allows(batch', Setup.side),
           step' \in {"cover", "uncover"} => recs'[Setup.coin].adds < cfg.adds /\ AllowsAdd(batch'),
           step' \in {"open", "reopen", "bare", "rebare", "left"} => Engine,
           step' = "uncover" => "unwind" \in suffered',
           step' = "rebare" => "bare_flip" \in suffered'
    PROVE  WorkFacts'
BY DEF Facts, WorkFacts, Engine, Setup, Mine, Distinct, Allows, AllowsAdd

\* The locals of a pass that is not working have their types.
LEMMA StoppedType ==
    ASSUME Facts, stops' = [c \in Coins |-> {[o EXCEPT !.listed = FALSE] : o \in stops[c]}]
                  \/ stops' = [c \in Coins |-> {[o EXCEPT !.listed = TRUE] : o \in stops[c]}]
    PROVE  stops' \in [Coins -> SUBSET StopOrders]
<1>1. ASSUME NEW c \in Coins, NEW o \in stops[c]
      PROVE  [o EXCEPT !.listed = FALSE] \in StopOrders /\ [o EXCEPT !.listed = TRUE] \in StopOrders
  <2>1. o \in StopOrders
    BY <1>1, CoinFacts DEF Facts
  <2> QED
    BY <2>1 DEF StopOrders
<1>2. CASE stops' = [c \in Coins |-> {[o EXCEPT !.listed = FALSE] : o \in stops[c]}]
  <2>1. \A c \in Coins : {[o EXCEPT !.listed = FALSE] : o \in stops[c]} \in SUBSET StopOrders
    BY <1>1
  <2> QED
    BY <1>2, <2>1
<1>3. CASE stops' = [c \in Coins |-> {[o EXCEPT !.listed = TRUE] : o \in stops[c]}]
  <2>1. \A c \in Coins : {[o EXCEPT !.listed = TRUE] : o \in stops[c]} \in SUBSET StopOrders
    BY <1>1
  <2> QED
    BY <1>3, <2>1
<1> QED
  BY <1>2, <1>3

\* Starting a pass keeps the types and the facts about the work.
LEMMA BeginFacts == ASSUME Facts, Begin PROVE Facts'
<1>1. /\ step = "idle" /\ UNCHANGED <<cfg, exchange, saved, entries, filled, suffered, view, recs, todo, batch>>
      /\ \/ UNCHANGED <<queue, step>>
         \/ step' = "account" /\ queue' \in Seq(Setups) /\ Distinct(queue')
  BY NewSetups DEF Begin, Facts, WorkTypeOK
<1>2. offered' \subseteq Coins
  <2>1. PICK q \in BoundedSeq(Setups, MaxSetups) :
          Cardinality(CoinsOf(q)) = Len(q) /\ offered' = offered \union CoinsOf(q)
    BY DEF Begin
  <2>2. q \in Seq(Setups)
    BY <2>1, NewSetups DEF Facts, WorkTypeOK
  <2>3. \A k \in DOMAIN q : q[k] \in Setups
    BY <2>2
  <2>4. \A x \in Setups : x.coin \in Coins
    BY TypeNow, SettingFacts DEF Setups
  <2> QED
    BY <2>1, <2>3, <2>4, TypeNow DEF CoinsOf
<1>3. WorkTypeOK'
  BY <1>1, <1>2 DEF Facts, WorkTypeOK, BookSteps, exchange, Setups, Records
<1>4. WorkFacts'
  BY <1>1, RestingFacts DEF Facts, WorkFacts, InWork, exchange
<1> QED
  BY <1>3, <1>4 DEF Facts

\* The end of a pass keeps the types and the facts about the work.
LEMMA StopActionFacts == ASSUME Facts, Stop PROVE Facts'
<1>1. /\ step' = "idle" /\ view' = NoView /\ recs' = NoRecs /\ todo' = {} /\ queue' = <<>>
      /\ batch' = NoBatch /\ UNCHANGED <<cfg, pos, rest, saved, entries, offered, filled>>
  BY DEF Stop, Idle, stored
<1>2. stops' \in [Coins -> SUBSET StopOrders]
  BY StoppedType DEF Stop
<1>3. suffered' \subseteq cfg.mishaps
  BY MishapType DEF Stop, Facts, WorkTypeOK
<1>4. NoView \in [Coins -> Positions] /\ NoRecs \in [Coins -> Records]
  BY FlatFacts, NoRecFacts DEF NoView, NoRecs, Facts, WorkTypeOK
<1>5. NoBatch \in [LONG : Nat, SHORT : Nat, candle : 0..cfg.new]
  BY SettingFacts DEF NoBatch, Facts, WorkTypeOK
<1>6. WorkTypeOK'
  BY <1>1, <1>2, <1>3, <1>4, <1>5 DEF Facts, WorkTypeOK, BookSteps, Setups, Records, StopOrders
<1>7. WorkFacts'
  BY <1>1, RestingFacts DEF InWork, Distinct
<1> QED
  BY <1>6, <1>7 DEF Facts

\* Reading the account keeps the types and the facts about the work.
LEMMA ReadAccountFacts == ASSUME Facts, ReadAccount PROVE Facts'
<1>1. /\ step = "account" /\ step' \in {"orders", "done"} /\ view' \in {pos, view}
      /\ UNCHANGED <<cfg, exchange, stored, filled, suffered, recs, todo, queue, batch>>
  BY DEF ReadAccount
<1>2. WorkTypeOK'
  BY <1>1 DEF Facts, WorkTypeOK, BookSteps, exchange, stored, Setups, Records
<1>3. WorkFacts'
  BY <1>1, RestingFacts DEF Facts, WorkFacts, InWork, exchange
<1> QED
  BY <1>2, <1>3 DEF Facts

\* sweep changes a record in one of three ways
LEMMA SweptType ==
    ASSUME Facts, NEW c \in Coins, NEW r \in Records, NEW rests \in BOOLEAN, NEW known \in BOOLEAN,
           NEW act \in Wants(c, r, rests, known)
    PROVE  /\ Swept(r, act) \in Records
           /\ act \in {"keep", "promote", "cancel", "drop", "close"}
           /\ act \in {"keep", "cancel", "close"} => Swept(r, act) = r
           /\ act = "drop" => /\ Swept(r, act) = NoRec
                              /\ view[c].side # r.side
                              /\ r.state = "pending" => ~rests
                              /\ r # NoRec
           /\ act = "promote" => /\ r.state = "pending" /\ view[c].side = r.side
                                 /\ Swept(r, act) = [r EXCEPT !.state = "open"]
           /\ act = "cancel" => r.state = "pending" /\ view[c].side # r.side /\ rests
           /\ act = "close" => r.state = "open" /\ view[c].side = r.side
<1>1. r.state \in {"none", "pending", "open"} /\ (r = NoRec <=> r.state = "none")
  BY RecordFacts DEF Facts, WorkTypeOK
<1> DEFINE h == view[c].side = r.side
<1>2. /\ r = NoRec => act = "keep"
      /\ r.state = "pending" /\ h => act = "promote"
      /\ r.state = "pending" /\ ~h /\ ~known => act = "keep"
      /\ r.state = "pending" /\ ~h /\ known /\ ~rests => act = "drop"
      /\ r.state = "pending" /\ ~h /\ known /\ rests => act \in {"keep", "cancel"}
      /\ r.state = "open" /\ ~h => act = "drop"
      /\ r.state = "open" /\ h => act \in {"keep", "close"}
  <2>1. h <=> Held(c, r)
    BY DEF Held
  <2> HIDE DEF h
  <2>2. CASE r = NoRec
    <3>1. Wants(c, r, rests, known) = {"keep"}
      BY <1>1, <2>2 DEF Wants
    <3> QED
      BY <1>1, <2>2, <3>1
  <2>3. CASE r.state = "pending"
    <3>1. r # NoRec
      BY <1>1, <2>3
    <3>2. h => Wants(c, r, rests, known) = {"promote"}
      BY <2>1, <2>3, <3>1 DEF Wants
    <3>3. ~h /\ ~known => Wants(c, r, rests, known) = {"keep"}
      BY <2>1, <2>3, <3>1 DEF Wants
    <3>4. ~h /\ known /\ ~rests => Wants(c, r, rests, known) = {"drop"}
      BY <2>1, <2>3, <3>1 DEF Wants
    <3>5. ~h /\ known /\ rests => Wants(c, r, rests, known) = {"keep", "cancel"}
      BY <2>1, <2>3, <3>1 DEF Wants
    <3> QED
      BY <2>3, <3>1, <3>2, <3>3, <3>4, <3>5
  <2>4. CASE r.state = "open"
    <3>1. r # NoRec
      BY <1>1, <2>4
    <3>2. h => Wants(c, r, rests, known) = {"keep", "close"}
      BY <2>1, <2>4, <3>1 DEF Wants
    <3>3. ~h => Wants(c, r, rests, known) = {"drop"}
      BY <2>1, <2>4, <3>1 DEF Wants
    <3> QED
      BY <2>4, <3>1, <3>2, <3>3
  <2> QED
    BY <1>1, <2>2, <2>3, <2>4
<1>3. /\ act = "promote" => Swept(r, act) = [r EXCEPT !.state = "open"]
      /\ act = "drop" => Swept(r, act) = NoRec
      /\ act \in {"keep", "cancel", "close"} => Swept(r, act) = r
  BY DEF Swept
<1>4. act = "promote" => Swept(r, act) \in Records
  <2>1. act = "promote" => r # NoRec
    BY <1>2
  <2>2. r # NoRec => [r EXCEPT !.state = "open"] \in Records
    BY TypeNow, ChangedRecord
  <2> QED
    BY <1>3, <2>1, <2>2
<1>5. act \in {"keep", "promote", "cancel", "drop", "close"}
  BY <1>1, <1>2
<1>6. NoRec \in Records
  BY NoRecFacts DEF Facts, WorkTypeOK
<1> QED
  BY <1>1, <1>2, <1>3, <1>4, <1>5, <1>6

\* what sweep makes of each coin
Handled(c, r, known) ==
    \E rests \in Rests(c) : \E act \in Wants(c, r, rests, known) :
        /\ recs'[c] = Swept(r, act)
        /\ <<c, "cancel">> \in todo' <=> act = "cancel"
        /\ <<c, "close">> \in todo' <=> act = "close"

\* The sweep, coin by coin, with a read of the records that may have failed.
LEMMA SweepCoins ==
    ASSUME Facts, Sweep
    PROVE  /\ \E found \in {saved, NoRecs}, known \in BOOLEAN :
                /\ found = saved \/ "kv" \in suffered'
                /\ \A c \in Coins : found[c] \in Records /\ Handled(c, found[c], known)
                /\ stops' = IF known THEN [c \in Coins |-> {[o EXCEPT !.listed = TRUE] : o \in stops[c]}]
                                     ELSE stops
           /\ recs' \in [Coins -> Records] /\ todo' \subseteq Acting
           /\ suffered' \subseteq cfg.mishaps /\ suffered \subseteq suffered'
           /\ step = "orders" /\ step' = "manage"
           /\ UNCHANGED <<cfg, pos, rest, stored, filled, view, queue, batch>>
<1> PICK act \in Acts, found \in {saved, NoRecs}, known \in BOOLEAN :
           /\ SeesOrders(known)
           /\ IF found = saved THEN UNCHANGED suffered ELSE Mishap("kv")
           /\ \A c \in Coins : \E rests \in Rests(c) : act[c] \in Wants(c, found[c], rests, known)
           /\ recs' = [c \in Coins |-> Swept(found[c], act[c])]
           /\ todo' = {<<c, act[c]>> : c \in {d \in Coins : act[d] \in {"cancel", "close"}}}
  BY DEF Sweep
<1>1. \A c \in Coins : found[c] \in Records
  BY TypeNow, NoRecFacts DEF NoRecs
<1>2. \A c \in Coins : act[c] \in {"keep", "promote", "cancel", "drop", "close"}
  BY DEF Acts
<1>3. ASSUME NEW c \in Coins PROVE Swept(found[c], act[c]) \in Records
  <2> PICK rests \in Rests(c) : act[c] \in Wants(c, found[c], rests, known)
    OBVIOUS
  <2>1. rests \in BOOLEAN /\ found[c] \in Records
    BY <1>1 DEF Rests
  <2> QED
    BY <2>1, SweptType
<1>4. recs' \in [Coins -> Records]
  BY <1>3
<1>5. todo' \subseteq Acting
  BY <1>2 DEF Acting
<1>6. ASSUME NEW c \in Coins PROVE Handled(c, found[c], known)
  <2>1. recs'[c] = Swept(found[c], act[c])
    OBVIOUS
  <2>2. /\ <<c, "cancel">> \in todo' <=> act[c] = "cancel"
        /\ <<c, "close">> \in todo' <=> act[c] = "close"
    OBVIOUS
  <2> QED
    BY <2>1, <2>2 DEF Handled
<1>7. suffered' \subseteq cfg.mishaps /\ suffered \subseteq suffered' /\ (found = saved \/ "kv" \in suffered')
  BY TypeNow DEF Mishap
<1>8. stops' = IF known THEN [c \in Coins |-> {[o EXCEPT !.listed = TRUE] : o \in stops[c]}] ELSE stops
  BY DEF SeesOrders
<1>9. step = "orders" /\ step' = "manage" /\ UNCHANGED <<cfg, pos, rest, stored, filled, view, queue, batch>>
  BY DEF Sweep
<1> QED
  BY <1>1, <1>4, <1>5, <1>6, <1>7, <1>8, <1>9

\* The sweep keeps the types and the facts about the work.
LEMMA SweepFacts == ASSUME Facts, Sweep PROVE Facts'
<1>1. /\ recs' \in [Coins -> Records] /\ todo' \subseteq Acting
      /\ suffered' \subseteq cfg.mishaps /\ step' = "manage"
      /\ UNCHANGED <<cfg, pos, rest, stored, filled, view, queue, batch>>
  BY SweepCoins
<1>2. stops' \in [Coins -> SUBSET StopOrders]
  <2>1. stops' = stops \/ stops' = [c \in Coins |-> {[o EXCEPT !.listed = TRUE] : o \in stops[c]}]
    BY SweepCoins
  <2> QED
    BY <2>1, StoppedType, TypeNow
<1>3. WorkTypeOK'
  BY <1>1, <1>2, TypeNow, TypeNext DEF stored, BookSteps
<1>4. WorkFacts'
  BY <1>1, RestingFacts DEF InWork, Facts, WorkFacts
<1> QED
  BY <1>3, <1>4 DEF Facts

\* A cancel keeps the types and the facts about the work.
LEMMA CancelFacts == ASSUME Facts, NEW c \in Coins, CancelEntry(c) PROVE Facts'
<1>1. /\ step = "manage" /\ step' = step /\ todo' = todo \ {<<c, "cancel">>}
      /\ rest' \in {rest, [rest EXCEPT ![c] = "none"]} /\ stops' \in {stops, [stops EXCEPT ![c] = {}]}
      /\ Pop(c) /\ (Mishap("cancel") \/ UNCHANGED suffered)
      /\ UNCHANGED <<cfg, pos, stored, filled, view, queue, batch>>
  BY DEF CancelEntry
<1>2. recs' \in [Coins -> Records]
  BY <1>1, PopType DEF Facts
<1>3. stops' \in [Coins -> SUBSET StopOrders] /\ rest' \in [Coins -> Sides \union {"none"}]
  BY <1>1, TypeNow
<1>4. suffered' \subseteq cfg.mishaps
  BY <1>1, MishapType DEF Facts
<1>5. WorkTypeOK'
  BY <1>1, <1>2, <1>3, <1>4, TypeNow, TypeNext DEF stored
<1>6. \A d \in Coins : rest'[d] \in {rest[d], "none"}
  BY <1>1, TypeNow
<1>7. WorkFacts'
  BY <1>1, <1>6, RestingFacts DEF InWork, Facts, WorkFacts
<1> QED
  BY <1>5, <1>7 DEF Facts

\* A close after the longest hold keeps the types and the facts about the work.
LEMMA TimeOutFacts == ASSUME Facts, NEW c \in Coins, TimeOut(c) PROVE Facts'
<1>1. /\ step = "manage" /\ step' = step /\ todo' = todo \ {<<c, "close">>}
      /\ Close(c) \/ CloseHalf(c) \/ UNCHANGED exchange
      /\ Pop(c) \/ UNCHANGED recs
      /\ Mishap("partial") \/ UNCHANGED suffered
      /\ UNCHANGED <<cfg, stored, filled, view, queue, batch>>
  BY DEF TimeOut
<1>2. recs' \in [Coins -> Records]
  BY <1>1, PopType, TypeNow DEF Facts
<1>3. /\ pos' \in [Coins -> Positions] /\ rest' = rest /\ stops' \in [Coins -> SUBSET StopOrders]
  BY <1>1, CloseType DEF Facts
<1>4. suffered' \subseteq cfg.mishaps
  BY <1>1, MishapType DEF Facts
<1>5. WorkTypeOK'
  BY <1>1, <1>2, <1>3, <1>4, TypeNow, TypeNext DEF stored
<1>6. WorkFacts'
  BY <1>1, <1>3, RestingFacts DEF InWork, Facts, WorkFacts
<1> QED
  BY <1>5, <1>6 DEF Facts

\* what the records name is counted
LEMMA CountFacts ==
    ASSUME NEW s
    PROVE  Count(recs, s) = Cardinality({c \in Coins : recs[c].side = s}) /\ Count(recs, s) \in Nat
<1>1. IsFiniteSet({c \in Coins : recs[c].side = s})
  BY ScalpBookAssumption, FS_Subset
<1> QED
  BY <1>1, FS_CardinalityType DEF Count

\* Starting the counters keeps the types and the facts about the work.
LEMMA BatchFacts == ASSUME Facts, StartBatch PROVE Facts'
<1>1. /\ step = "manage" /\ todo = {} /\ step' = "setups"
      /\ UNCHANGED <<cfg, exchange, stored, filled, view, recs, todo, queue>>
      /\ Mishap("kv") \/ UNCHANGED suffered
  BY DEF StartBatch
<1>2. batch' \in Batches
  <2>1. 0 \in 0..cfg.new /\ entries \in 0..cfg.new
    BY TypeNow, SettingFacts
  <2>2. Count(recs, "LONG") \in Nat /\ Count(recs, "SHORT") \in Nat
    BY CountFacts
  <2>3. PICK n \in {entries, 0} :
          batch' = [LONG |-> Count(recs, "LONG"), SHORT |-> Count(recs, "SHORT"), candle |-> n]
    BY DEF StartBatch
  <2> QED
    BY <2>1, <2>2, <2>3 DEF Batches
<1>3. suffered' \subseteq cfg.mishaps
  BY <1>1, MishapType DEF Facts
<1>4. WorkTypeOK'
  BY <1>1, <1>2, <1>3, TypeNow, TypeNext DEF stored, exchange, BookSteps
<1>5. WorkFacts'
  BY <1>1, RestingFacts DEF InWork, Facts, WorkFacts, exchange
<1> QED
  BY <1>4, <1>5 DEF Facts

\* steps that only move on to the next setup
LEMMA MoveOnFacts ==
    ASSUME Facts, step' \in {"setups", "save", "done", "count"}, todo = {},
           queue' = queue \/ (queue # <<>> /\ queue' = Tail(queue)),
           saved' \in {saved, recs}, entries' \in {entries, batch.candle}, suffered' \subseteq cfg.mishaps,
           UNCHANGED <<cfg, exchange, offered, filled, view, recs, todo, batch>>
    PROVE  Facts'
<1>1. queue' \in Seq(Setups) /\ Distinct(queue')
  BY SetupFacts, TypeNow DEF Facts, WorkFacts
<1>2. entries' \in 0..cfg.new
  BY TypeNow DEF Batches
<1>3. WorkTypeOK'
  BY <1>1, <1>2, TypeNow, TypeNext DEF exchange, BookSteps
<1>4. WorkFacts'
  BY <1>1, RestingFacts DEF InWork, Facts, WorkFacts, exchange
<1> QED
  BY <1>3, <1>4 DEF Facts

\* What changes neither the exchange nor a record keeps the types and the facts about the work.
LEMMA QuietFacts ==
    ASSUME Facts, TurnDown \/ KeepLevels \/ SaveCount \/ Save
    PROVE  Facts'
<1>1. todo = {}
  BY DEF TurnDown, KeepLevels, SaveCount, Save, Considers, Updates, Facts, WorkFacts
<1>2. CASE TurnDown \/ KeepLevels
  BY <1>1, <1>2, MoveOnFacts, TypeNow DEF TurnDown, KeepLevels, NextSetup, Considers, Updates, stored
<1>3. CASE SaveCount
  <2>1. suffered' \subseteq cfg.mishaps
    BY <1>3, MishapType DEF SaveCount, Facts
  <2> QED
    BY <1>1, <1>3, <2>1, MoveOnFacts DEF SaveCount, stored
<1>4. CASE Save
  <2>1. suffered' \subseteq cfg.mishaps
    BY <1>4, MishapType DEF Save, Facts
  <2> QED
    BY <1>1, <1>4, <2>1, MoveOnFacts DEF Save, stored
<1> QED
  BY <1>2, <1>3, <1>4

\* Deciding on a market entry keeps the types and the facts about the work.
LEMMA GoMarketFacts == ASSUME Facts, GoMarket PROVE Facts'
<1>1. /\ step = "setups" /\ step' = "open" /\ queue # <<>> /\ Mine = NoRec /\ view[Setup.coin] = Flat
      /\ Allows(batch, Setup.side) /\ Engine /\ todo = {}
      /\ UNCHANGED <<cfg, exchange, stored, filled, suffered, view, recs, todo, queue, batch>>
  BY DEF GoMarket, Enters, Considers, Engine, Facts, WorkFacts
<1>2. WorkTypeOK'
  BY <1>1, TypeNow, TypeNext DEF stored, exchange, BookSteps
<1>3. WorkFacts'
  BY <1>1, WorkingFacts DEF exchange, Mine
<1> QED
  BY <1>2, <1>3 DEF Facts

\* what an action on the setup at hand leaves is of its type
LEMMA SetupTypes ==
    ASSUME Facts, queue # <<>>, step \in Later, UNCHANGED <<cfg, stored, view, todo>>,
           pos' \in [Coins -> Positions], rest' \in [Coins -> Sides \union {"none"}],
           stops' \in [Coins -> SUBSET StopOrders], recs' \in [Coins -> Records],
           filled' \in {filled, filled + 1}, suffered' \subseteq cfg.mishaps, step' \in Later,
           batch' \in Batches, queue' \in {queue, Tail(queue)}
    PROVE  /\ WorkTypeOK' /\ Distinct(queue') /\ todo' = {}
<1>1. queue' \in Seq(Setups) /\ Distinct(queue')
  BY SetupFacts, TypeNow DEF Facts, WorkFacts
<1>2. filled' \in Nat
  BY TypeNow
<1>3. step' \in BookSteps
  BY DEF Later, Busy, InWork, BookSteps
<1>4. WorkTypeOK'
  BY <1>1, <1>2, <1>3, TypeNow, TypeNext DEF stored
<1> QED
  BY <1>1, <1>4 DEF Facts, WorkFacts, Later, Busy, InWork

\* an action that is done with the setup at hand
LEMMA DoneFacts ==
    ASSUME Facts, queue # <<>>, step \in Later, UNCHANGED <<cfg, stored, view, todo>>,
           pos' \in [Coins -> Positions], rest' \in [Coins -> Sides \union {"none"}],
           stops' \in [Coins -> SUBSET StopOrders], recs' \in [Coins -> Records],
           filled' \in {filled, filled + 1}, suffered' \subseteq cfg.mishaps,
           step' \in {"setups", "count", "save"},
           batch' \in Batches, queue' = Tail(queue), Engine => rest' = rest
    PROVE  Facts'
<1>1. WorkTypeOK' /\ Distinct(queue') /\ todo' = {}
  BY SetupTypes DEF Later, Busy, InWork
<1>2. Engine => \A c \in Coins : rest'[c] \in {rest[c], "none"}
  OBVIOUS
<1>3. WorkFacts'
  BY <1>1, <1>2, RestingFacts DEF InWork
<1> QED
  BY <1>1, <1>3 DEF Facts

\* setups are at hand in every step of an action on them
LEMMA AtHand ==
    ASSUME Facts, step \in InWork \/ Considers
    PROVE  /\ queue # <<>> /\ step \in Later /\ Setup.coin \in Coins /\ Setup.side \in Sides
           /\ todo = {} /\ Mine \in Records /\ cfg \in Settings
           /\ Setup.coin \notin CoinsOf(Tail(queue))
<1>1. queue # <<>> /\ step \in Later
  BY DEF Facts, WorkFacts, Considers, Later, Busy, InWork
<1> QED
  BY <1>1, TypeNow, SetupFacts DEF Facts, WorkFacts, Mine, Later, Busy, InWork

\* A fill in part keeps the types.
LEMMA PartTypes ==
    ASSUME Facts, NEW c \in Coins, NEW s \in Sides, NEW n \in 1..2, FillsInPart(c, s, n)
    PROVE  pos' \in [Coins -> Positions] /\ stops' \in [Coins -> SUBSET StopOrders]
<1>1. pos' \in [Coins -> Positions]
  <2>1. Traded(pos[c], s, n) \in Positions
    BY TypeNow, PartTraded
  <2> QED
    BY <2>1, TypeNow DEF FillsInPart
<1>2. stops' \in [Coins -> SUBSET StopOrders]
  <2>1. StopOf(2) \in StopOrders
    BY Seconds DEF Facts
  <2>2. StopsKept(c) \in SUBSET StopOrders /\ Attached(c, s) \in SUBSET StopOrders
    BY <2>1, TypeNow DEF StopsKept, Attached
  <2>3. PICK more \in {{}, Attached(c, s)} : stops' = [stops EXCEPT ![c] = StopsKept(c) \union more]
    BY DEF FillsInPart
  <2>4. StopsKept(c) \union more \in SUBSET StopOrders
    BY <2>2, <2>3
  <2> QED
    BY <2>3, <2>4, TypeNow
<1> QED
  BY <1>1, <1>2

\* A limit entry keeps the types and the facts about the work.
LEMMA PlaceLimitFacts == ASSUME Facts, PlaceLimit PROVE Facts'
<1> DEFINE c == Setup.coin
           s == Setup.side
<1>1. /\ Considers /\ ~Engine /\ Allows(batch, s) /\ UNCHANGED <<cfg, stored, view, todo>>
      /\ \/ /\ rest' = [rest EXCEPT ![c] = s] /\ filled' = filled + 1 /\ UNCHANGED <<pos, stops>>
            /\ \/ Record(c, Rec(s, "pending", FALSE)) /\ Counted /\ UNCHANGED suffered
               \/ Mishap("reply") /\ NextSetup("setups") /\ UNCHANGED <<recs, batch>>
         \/ /\ Trade(c, s) /\ stops' = [stops EXCEPT ![c] = {StopOf(2)}]
            /\ Record(c, Rec(s, "open", FALSE)) /\ Counted /\ UNCHANGED suffered
         \/ /\ FillsInPart(c, s, 1) /\ filled' = filled + 1 /\ UNCHANGED rest
            /\ Record(c, Rec(s, "open", FALSE)) /\ Counted /\ Mishap("part_fill")
  BY DEF PlaceLimit, Enters, Engine
<1>2. queue # <<>> /\ step \in Later /\ c \in Coins /\ s \in Sides
  BY <1>1, AtHand
<1>3. recs' \in [Coins -> Records]
  BY <1>1, <1>2, RecordType, RecFacts, TypeNow DEF Facts
<1>4. /\ pos' \in [Coins -> Positions] /\ rest' \in [Coins -> Sides \union {"none"}]
      /\ filled' \in {filled, filled + 1}
  <2>1. CASE Trade(c, s)
    BY <1>2, <2>1, TradeType, TypeNow DEF Facts, Trade
  <2>2. CASE rest' = [rest EXCEPT ![c] = s] /\ filled' = filled + 1 /\ UNCHANGED <<pos, stops>>
    BY <1>2, <2>2, TypeNow
  <2>3. CASE FillsInPart(c, s, 1) /\ filled' = filled + 1 /\ UNCHANGED rest
    BY <1>2, <2>3, PartTypes, TypeNow
  <2> QED
    BY <1>1, <2>1, <2>2, <2>3
<1>5. stops' \in [Coins -> SUBSET StopOrders]
  <2>1. StopOf(2) \in StopOrders
    BY Seconds DEF Facts
  <2>2. \/ stops' = stops \/ stops' = [stops EXCEPT ![c] = {StopOf(2)}]
        \/ FillsInPart(c, s, 1)
    BY <1>1
  <2> QED
    BY <1>2, <2>1, <2>2, PartTypes, TypeNow
<1>6. suffered' \subseteq cfg.mishaps
  BY <1>1, MishapType DEF Facts
<1>7. /\ batch' \in Batches /\ step' \in {"setups", "count"} /\ queue' = Tail(queue)
  BY <1>1, <1>2, CommitType, TypeNow DEF Counted, NextSetup, Batches
<1> QED
  BY <1>1, <1>2, <1>3, <1>4, <1>5, <1>6, <1>7, DoneFacts

\* A market entry keeps the types and the facts about the work.
LEMMA OpenMarketFacts == ASSUME Facts, NEW flip \in BOOLEAN, OpenMarket(flip) PROVE Facts'
<1> DEFINE c == Setup.coin
           s == Setup.side
           Given == queue' = Tail(queue) /\ step' \in {"save", "setups"} /\ UNCHANGED <<recs, batch>>
           Bare == UNCHANGED <<queue, batch>> /\ step' \in {"bare", "rebare"} /\ Record(c, Rec(s, "open", TRUE))
                   /\ (step' = "rebare" => "bare_flip" \in suffered')
           Entered == Record(c, Rec(s, "open", FALSE)) /\ Counted
<1>1. /\ step \in {"open", "reopen"} /\ UNCHANGED <<cfg, stored, view, todo>>
      /\ Given \/ Bare \/ Entered
      /\ Trade(c, s) \/ UNCHANGED <<pos, rest, filled>>
      /\ stops' \in {stops, [stops EXCEPT ![c] = {StopOf(2)}]}
      /\ \/ Mishap("reply") \/ Mishap("bare_flip") \/ UNCHANGED suffered
  BY DEF OpenMarket, exchange, NextSetup, Mishap
<1>2. /\ queue # <<>> /\ step \in Later /\ c \in Coins /\ s \in Sides /\ todo = {}
      /\ Allows(batch, s) /\ Engine
  BY <1>1, AtHand DEF Facts, WorkFacts, InWork
<1>3. recs' \in [Coins -> Records]
  BY <1>1, <1>2, RecordType, RecFacts, TypeNow DEF Facts
<1>4. pos' \in [Coins -> Positions] /\ rest' = rest /\ filled' \in {filled, filled + 1}
  BY <1>1, <1>2, TradeType, TypeNow DEF Facts, Trade
<1>5. stops' \in [Coins -> SUBSET StopOrders]
  <2>1. StopOf(2) \in StopOrders
    BY Seconds DEF Facts
  <2> QED
    BY <1>1, <1>2, <2>1, TypeNow
<1>6. suffered' \subseteq cfg.mishaps
  BY <1>1, MishapType DEF Facts
<1>7. CASE Given \/ Entered
  <2>1. batch' \in Batches /\ step' \in {"setups", "count", "save"} /\ queue' = Tail(queue)
    BY <1>2, <1>7, CommitType, TypeNow DEF Counted, NextSetup, Batches
  <2> QED
    BY <1>1, <1>2, <1>3, <1>4, <1>5, <1>6, <2>1, DoneFacts, TypeNow
<1>8. CASE Bare
  <2>1. WorkTypeOK'
    BY <1>1, <1>2, <1>3, <1>4, <1>5, <1>6, <1>8, SetupTypes, TypeNow DEF Later, Busy, InWork
  <2>2. recs'[c] = Rec(s, "open", TRUE)
    BY <1>2, <1>8, TypeNow DEF Record
  <2>3. recs'[c].state = "open"
    BY <2>2 DEF Rec
  <2>4. WorkFacts'
    BY <1>1, <1>2, <1>4, <1>8, <2>3, WorkingFacts
  <2> QED
    BY <2>1, <2>4 DEF Facts
<1> QED
  BY <1>1, <1>7, <1>8

\* Closing an entry that has no stop keeps the types and the facts about the work.
LEMMA CloseBareFacts == ASSUME Facts, NEW flip \in BOOLEAN, CloseBare(flip) PROVE Facts'
<1> DEFINE c == Setup.coin
<1>1. /\ step \in {"bare", "rebare"} /\ UNCHANGED <<cfg, stored, filled, suffered, view, todo>>
      /\ Close(c) \/ CloseHalf(c) \/ UNCHANGED exchange
      /\ Pop(c) \/ UNCHANGED recs
      /\ (NextSetup("save") /\ UNCHANGED batch) \/ Counted
  BY DEF CloseBare
<1>2. /\ queue # <<>> /\ step \in Later /\ c \in Coins /\ todo = {} /\ Allows(batch, Setup.side)
  BY <1>1, AtHand DEF Facts, WorkFacts, InWork
<1>3. recs' \in [Coins -> Records]
  BY <1>1, <1>2, PopType, TypeNow DEF Facts
<1>4. pos' \in [Coins -> Positions] /\ rest' = rest /\ stops' \in [Coins -> SUBSET StopOrders]
  BY <1>1, <1>2, CloseType DEF Facts
<1>5. batch' \in Batches /\ step' \in {"count", "save"} /\ queue' = Tail(queue)
  BY <1>1, <1>2, CommitType, TypeNow DEF Counted, NextSetup, Batches
<1> QED
  BY <1>1, <1>2, <1>3, <1>4, <1>5, DoneFacts, TypeNow

\* A flip's close keeps the types and the facts about the work.
LEMMA FlipCloseFacts == ASSUME Facts, FlipClose PROVE Facts'
<1> DEFINE c == Setup.coin
<1>1. /\ Considers /\ Mine.state = "open" /\ Engine
      /\ UNCHANGED <<cfg, stored, filled, suffered, view, recs, todo, batch>>
      /\ Close(c) \/ CloseHalf(c) \/ UNCHANGED exchange
      /\ NextSetup("save") \/ (UNCHANGED queue /\ step' = "left")
  BY DEF FlipClose, Flips, Engine
<1>2. /\ queue # <<>> /\ step \in Later /\ c \in Coins /\ todo = {}
  BY <1>1, AtHand
<1>3. pos' \in [Coins -> Positions] /\ rest' = rest /\ stops' \in [Coins -> SUBSET StopOrders]
  BY <1>1, <1>2, CloseType DEF Facts
<1>4. CASE NextSetup("save")
  BY <1>1, <1>2, <1>3, <1>4, DoneFacts, TypeNow DEF NextSetup
<1>5. CASE UNCHANGED queue /\ step' = "left"
  <2>1. WorkTypeOK'
    BY <1>1, <1>2, <1>3, <1>5, SetupTypes, TypeNow DEF Later, Busy, InWork
  <2>2. WorkFacts'
    BY <1>1, <1>2, <1>3, <1>5, WorkingFacts DEF Mine
  <2> QED
    BY <2>1, <2>2 DEF Facts
<1> QED
  BY <1>1, <1>4, <1>5

\* Looking at what a flip's close left keeps the types and the facts about the work.
LEMMA FlipLeftFacts == ASSUME Facts, FlipLeft PROVE Facts'
<1> DEFINE c == Setup.coin
<1>1. /\ step = "left" /\ UNCHANGED <<cfg, exchange, stored, filled, suffered, view, todo, batch>>
      /\ \/ NextSetup("save") /\ (UNCHANGED recs \/ Pop(c))
         \/ Pop(c) /\ Allows(batch, Setup.side) /\ step' = "reopen" /\ UNCHANGED queue
  BY DEF FlipLeft
<1>2. /\ queue # <<>> /\ step \in Later /\ c \in Coins /\ todo = {} /\ Engine
  BY <1>1, AtHand DEF Facts, WorkFacts, InWork
<1>3. recs' \in [Coins -> Records]
  BY <1>1, <1>2, PopType, TypeNow DEF Facts
<1>4. CASE NextSetup("save")
  BY <1>1, <1>2, <1>3, <1>4, DoneFacts, TypeNow DEF NextSetup, exchange
<1>5. CASE Pop(c) /\ Allows(batch, Setup.side) /\ step' = "reopen" /\ UNCHANGED queue
  <2>1. WorkTypeOK'
    BY <1>1, <1>2, <1>3, <1>5, SetupTypes, TypeNow DEF Later, Busy, InWork, exchange
  <2>2. recs'[c] = NoRec
    BY <1>2, <1>5, TypeNow DEF Pop
  <2>3. WorkFacts'
    BY <1>1, <1>2, <1>3, <1>5, <2>2, WorkingFacts DEF exchange
  <2> QED
    BY <2>1, <2>3 DEF Facts
<1> QED
  BY <1>1, <1>4, <1>5

\* a setup that goes the way of the position at hand
LEMMA SameWayFacts ==
    ASSUME Facts, SameWay
    PROVE  /\ queue # <<>> /\ step = "setups" /\ Setup.coin \in Coins /\ Setup.side \in Sides /\ todo = {}
           /\ Mine.state = "open" /\ Setup.side = Mine.side /\ view[Setup.coin].side = Mine.side
           /\ view[Setup.coin] # Flat /\ view[Setup.coin].size \in 1..MaxSize
           /\ Capped(view[Setup.coin].size + 2) \in 1..MaxSize
<1>1. /\ queue # <<>> /\ Setup.coin \in Coins /\ Setup.side \in Sides /\ todo = {}
      /\ Mine.state = "open" /\ Setup.side = Mine.side /\ view[Setup.coin].side = Mine.side
      /\ step = "setups"
  BY AtHand DEF SameWay, Updates, Held, Considers
<1>2. view[Setup.coin] \in Positions /\ Setup.side # "none"
  BY <1>1, TypeNow DEF Sides
<1>3. view[Setup.coin] # Flat /\ view[Setup.coin].size \in 1..MaxSize
  BY <1>1, <1>2, PositionFacts, SizeFacts, FlatFacts
<1>4. Capped(view[Setup.coin].size + 2) \in 1..MaxSize
  BY <1>3, SizeFacts
<1> QED
  BY <1>1, <1>3, <1>4

\* Placing a stop keeps the types.
LEMMA PlaceStopType ==
    ASSUME Facts, NEW n \in 1..MaxSize, Setup.coin \in Coins, PlaceStop(n)
    PROVE  stops' \in [Coins -> SUBSET StopOrders]
<1>1. StopOf(n) \in StopOrders
  BY StopFacts
<1>2. stops[Setup.coin] \union {StopOf(n)} \in SUBSET StopOrders
  BY <1>1, TypeNow
<1> QED
  BY <1>2, TypeNow DEF PlaceStop

\* A tighter stop keeps the types and the facts about the work.
LEMMA TightenFacts == ASSUME Facts, TightenStop PROVE Facts'
<1>1. /\ SameWay /\ PlaceStop(view[Setup.coin].size) /\ step' = "swap" /\ UNCHANGED <<pos, rest>>
      /\ UNCHANGED <<cfg, stored, filled, suffered, view, recs, todo, queue, batch>>
  BY DEF TightenStop, PlaceStop
<1>2. stops' \in [Coins -> SUBSET StopOrders]
  BY <1>1, SameWayFacts, PlaceStopType
<1>3. WorkTypeOK'
  BY <1>1, <1>2, SameWayFacts, SetupTypes, TypeNow DEF Later, Busy, InWork
<1>4. WorkFacts'
  BY <1>1, SameWayFacts, WorkingFacts DEF Mine
<1> QED
  BY <1>3, <1>4 DEF Facts

\* Dropping the old stops keeps the types and the facts about the work.
LEMMA DropFacts == ASSUME Facts, DropOldStops PROVE Facts'
<1>1. /\ step = "swap" /\ UNCHANGED <<cfg, pos, rest, stored, filled, view, recs, todo, batch>>
      /\ queue' = Tail(queue) /\ step' \in {"count", "save"}
      /\ \E gone \in SUBSET Listed : stops' = [stops EXCEPT ![Setup.coin] = @ \ gone]
      /\ Mishap("cancel") \/ UNCHANGED suffered
  BY DEF DropOldStops, NextSetup
<1>2. queue # <<>> /\ step \in Later /\ Setup.coin \in Coins
  BY <1>1, AtHand DEF InWork
<1>3. stops' \in [Coins -> SUBSET StopOrders]
  <2>1. PICK gone \in SUBSET Listed : stops' = [stops EXCEPT ![Setup.coin] = @ \ gone]
    BY <1>1
  <2>2. stops[Setup.coin] \ gone \in SUBSET StopOrders
    BY <1>2, TypeNow
  <2> QED
    BY <2>1, <2>2, TypeNow
<1>4. suffered' \subseteq cfg.mishaps
  BY <1>1, MishapType DEF Facts
<1> QED
  BY <1>1, <1>2, <1>3, <1>4, DoneFacts, TypeNow

\* An add keeps the types and the facts about the work.
LEMMA AddFacts == ASSUME Facts, Add PROVE Facts'
<1>1. /\ SameWay /\ Mine.adds < cfg.adds /\ AllowsAdd(batch) /\ Trade(Setup.coin, Setup.side)
      /\ UNCHANGED <<cfg, stops, stored, view, recs, todo, batch>>
      /\ Mishap("stale_add") \/ Mishap("reply") \/ UNCHANGED suffered
      /\ (step' = "cover" /\ UNCHANGED queue) \/ NextSetup("save")
  BY DEF Add
<1>2. pos' \in [Coins -> Positions] /\ filled' = filled + 1 /\ rest' = rest
  BY <1>1, SameWayFacts, TradeType DEF Facts, Trade
<1>3. suffered' \subseteq cfg.mishaps
  BY <1>1, MishapType DEF Facts
<1>4. CASE step' = "cover" /\ UNCHANGED queue
  <2>1. WorkTypeOK'
    BY <1>1, <1>2, <1>3, <1>4, SameWayFacts, SetupTypes, TypeNow DEF Later, Busy, InWork
  <2>2. WorkFacts'
    BY <1>1, <1>2, <1>4, SameWayFacts, WorkingFacts DEF Mine
  <2> QED
    BY <2>1, <2>2 DEF Facts
<1>5. CASE NextSetup("save")
  BY <1>1, <1>2, <1>3, <1>5, SameWayFacts, DoneFacts, TypeNow DEF NextSetup, Later, Busy, InWork
<1> QED
  BY <1>1, <1>4, <1>5

\* an add is being covered or undone
LEMMA AddAtHand ==
    ASSUME Facts, step \in {"cover", "uncover"}
    PROVE  /\ queue # <<>> /\ Setup.coin \in Coins /\ Setup.side \in Sides /\ todo = {}
           /\ Mine.state = "open" /\ Mine # NoRec /\ Mine \in Records /\ view[Setup.coin].side = Mine.side
           /\ Mine.adds < cfg.adds /\ AllowsAdd(batch) /\ cfg \in Settings
           /\ view[Setup.coin].size \in 1..MaxSize /\ Capped(view[Setup.coin].size + 2) \in 1..MaxSize
           /\ CommittedAdd(batch) \in Batches
<1>1. /\ queue # <<>> /\ Setup.coin \in Coins /\ Setup.side \in Sides /\ todo = {}
      /\ Mine.state = "open" /\ Mine \in Records /\ view[Setup.coin].side = Mine.side
      /\ Mine.adds < cfg.adds /\ AllowsAdd(batch) /\ cfg \in Settings
  BY AtHand DEF Facts, WorkFacts, InWork
<1>2. Mine # NoRec /\ Mine.side # "none"
  BY <1>1, RecordFacts
<1>3. view[Setup.coin] \in Positions
  BY <1>1, TypeNow
<1>4. view[Setup.coin].size \in 1..MaxSize
  BY <1>1, <1>2, <1>3, PositionFacts, SizeFacts
<1>5. Capped(view[Setup.coin].size + 2) \in 1..MaxSize
  BY <1>4, SizeFacts
<1>6. CommittedAdd(batch) \in Batches
  BY <1>1, CommitType DEF Batches
<1> QED
  BY <1>1, <1>2, <1>4, <1>5, <1>6

\* Covering an add keeps the types and the facts about the work.
LEMMA CoverFacts == ASSUME Facts, CoverAdd PROVE Facts'
<1> DEFINE c == Setup.coin
<1>1. step = "cover" /\ UNCHANGED <<cfg, stored, filled, view, todo, queue>>
  BY DEF CoverAdd
<1>2. CASE /\ PlaceStop(pos[c].size) \/ PlaceStop(Capped(view[c].size + 2))
           /\ Record(c, [Mine EXCEPT !.adds = @ + 1, !.bare = FALSE])
           /\ batch' = CommittedAdd(batch) /\ step' = "swap" /\ UNCHANGED suffered
  <2>1. pos[c].size > 0 /\ UNCHANGED <<pos, rest>>
    BY <1>2 DEF PlaceStop
  <2>2. pos[c].size \in 1..MaxSize
    BY <1>1, <2>1, AddAtHand, TypeNow, PositionFacts, SizeFacts
  <2>3. stops' \in [Coins -> SUBSET StopOrders]
    BY <1>1, <1>2, <2>2, AddAtHand, PlaceStopType
  <2>4. /\ [Mine EXCEPT !.adds = @ + 1, !.bare = FALSE] \in Records
        /\ [Mine EXCEPT !.adds = @ + 1, !.bare = FALSE].state = "open"
        /\ [Mine EXCEPT !.adds = @ + 1, !.bare = FALSE].side = Mine.side
    BY <1>1, AddAtHand, ChangedRecord
  <2>5. recs' \in [Coins -> Records] /\ recs'[c] = [Mine EXCEPT !.adds = @ + 1, !.bare = FALSE]
    BY <1>1, <1>2, <2>4, AddAtHand, TypeNow DEF Record
  <2>6. WorkTypeOK'
    BY <1>1, <1>2, <2>1, <2>3, <2>5, AddAtHand, SetupTypes, TypeNow DEF Later, Busy, InWork
  <2>7. WorkFacts'
    BY <1>1, <1>2, <2>1, <2>4, <2>5, AddAtHand, WorkingFacts
  <2> QED
    BY <2>6, <2>7 DEF Facts
<1>3. CASE Mishap("unwind") /\ step' = "uncover" /\ UNCHANGED <<exchange, recs, batch>>
  <2>1. suffered' \subseteq cfg.mishaps /\ "unwind" \in suffered'
    BY <1>3, MishapType DEF Facts, Mishap
  <2>2. WorkTypeOK'
    BY <1>1, <1>3, <2>1, AddAtHand, SetupTypes, TypeNow DEF Later, Busy, InWork, exchange
  <2>3. WorkFacts'
    BY <1>1, <1>3, <2>1, AddAtHand, WorkingFacts DEF exchange, Mine
  <2> QED
    BY <2>2, <2>3 DEF Facts
<1> QED
  BY <1>2, <1>3 DEF CoverAdd

\* Undoing an add keeps the types and the facts about the work.
LEMMA UndoFacts == ASSUME Facts, UndoAdd PROVE Facts'
<1> DEFINE c == Setup.coin
<1>1. /\ step = "uncover" /\ UNCHANGED <<cfg, rest, stops, stored, filled, suffered, view, todo>>
      /\ batch' = CommittedAdd(batch) /\ step' = "save" /\ queue' = Tail(queue)
      /\ \/ pos[c].size > view[c].size /\ pos' = [pos EXCEPT ![c].size = view[c].size]
         \/ UNCHANGED pos
      /\ UNCHANGED recs \/ Record(c, [Mine EXCEPT !.bare = TRUE])
  BY DEF UndoAdd, NextSetup
<1>2. pos' \in [Coins -> Positions]
  <2>1. CASE UNCHANGED pos
    BY <2>1, TypeNow
  <2>2. CASE pos[c].size > view[c].size /\ pos' = [pos EXCEPT ![c].size = view[c].size]
    <3>1. c \in Coins /\ view[c].size \in 1..MaxSize
      BY <1>1, AddAtHand
    <3>2. pos[c] \in Positions /\ pos[c] # Flat
      BY <2>2, <3>1, TypeNow, FlatFacts, SizeFacts
    <3>3. [pos[c] EXCEPT !.size = view[c].size] \in Positions
      BY <3>1, <3>2 DEF Positions
    <3> QED
      BY <2>2, <3>1, <3>3, TypeNow
  <2> QED
    BY <1>1, <2>1, <2>2
<1>3. recs' \in [Coins -> Records]
  <2>1. [Mine EXCEPT !.bare = TRUE] \in Records
    BY <1>1, AddAtHand, ChangedRecord
  <2> QED
    BY <1>1, <2>1, AddAtHand, TypeNow DEF Record
<1> QED
  BY <1>1, <1>2, <1>3, AddAtHand, DoneFacts, TypeNow DEF Later, Busy, InWork

\* the exchange and the candle move on while the pass stands still
LEMMA StillFacts ==
    ASSUME Facts, UNCHANGED <<cfg, saved, locals>>,
           pos' \in [Coins -> Positions], rest' \in [Coins -> Sides \union {"none"}],
           stops' \in [Coins -> SUBSET StopOrders], entries' \in 0..cfg.new, offered' \subseteq Coins,
           filled' \in Nat, suffered \subseteq suffered', suffered' \subseteq cfg.mishaps,
           \A c \in Coins : rest'[c] \in {rest[c], "none"}
    PROVE  Facts'
<1>1. WorkTypeOK'
  BY TypeNow, TypeNext DEF locals
<1>2. WorkFacts'
  BY DEF Facts, WorkFacts, locals, Engine, Setup, Mine, Distinct, Allows, AllowsAdd
<1> QED
  BY <1>1, <1>2 DEF Facts

\* A fill keeps the types and the facts about the work.
LEMMA FillFacts == ASSUME Facts, NEW c \in Coins, Fill(c) PROVE Facts'
<1>1. /\ rest[c] # "none" /\ rest' = [rest EXCEPT ![c] = "none"]
      /\ pos' = [pos EXCEPT ![c] = Traded(@, rest[c], 2)]
      /\ stops' = [stops EXCEPT ![c] = (IF pos'[c].side = pos[c].side THEN @ ELSE {})
                                          \union (IF pos'[c].side = rest[c] THEN {StopOf(2)} ELSE {})]
      /\ Mishap("late_fill") \/ UNCHANGED suffered
      /\ UNCHANGED <<cfg, stored, filled, locals>>
  BY DEF Fill, StopsKept, Attached
<1>2. pos' \in [Coins -> Positions]
  <2>1. Traded(pos[c], rest[c], 2) \in Positions
    BY <1>1, TypeNow, TradedFacts
  <2> QED
    BY <1>1, <2>1, TypeNow
<1>3. stops' \in [Coins -> SUBSET StopOrders]
  <2>1. StopOf(2) \in StopOrders
    BY Seconds DEF Facts
  <2>2. (IF pos'[c].side = pos[c].side THEN stops[c] ELSE {})
           \union (IF pos'[c].side = rest[c] THEN {StopOf(2)} ELSE {}) \in SUBSET StopOrders
    BY <2>1, TypeNow
  <2> QED
    BY <1>1, <2>2, TypeNow
<1>4. suffered' \subseteq cfg.mishaps /\ suffered \subseteq suffered'
  BY <1>1, MishapType DEF Facts
<1>5. rest' \in [Coins -> Sides \union {"none"}] /\ \A d \in Coins : rest'[d] \in {rest[d], "none"}
  BY <1>1, TypeNow
<1> QED
  BY <1>1, <1>2, <1>3, <1>4, <1>5, StillFacts, TypeNow DEF stored

\* A fill in part keeps the types and the facts about the work.
LEMMA PartFacts == ASSUME Facts, NEW c \in Coins, FillPart(c) \/ FillLoose(c) PROVE Facts'
<1>1. /\ UNCHANGED <<cfg, stored, filled, locals>>
      /\ Mishap("part_fill") \/ UNCHANGED suffered
      /\ rest' \in {rest, [rest EXCEPT ![c] = "none"]}
  BY DEF FillPart, FillLoose
<1>2. PICK s \in Sides, n \in 1..2 : FillsInPart(c, s, n)
  <2>1. CASE FillPart(c)
    BY <2>1, TypeNow DEF FillPart
  <2>2. CASE FillLoose(c)
    BY <2>2 DEF FillLoose
  <2> QED
    BY <2>1, <2>2
<1>3. pos' \in [Coins -> Positions] /\ stops' \in [Coins -> SUBSET StopOrders]
  BY <1>2, PartTypes
<1>4. suffered' \subseteq cfg.mishaps /\ suffered \subseteq suffered'
  BY <1>1, MishapType DEF Facts
<1>5. rest' \in [Coins -> Sides \union {"none"}] /\ \A d \in Coins : rest'[d] \in {rest[d], "none"}
  BY <1>1, TypeNow
<1> QED
  BY <1>1, <1>3, <1>4, <1>5, StillFacts, TypeNow DEF stored

\* A stop or target that fills keeps the types and the facts about the work.
LEMMA ExitFacts == ASSUME Facts, NEW c \in Coins, Exit(c) PROVE Facts'
<1>1. Close(c) /\ UNCHANGED <<cfg, stored, filled, locals, suffered>>
  BY DEF Exit
<1>2. pos' \in [Coins -> Positions] /\ rest' = rest /\ stops' \in [Coins -> SUBSET StopOrders]
  BY <1>1, CloseType DEF Facts
<1> QED
  BY <1>1, <1>2, StillFacts, TypeNow DEF stored

\* A new candle keeps the types and the facts about the work.
LEMMA CandleFacts == ASSUME Facts, NewCandle PROVE Facts'
<1>1. /\ offered' = {} /\ entries' = 0 /\ filled' = 0
      /\ UNCHANGED <<cfg, exchange, saved, suffered, locals>>
  BY DEF NewCandle
<1>2. entries' \in 0..cfg.new
  BY <1>1, TypeNow, SettingFacts
<1> QED
  BY <1>1, <1>2, StillFacts, TypeNow DEF exchange

\* The types and the facts about the work hold at first.
LEMMA FactsInit == BookInit => Facts
<1> SUFFICES ASSUME BookInit PROVE Facts
  OBVIOUS
<1>1. cfg \in Settings
  BY DEF BookInit
<1>2. /\ [c \in Coins |-> Flat] \in [Coins -> Positions] /\ NoView \in [Coins -> Positions]
      /\ NoRecs \in [Coins -> Records]
  BY <1>1, FlatFacts, NoRecFacts DEF NoView, NoRecs
<1>3. 0 \in 0..cfg.new /\ cfg.mishaps \subseteq AllMishaps
  BY <1>1, SettingFacts
<1>4. WorkTypeOK
  BY <1>1, <1>2, <1>3 DEF BookInit, WorkTypeOK, NoBatch, BookSteps
<1>5. WorkFacts
  BY DEF BookInit, WorkFacts, InWork, Distinct
<1> QED
  BY <1>4, <1>5 DEF Facts

\* Every step keeps the types and the facts about the work.
LEMMA FactsStep == Facts /\ [BookNext]_vars => Facts'
<1> SUFFICES ASSUME Facts, [BookNext]_vars PROVE Facts'
  OBVIOUS
<1>1. CASE UNCHANGED vars
  BY <1>1, StillFacts, TypeNow DEF vars, stored, exchange
<1>2. CASE Begin \/ Stop
  BY <1>2, BeginFacts, StopActionFacts
<1>3. CASE \E c \in Coins : Fill(c) \/ FillPart(c) \/ FillLoose(c) \/ Exit(c)
  BY <1>3, FillFacts, PartFacts, ExitFacts
<1>4. CASE NewCandle
  BY <1>4, CandleFacts
<1>5. CASE Work
  <2>1. CASE ReadAccount \/ Sweep \/ (\E c \in Coins : CancelEntry(c) \/ TimeOut(c)) \/ StartBatch
    BY <2>1, ReadAccountFacts, SweepFacts, CancelFacts, TimeOutFacts, BatchFacts
  <2>2. CASE TurnDown \/ GoMarket \/ PlaceLimit \/ \E flip \in BOOLEAN : OpenMarket(flip) \/ CloseBare(flip)
    BY <2>2, QuietFacts, GoMarketFacts, PlaceLimitFacts, OpenMarketFacts, CloseBareFacts
  <2>3. CASE FlipClose \/ FlipLeft \/ KeepLevels \/ TightenStop \/ Add
    BY <2>3, FlipCloseFacts, FlipLeftFacts, QuietFacts, TightenFacts, AddFacts
  <2>4. CASE CoverAdd \/ UndoAdd \/ DropOldStops \/ SaveCount \/ Save
    BY <2>4, CoverFacts, UndoFacts, DropFacts, QuietFacts
  <2> QED
    BY <1>5, <2>1, <2>2, <2>3, <2>4 DEF Work
<1> QED
  BY <1>1, <1>2, <1>3, <1>4, <1>5 DEF BookNext

\* what has happened stays so
LEMMA StepGrows == ASSUME Facts, [BookNext]_vars PROVE suffered \subseteq suffered' /\ cfg' = cfg
<1>1. \A m : Mishap(m) => suffered \subseteq suffered'
  BY DEF Mishap
<1>2. CASE UNCHANGED vars
  BY <1>2 DEF vars
<1>3. CASE Begin \/ Stop \/ NewCandle \/ \E c \in Coins : Fill(c) \/ FillPart(c) \/ FillLoose(c) \/ Exit(c)
  BY <1>1, <1>3 DEF Begin, Stop, NewCandle, Fill, FillPart, FillLoose, Exit
<1>4. CASE ReadAccount \/ Sweep \/ (\E c \in Coins : CancelEntry(c) \/ TimeOut(c)) \/ StartBatch
  BY <1>1, <1>4 DEF ReadAccount, Sweep, CancelEntry, TimeOut, StartBatch
<1>5. CASE TurnDown \/ GoMarket \/ PlaceLimit \/ \E flip \in BOOLEAN : OpenMarket(flip) \/ CloseBare(flip)
  BY <1>1, <1>5 DEF TurnDown, GoMarket, PlaceLimit, OpenMarket, CloseBare
<1>6. CASE FlipClose \/ FlipLeft \/ KeepLevels \/ TightenStop \/ Add \/ CoverAdd \/ UndoAdd \/ DropOldStops
  BY <1>1, <1>6 DEF FlipClose, FlipLeft, KeepLevels, TightenStop, Add, CoverAdd, UndoAdd, DropOldStops
<1>7. CASE SaveCount \/ Save
  BY <1>1, <1>7 DEF SaveCount, Save
<1> QED
  BY <1>2, <1>3, <1>4, <1>5, <1>6, <1>7 DEF BookNext, Work

-----------------------------------------------------------------------------
(* What holds of each coin. *)

CoinInv(c) ==
    /\ Mild => MildCoin(c)
    /\ Mild \/ Steady => Unmoved(c)
    /\ Steady => SteadyCoin(c)
    /\ Whole => OnRecord(c)
    /\ Sized => RightSize(c)

\* fewer mishaps, more hope
LEMMA Grows ==
    ASSUME suffered \subseteq suffered', cfg' = cfg
    PROVE  /\ (Mild' => Mild) /\ (Whole' => Whole) /\ (Sized' => Sized) /\ (Steady' => Steady)
           /\ (Whole => Mild) /\ (Sized => Mild)
           /\ Engine' <=> Engine
           /\ suffered' = {} => suffered = {}
BY DEF Mild, Whole, Sized, Steady, Engine

\* What rests loose, and that nothing does until a mishap leaves it there.
LooseInv ==
    /\ loose \in [Coins -> [Sides -> Nat]]
    /\ Mild \/ Engine => \A c \in Coins : loose[c] = Nothing

\* while the positions or the stops are what they should be nothing rests loose
LEMMA NothingLoose == ASSUME LooseInv, Mild \/ Steady, NEW c \in Coins PROVE loose[c] = Nothing
<1>1. Mild \/ Engine
  BY DEF Steady, Engine, Mild
<1> QED
  BY <1>1 DEF LooseInv

\* a coin an action leaves alone
LEMMA Bystander ==
    ASSUME Facts, NEW c \in Coins, CoinInv(c), cfg' = cfg, suffered \subseteq suffered',
           pos'[c] = pos[c], rest'[c] = rest[c], stops'[c] = stops[c],
           \/ /\ UNCHANGED <<saved, locals>>
           \/ /\ step \notin Read /\ step' \notin Read /\ saved'[c] = saved[c]
           \/ /\ step \in Busy /\ step' \in Busy /\ (step' = "manage" => step = "manage" /\ todo' \subseteq todo)
              /\ recs'[c] = recs[c] /\ view'[c] = view[c] /\ saved'[c] = saved[c]
              /\ c \in Ahead' => c \in Ahead
              /\ step \in {"cover", "uncover"} => c # Setup.coin
              /\ step' \in {"cover", "uncover"} => c # Setup'.coin
           \/ /\ step \in Later /\ step' \in Later
              /\ recs'[c] = recs[c] /\ view'[c] = view[c]
              /\ c \in Ahead' => c \in Ahead
              /\ step \in {"cover", "uncover"} => c # Setup.coin
              /\ step' \in {"cover", "uncover"} => c # Setup'.coin
    PROVE  CoinInv(c)'
<1>1. /\ (Mild' => Mild) /\ (Whole' => Whole) /\ (Sized' => Sized) /\ (Steady' => Steady)
      /\ Engine' <=> Engine
  BY Grows
<1>2. /\ Covered(c)' <=> Covered(c)
      /\ Small(c)' <=> Small(c)
      /\ Overgrown(c)' <=> Overgrown(c)
      /\ Side(c)' = Side(c)
  BY DEF Covered, Small, Overgrown, Side
<1>3. CASE UNCHANGED <<saved, locals>>
  <2>1. /\ step' = step /\ view' = view /\ recs' = recs /\ todo' = todo /\ queue' = queue /\ saved' = saved
    BY <1>3 DEF locals
  <2>2. BookOf(c)' = BookOf(c) /\ Setup' = Setup /\ Ahead' = Ahead
    BY <2>1 DEF BookOf, Setup, Ahead, CoinsOf
  <2>3. Mild => (MildCoin(c)' <=> MildCoin(c))
    BY <1>2, <2>1, <2>2 DEF MildCoin, Flagged
  <2>4. Mild' \/ Steady' => Unmoved(c)'
    BY <1>1, <2>1, <2>2 DEF CoinInv, Unmoved
  <2>5. SteadyCoin(c) => SteadyCoin(c)'
    BY <1>1, <1>2, <2>1, <2>2 DEF SteadyCoin
  <2>6. (OnRecord(c) => OnRecord(c)') /\ (RightSize(c) => RightSize(c)')
    BY <1>2, <2>1, <2>2 DEF OnRecord, RightSize
  <2> QED
    BY <1>1, <2>3, <2>4, <2>5, <2>6 DEF CoinInv
<1>4. CASE step \notin Read /\ step' \notin Read /\ saved'[c] = saved[c]
  <2>1. BookOf(c) = saved[c] /\ BookOf(c)' = saved[c]
    BY <1>4 DEF BookOf, Read
  <2>2. /\ step # "manage" /\ step' # "manage" /\ step' # "orders" /\ step' \notin Busy
        /\ step \notin {"cover", "uncover"} /\ step' \notin {"cover", "uncover"}
    BY <1>4 DEF Read, Busy, InWork
  <2>3. MildCoin(c) => MildCoin(c)'
    BY <1>2, <1>4, <2>1, <2>2 DEF MildCoin, Flagged
  <2>4. Unmoved(c)'
    BY <2>2 DEF Unmoved
  <2>5. SteadyCoin(c) => SteadyCoin(c)'
    BY <1>1, <1>2, <1>4, <2>1, <2>2 DEF SteadyCoin
  <2>6. (OnRecord(c) => OnRecord(c)') /\ (RightSize(c) => RightSize(c)')
    BY <1>2, <2>1, <2>2 DEF OnRecord, RightSize
  <2> QED
    BY <1>1, <2>3, <2>4, <2>5, <2>6 DEF CoinInv
<1>5. CASE /\ step \in Busy /\ step' \in Busy
           /\ step' = "manage" => step = "manage" /\ todo' \subseteq todo /\ saved'[c] = saved[c]
           /\ recs'[c] = recs[c] /\ view'[c] = view[c]
           /\ c \in Ahead' => c \in Ahead
           /\ step \in {"cover", "uncover"} => c # Setup.coin
           /\ step' \in {"cover", "uncover"} => c # Setup'.coin
  <2>1. BookOf(c) = recs[c] /\ BookOf(c)' = recs[c]
    BY <1>5 DEF BookOf
  <2>2. step \in Read /\ step' \in Read /\ step' # "orders"
    BY <1>5 DEF Read, Busy, InWork
  <2>3. MildCoin(c) => MildCoin(c)'
    BY <1>2, <1>5, <2>1, <2>2 DEF MildCoin, Flagged
  <2>4. Mild' \/ Steady' => Unmoved(c)'
    BY <1>1, <1>5, <2>2 DEF CoinInv, Unmoved
  <2>5. SteadyCoin(c) => SteadyCoin(c)'
    BY <1>1, <1>2, <1>5, <2>1, <2>2 DEF SteadyCoin
  <2>6. (OnRecord(c) => OnRecord(c)') /\ (RightSize(c) => RightSize(c)')
    BY <1>2, <1>5, <2>1 DEF OnRecord, RightSize
  <2> QED
    BY <1>1, <2>3, <2>4, <2>5, <2>6 DEF CoinInv
<1>6. step \in Later => step \in Busy
  BY DEF Later
<1>7. step' \in Later => step' \in Busy /\ step' # "manage"
  BY DEF Later
<1> QED
  BY <1>3, <1>4, <1>5, <1>6, <1>7

\* a coin is left well by an action on its setup
Settled(c) ==
    /\ Mild' =>
         /\ rest'[c] # "none" => pos'[c] = Flat /\ recs'[c].state = "pending" /\ recs'[c].side = rest'[c]
         /\ view[c] # Flat => rest'[c] = "none"
         /\ pos'[c] # Flat => view[c] # Flat \/ recs'[c] # NoRec
         /\ recs'[c].side # "none" /\ pos'[c].side = recs'[c].side /\ ~Covered(c)' =>
              recs'[c].bare \/ step' \in {"cover", "uncover"}
    /\ Steady' /\ ~Engine =>
         /\ pos'[c] = Flat \/ rest'[c] # "none" => Small(c)'
         /\ rest'[c] # "none" => view[c].size <= 2
    /\ Whole' => (Side(c)' # "none" => recs'[c].side = Side(c)')
    /\ Sized' =>
         /\ pos'[c].size <= 2 * (1 + cfg.adds)
         /\ recs'[c] # NoRec =>
              \/ pos'[c].size <= 2 * (1 + recs'[c].adds)
              \/ step' = "cover" /\ pos'[c].size <= 2 * (2 + recs'[c].adds)

\* the coin whose setup has been considered
LEMMA SettledCoin ==
    ASSUME Facts, NEW c \in Coins, cfg' = cfg, suffered \subseteq suffered', step' \in Later,
           step' \in InWork => c = Setup'.coin, c \notin Ahead', view'[c] = view[c], Settled(c)
    PROVE  CoinInv(c)'
<1>1. /\ step' \in Busy /\ step' # "manage" /\ step' # "orders" /\ step' \in Read
      /\ Engine' <=> Engine
  BY Grows DEF Later, Busy, InWork, Read
<1>2. BookOf(c)' = recs'[c]
  BY <1>1 DEF BookOf
<1>a. step' \in {"cover", "uncover"} => c = Setup'.coin
  BY DEF InWork
<1>3. Mild' => MildCoin(c)'
  BY <1>1, <1>2, <1>a DEF MildCoin, Flagged, Settled
<1>4. Unmoved(c)'
  BY <1>1 DEF Unmoved
<1>5. Steady' => SteadyCoin(c)'
  BY <1>1, <1>2 DEF SteadyCoin, Settled
<1>6. (Whole' => OnRecord(c)') /\ (Sized' => RightSize(c)')
  BY <1>1, <1>2, <1>a DEF OnRecord, RightSize, Settled
<1> QED
  BY <1>3, <1>4, <1>5, <1>6 DEF CoinInv

Hands == (Mild \/ Steady => Careful) /\ (Mild => MildWork)
CoinsInv == Hands /\ \A c \in Coins : CoinInv(c)

\* what the invariant says of a coin while the setups are considered
LEMMA AtCoin ==
    ASSUME Facts, NEW c \in Coins, CoinInv(c), step \in Later
    PROVE  /\ Mild =>
                /\ rest[c] # "none" => pos[c] = Flat /\ recs[c].state = "pending" /\ recs[c].side = rest[c]
                /\ view[c] # Flat => rest[c] = "none"
                /\ pos[c] # Flat => view[c] # Flat \/ recs[c] # NoRec
                /\ recs[c].side # "none" /\ pos[c].side = recs[c].side /\ ~Covered(c) =>
                     recs[c].bare \/ (step \in {"cover", "uncover"} /\ c = Setup.coin)
           /\ c \in Ahead /\ ((Mild /\ view[c] # Flat) \/ (Engine /\ (Mild \/ Steady))) =>
                pos[c].size <= view[c].size
           /\ Steady /\ c \in Ahead /\ view[c] # Flat => pos[c].size <= view[c].size \/ Overgrown(c)
           /\ Steady /\ ~Engine =>
                /\ pos[c] = Flat \/ rest[c] # "none" => Small(c)
                /\ rest[c] # "none" => view[c].size <= 2
                /\ view[c] = Flat /\ c \in Ahead => Small(c) /\ (rest[c] # "none" => pos[c] = Flat)
           /\ Whole => (Side(c) # "none" => recs[c].side = Side(c))
           /\ Sized =>
                /\ pos[c].size <= 2 * (1 + cfg.adds)
                /\ recs[c] # NoRec =>
                     \/ pos[c].size <= 2 * (1 + recs[c].adds)
                     \/ step = "cover" /\ c = Setup.coin /\ pos[c].size <= 2 * (2 + recs[c].adds)
<1>1. step \in Busy /\ step # "manage" /\ step # "orders" /\ step \in Read /\ BookOf(c) = recs[c]
  BY DEF Later, Busy, InWork, Read, BookOf
<1>2. Mild => MildCoin(c)
  BY DEF CoinInv
<1>3. Mild \/ Steady => Unmoved(c)
  BY DEF CoinInv
<1>4. Steady => SteadyCoin(c)
  BY DEF CoinInv
<1>5. (Whole => OnRecord(c)) /\ (Sized => RightSize(c))
  BY DEF CoinInv
<1>6. Mild => /\ rest[c] # "none" => pos[c] = Flat /\ recs[c].state = "pending" /\ recs[c].side = rest[c]
              /\ view[c] # Flat => rest[c] = "none"
              /\ pos[c] # Flat => view[c] # Flat \/ recs[c] # NoRec
              /\ recs[c].side # "none" /\ pos[c].side = recs[c].side /\ ~Covered(c) =>
                   recs[c].bare \/ (step \in {"cover", "uncover"} /\ c = Setup.coin)
  BY <1>1, <1>2 DEF MildCoin, Flagged
<1>7. c \in Ahead /\ ((Mild /\ view[c] # Flat) \/ (Engine /\ (Mild \/ Steady))) => pos[c].size <= view[c].size
  BY <1>1, <1>3 DEF Unmoved
<1>8. /\ Steady /\ c \in Ahead /\ view[c] # Flat => pos[c].size <= view[c].size \/ Overgrown(c)
      /\ Steady /\ ~Engine =>
           /\ pos[c] = Flat \/ rest[c] # "none" => Small(c)
           /\ rest[c] # "none" => view[c].size <= 2
           /\ view[c] = Flat /\ c \in Ahead => Small(c) /\ (rest[c] # "none" => pos[c] = Flat)
  BY <1>1, <1>4 DEF SteadyCoin
<1>9. Whole => (Side(c) # "none" => recs[c].side = Side(c))
  BY <1>1, <1>5 DEF OnRecord
<1>10. Sized =>
         /\ pos[c].size <= 2 * (1 + cfg.adds)
         /\ recs[c] # NoRec =>
              \/ pos[c].size <= 2 * (1 + recs[c].adds)
              \/ step = "cover" /\ c = Setup.coin /\ pos[c].size <= 2 * (2 + recs[c].adds)
  BY <1>1, <1>5 DEF RightSize
<1> QED
  BY <1>6, <1>7, <1>8, <1>9, <1>10

\* the setups an action on the one at hand leaves
LEMMA AheadNext ==
    ASSUME Facts, step \in InWork \/ Considers,
           \/ step' \in InWork /\ queue' = queue
           \/ step' \notin InWork /\ queue' = Tail(queue)
    PROVE  /\ Setup.coin \notin Ahead' /\ Ahead' \subseteq Ahead
           /\ Considers => Setup.coin \in Ahead
           /\ step' \in InWork => Setup' = Setup
<1>1. /\ queue # <<>> /\ queue \in Seq(Setups) /\ Distinct(queue) /\ cfg \in Settings
      /\ Considers => step \notin InWork
  BY AtHand, TypeNow DEF Facts, WorkFacts, Considers, InWork
<1>2. /\ Setup.coin \in CoinsOf(queue) /\ CoinsOf(Tail(queue)) \subseteq CoinsOf(queue)
      /\ Setup.coin \notin CoinsOf(Tail(queue))
  BY <1>1, SetupFacts
<1>3. Ahead' = CoinsOf(Tail(queue))
  BY DEF Ahead, CoinsOf
<1>4. Ahead \in {CoinsOf(queue), CoinsOf(Tail(queue))} /\ (Considers => Ahead = CoinsOf(queue))
  BY <1>1 DEF Ahead
<1>5. step' \in InWork => Setup' = Setup
  BY DEF Setup
<1> QED
  BY <1>2, <1>3, <1>4, <1>5

\* an action on the setup at hand keeps what holds of the coins
LEMMA SetupStep ==
    ASSUME Facts, CoinsInv, step \in InWork \/ Considers, step' \in Later,
           NEW c \in Coins, c = Setup.coin,
           \/ step' \in InWork /\ queue' = queue
           \/ step' \notin InWork /\ queue' = Tail(queue),
           UNCHANGED <<cfg, view>>, suffered \subseteq suffered',
           \A d \in Coins : d # c =>
               pos'[d] = pos[d] /\ rest'[d] = rest[d] /\ stops'[d] = stops[d] /\ recs'[d] = recs[d],
           Settled(c), Mild' \/ Steady' => Careful', Mild' => MildWork'
    PROVE  CoinsInv'
<1>1. /\ Setup.coin \notin Ahead' /\ Ahead' \subseteq Ahead
      /\ step' \in InWork => Setup' = Setup
  BY AheadNext
<1>2. Setup.coin \in Coins /\ step \in Later
  BY AtHand
<1>3. CoinInv(c)'
  <2>1. c \notin Ahead' /\ (step' \in InWork => c = Setup'.coin) /\ Settled(c)
    BY <1>1
  <2> QED
    BY <2>1, SettledCoin
<1>4. ASSUME NEW d \in Coins, d # c PROVE CoinInv(d)'
  <2>1. CoinInv(d)
    BY DEF CoinsInv
  <2>2. /\ d \in Ahead' => d \in Ahead
        /\ step' \in {"cover", "uncover"} => d # Setup'.coin
    BY <1>1, <1>4 DEF InWork
  <2> QED
    BY <1>2, <1>4, <2>1, <2>2, Bystander
<1>5. Hands'
  BY DEF Hands
<1>6. \A d \in Coins : CoinInv(d)'
  BY <1>3, <1>4
<1> QED
  BY <1>5, <1>6 DEF CoinsInv

\* Each action on the setup at hand, for the coin c = Setup.coin

\* What recording and dropping do to each coin.
LEMMA PutAt ==
    ASSUME Facts, NEW c \in Coins
    PROVE  /\ \A s : Trade(c, s) =>
                /\ pos'[c] = Traded(pos[c], s, 2) /\ rest' = rest
                /\ \A d \in Coins : d # c => pos'[d] = pos[d]
           /\ \A r : Record(c, r) => recs'[c] = r /\ \A d \in Coins : d # c => recs'[d] = recs[d]
           /\ Pop(c) => recs'[c] = NoRec /\ \A d \in Coins : d # c => recs'[d] = recs[d]
           /\ \A S : stops' = [stops EXCEPT ![c] = S] =>
                stops'[c] = S /\ \A d \in Coins : d # c => stops'[d] = stops[d]
           /\ \A s : rest' = [rest EXCEPT ![c] = s] =>
                rest'[c] = s /\ \A d \in Coins : d # c => rest'[d] = rest[d]
<1>1. /\ pos \in [Coins -> Positions] /\ recs \in [Coins -> Records]
      /\ stops \in [Coins -> SUBSET StopOrders] /\ rest \in [Coins -> Sides \union {"none"}]
  BY TypeNow
<1> QED
  BY <1>1 DEF Trade, Record, Pop

\* a position becomes smaller
LEMMA LessAt ==
    ASSUME Facts, NEW c \in Coins
    PROVE  /\ Close(c) => /\ pos'[c] = Flat /\ stops'[c] = {} /\ rest' = rest
                          /\ \A d \in Coins : d # c => pos'[d] = pos[d] /\ stops'[d] = stops[d]
           /\ CloseHalf(c) => /\ pos[c] # Flat /\ pos'[c] # Flat /\ pos'[c].side = pos[c].side
                              /\ pos'[c].size <= pos[c].size /\ pos'[c].size \in Nat
                              /\ stops' = stops /\ rest' = rest
                              /\ \A d \in Coins : d # c => pos'[d] = pos[d]
<1>1. /\ pos \in [Coins -> Positions] /\ stops \in [Coins -> SUBSET StopOrders]
  BY TypeNow
<1>2. ASSUME CloseHalf(c)
      PROVE  /\ pos[c] # Flat /\ pos'[c] # Flat /\ pos'[c].side = pos[c].side
             /\ pos'[c].size <= pos[c].size /\ pos'[c].size \in Nat
  <2>1. pos[c] \in [side : Sides, size : 1..MaxSize] /\ pos[c].size > 1
    BY <1>1, <1>2, FlatFacts DEF CloseHalf, Positions
  <2>2. pos'[c] = [pos[c] EXCEPT !.size = pos[c].size \div 2]
    BY <1>1, <1>2 DEF CloseHalf
  <2>3. pos'[c].side = pos[c].side /\ pos'[c].size = pos[c].size \div 2
    BY <2>1, <2>2
  <2>4. pos[c].size \div 2 \in Nat /\ pos[c].size \div 2 <= pos[c].size /\ pos[c].size \div 2 > 0
    BY <2>1, SizeFacts
  <2> QED
    BY <2>1, <2>3, <2>4, FlatFacts
<1> QED
  BY <1>1, <1>2 DEF Close, CloseHalf

\* positions have sizes, and a flat one has none
LEMMA Sizes ==
    ASSUME Facts, NEW c \in Coins
    PROVE  /\ pos[c].size \in Nat /\ view[c].size \in Nat /\ cfg.adds \in Nat /\ recs[c].adds \in Nat
           /\ pos[c] \in Positions /\ view[c] \in Positions /\ recs[c] \in Records
           /\ Flat.size = 0 /\ Flat.side = "none" /\ NoRec.side = "none" /\ NoRec.state = "none"
           /\ pos[c] = Flat <=> pos[c].side = "none"
           /\ pos[c] = Flat <=> pos[c].size = 0
           /\ view[c] = Flat <=> view[c].side = "none"
           /\ recs[c] = NoRec <=> recs[c].side = "none"
           /\ recs[c] = NoRec <=> recs[c].state = "none"
           /\ recs[c].adds <= cfg.adds
           /\ \A o \in stops[c] : o.size \in Nat
<1>1. /\ pos[c] \in Positions /\ view[c] \in Positions /\ recs[c] \in Records
      /\ cfg \in Settings /\ stops[c] \subseteq StopOrders
  BY TypeNow
<1>2. /\ pos[c].size \in Nat /\ (pos[c] = Flat <=> pos[c].side = "none")
      /\ pos[c] = Flat <=> pos[c].size = 0
  BY <1>1, PositionFacts
<1>3. view[c].size \in Nat /\ (view[c] = Flat <=> view[c].side = "none")
  BY <1>1, PositionFacts
<1>4. /\ recs[c].adds \in Nat /\ (recs[c] = NoRec <=> recs[c].side = "none")
      /\ recs[c] = NoRec <=> recs[c].state = "none"
      /\ recs[c].adds <= cfg.adds
  BY <1>1, RecordFacts
<1>5. \A o \in stops[c] : o.size \in Nat
  BY <1>1, SizeFacts DEF StopOrders
<1> QED
  BY <1>1, <1>2, <1>3, <1>4, <1>5, FlatFacts, NoRecFacts, SettingFacts

\* steps at which nothing is said of the coin at hand
LEMMA NoHands ==
    ASSUME step' \notin {"open", "reopen", "cover", "uncover", "swap"}
    PROVE  Careful' /\ MildWork'
BY DEF Careful, MildWork

\* a coin that is neither held nor recorded is entered
LEMMA EnteredSettled ==
    ASSUME Facts, NEW c \in Coins, NEW s \in Sides, UNCHANGED <<cfg, view>>, view[c] # Flat => rest[c] = "none",
           Mild' \/ Steady' => pos[c] = Flat,
           pos'[c] = Traded(pos[c], s, 2), rest'[c] = rest[c], Mild' => rest[c] = "none",
           rest[c] # "none" => view[c].size <= 2,
           stops'[c] = {StopOf(2)} \/ (Engine /\ recs'[c].bare),
           recs'[c].side = s, recs'[c].state = "open", recs'[c].adds = 0, suffered \subseteq suffered'
    PROVE  Settled(c)
<1>1. /\ Mild' => pos'[c].side = s /\ pos'[c].size = 2
      /\ Steady' => pos'[c].side = s /\ pos'[c].size = 2
  BY TradedFacts, FlatFacts, Sizes
<1>2. s # "none" /\ recs'[c] # NoRec
  BY Sizes DEF Sides
<1>3. StopOf(2).size = 2
  BY SizeFacts, StopFacts
<1>4. stops'[c] = {StopOf(2)} => ((Mild' \/ Steady') => Covered(c)' /\ Small(c)')
  BY <1>1, <1>3 DEF Covered, Small
<1>5. Whole' => Side(c)' = s
  <2>1. Whole' => Mild'
    BY DEF Whole, Mild
  <2> QED
    BY <1>1, <2>1 DEF Side
<1>6. Sized' => pos'[c].size <= 2 * (1 + cfg.adds) /\ pos'[c].size <= 2 * (1 + recs'[c].adds)
  <2>1. Sized' => Mild'
    BY DEF Sized, Mild
  <2> QED
    BY <1>1, <2>1, Sizes
<1>7. pos'[c].size = 2 => pos'[c] # Flat
  BY FlatFacts
<1> QED
  BY <1>1, <1>2, <1>4, <1>5, <1>6, <1>7 DEF Settled, Engine

\* While a setup is worked on, its coin is no longer ahead.
LEMMA AheadNow ==
    ASSUME Facts, Considers
    PROVE  Setup.coin \in Ahead
<1>1. queue # <<>> /\ queue \in Seq(Setups) /\ cfg \in Settings /\ step \notin InWork
  BY TypeNow DEF Considers, InWork
<1> QED
  BY <1>1, SetupFacts DEF Ahead

\* after a mishap that breaks them all nothing is promised
LEMMA HopeLost ==
    ASSUME NEW c, Mishap("reply")
    PROVE  Settled(c)
<1>1. "reply" \in suffered'
  BY DEF Mishap
<1>2. ~Mild' /\ ~Whole' /\ ~Sized' /\ ~Steady'
  BY <1>1 DEF Mild, Whole, Sized, Steady
<1> QED
  BY <1>2 DEF Settled

\* after an entry has filled in part nothing is promised of limit entries
LEMMA CoinsLost ==
    ASSUME ~Mild', ~Steady'
    PROVE  CoinsInv'
<1>1. ~Whole' /\ ~Sized'
  BY DEF Mild, Whole, Sized
<1> QED
  BY <1>1 DEF CoinsInv, Hands, CoinInv

\* a fill in part breaks what the limit entries promise
LEMMA PartLost ==
    ASSUME cfg' = cfg, ~Engine, Mishap("part_fill")
    PROVE  ~Mild' /\ ~Steady'
BY DEF Mishap, Mild, Steady, Engine

\* a limit entry that fills at once; what an earlier one left resting may fill later
LEMMA LimitFilledSettled ==
    ASSUME Facts, NEW c \in Coins, NEW s \in Sides, UNCHANGED <<cfg, view>>, view[c] = Flat,
           Mild' => pos[c] = Flat /\ rest[c] = "none",
           Steady' => Small(c) /\ (rest[c] # "none" => pos[c] = Flat),
           pos'[c] = Traded(pos[c], s, 2), rest'[c] = rest[c], stops'[c] = {StopOf(2)},
           recs'[c].side = s, recs'[c].state = "open", recs'[c].adds = 0
    PROVE  Settled(c)
<1>1. pos[c] = Flat => pos'[c].side = s /\ pos'[c].size = 2
  BY TradedFacts, Sizes
<1>2. s # "none" /\ recs'[c] # NoRec /\ view[c].size = 0
  BY Sizes DEF Sides
<1>3. StopOf(2).size = 2
  BY SizeFacts, StopFacts
<1>4. Mild' => Covered(c)'
  BY <1>1, <1>3 DEF Covered
<1>5. Steady' /\ (pos'[c] = Flat \/ rest'[c] # "none") => Small(c)'
  BY <1>1, <1>3, Sizes DEF Small
<1>6. (Whole' => Mild') /\ (Sized' => Mild')
  BY DEF Sized, Mild, Whole
<1>7. Mild' => Side(c)' = s
  BY <1>1 DEF Side
<1>8. Sized' => pos'[c].size <= 2 * (1 + cfg.adds) /\ pos'[c].size <= 2 * (1 + recs'[c].adds)
  BY <1>1, <1>6, Sizes
<1> QED
  BY <1>1, <1>2, <1>4, <1>5, <1>6, <1>7, <1>8 DEF Settled

\* the swap of the stops is safe when the new one covers, or none of the old ones does
LEMMA SwapCareful ==
    ASSUME NEW c \in Coins, step' = "swap", Setup'.coin = c, Fresh(c)' \/ Overgrown(c)'
    PROVE  Careful'
<1>1. /\ Fresh(c)' <=> Fresh(Setup.coin)'
      /\ Overgrown(c)' <=> Overgrown(Setup.coin)'
  BY DEF Fresh, Overgrown
<1> QED
  BY <1>1 DEF Careful

\* A limit entry keeps what holds of the coins.
LEMMA PlaceLimitCoins == ASSUME Facts, CoinsInv, PlaceLimit PROVE CoinsInv'
<1>1. /\ Considers /\ Mine = NoRec /\ view[Setup.coin] = Flat /\ ~Engine
      /\ UNCHANGED <<cfg, view>>
  BY DEF PlaceLimit, Enters, Engine
<1>2. PICK c \in Coins, s \in Sides : c = Setup.coin /\ s = Setup.side /\ step \in Later
  BY <1>1, AtHand
<1>3. CoinInv(c)
  BY DEF CoinsInv
<1>4. view[c] = Flat /\ recs[c] = NoRec /\ c \in Ahead
  BY <1>1, <1>2, AheadNow DEF Mine
<1>5. /\ Mild => pos[c] = Flat /\ rest[c] = "none"
      /\ Steady => Small(c) /\ (rest[c] # "none" => pos[c] = Flat)
  BY <1>1, <1>2, <1>3, <1>4, AtCoin, Sizes
<1>6. CASE /\ rest' = [rest EXCEPT ![c] = s] /\ UNCHANGED <<pos, stops>>
           /\ Record(c, Rec(s, "pending", FALSE)) /\ Counted /\ UNCHANGED suffered
  <2>1. /\ rest'[c] = s /\ pos'[c] = pos[c] /\ stops'[c] = stops[c] /\ recs'[c] = Rec(s, "pending", FALSE)
        /\ \A d \in Coins : d # c =>
             pos'[d] = pos[d] /\ rest'[d] = rest[d] /\ stops'[d] = stops[d] /\ recs'[d] = recs[d]
    BY <1>6, PutAt
  <2>2. recs'[c].side = s /\ recs'[c].state = "pending" /\ recs'[c].adds = 0
    BY <2>1 DEF Rec
  <2>3. (Mild' => Mild) /\ (Steady' => Steady) /\ (Whole' => Mild) /\ (Sized' => Mild)
    BY <1>1, <1>6, Grows
  <2>4. Small(c)' <=> Small(c)
    BY <2>1 DEF Small
  <2>5. Mild => pos'[c].side # s
    BY <1>5, <2>1, Sizes DEF Sides
  <2>6. Side(c)' = s
    BY <2>1 DEF Side, Sides
  <2>7. /\ Sized' => pos'[c].size <= 2 * (1 + cfg.adds) /\ pos'[c].size <= 2 * (1 + recs'[c].adds)
        /\ view[c].size <= 2
    <3>1. Sized' => pos'[c].size = 0
      BY <1>5, <2>1, <2>3, Sizes
    <3>2. cfg.adds \in Nat /\ view[c].size = 0
      BY <1>4, Sizes
    <3> QED
      BY <2>2, <3>1, <3>2
  <2>8. Settled(c)
    BY <1>4, <1>5, <2>1, <2>2, <2>3, <2>4, <2>5, <2>6, <2>7 DEF Settled
  <2>9. step' = "count" /\ queue' = Tail(queue)
    BY <1>6 DEF Counted, NextSetup
  <2> QED
    BY <1>1, <1>2, <1>6, <2>1, <2>8, <2>9, SetupStep, NoHands DEF Later, Busy, InWork
<1>7. CASE /\ Trade(c, s) /\ stops' = [stops EXCEPT ![c] = {StopOf(2)}]
           /\ Record(c, Rec(s, "open", FALSE)) /\ Counted /\ UNCHANGED suffered
  <2>1. /\ rest'[c] = rest[c] /\ pos'[c] = Traded(pos[c], s, 2) /\ stops'[c] = {StopOf(2)}
        /\ recs'[c] = Rec(s, "open", FALSE)
        /\ \A d \in Coins : d # c =>
             pos'[d] = pos[d] /\ rest'[d] = rest[d] /\ stops'[d] = stops[d] /\ recs'[d] = recs[d]
    BY <1>7, PutAt
  <2>2. recs'[c].side = s /\ recs'[c].state = "open" /\ recs'[c].adds = 0
    BY <2>1 DEF Rec
  <2>3. (Mild' => Mild) /\ (Steady' => Steady) /\ (Whole' => Mild) /\ (Sized' => Mild)
    BY <1>1, <1>7, Grows
  <2>5. Mild' \/ (Steady' /\ rest[c] # "none") => pos[c] = Flat
    BY <1>5, <2>3
  <2>6. Settled(c)
    BY <1>1, <1>2, <1>4, <1>5, <1>7, <2>1, <2>2, <2>3, <2>5, LimitFilledSettled
  <2>9. step' = "count" /\ queue' = Tail(queue)
    BY <1>7 DEF Counted, NextSetup
  <2> QED
    BY <1>1, <1>2, <1>7, <2>1, <2>6, <2>9, SetupStep, NoHands DEF Later, Busy, InWork
<1>8. CASE /\ rest' = [rest EXCEPT ![c] = s] /\ UNCHANGED <<pos, stops>>
           /\ Mishap("reply") /\ NextSetup("setups") /\ UNCHANGED <<recs, batch>>
  <2>1. \A d \in Coins : d # c =>
             pos'[d] = pos[d] /\ rest'[d] = rest[d] /\ stops'[d] = stops[d] /\ recs'[d] = recs[d]
    BY <1>8, PutAt
  <2>2. Settled(c)
    BY <1>8, HopeLost
  <2>3. suffered \subseteq suffered'
    BY <1>8 DEF Mishap
  <2>4. step' = "setups" /\ queue' = Tail(queue)
    BY <1>8 DEF NextSetup
  <2> QED
    BY <1>1, <1>2, <2>1, <2>2, <2>3, <2>4, SetupStep, NoHands DEF Later, Busy, InWork
<1>9. CASE Mishap("part_fill")
  BY <1>1, <1>9, PartLost, CoinsLost
<1> QED
  BY <1>2, <1>6, <1>7, <1>8, <1>9 DEF PlaceLimit

\* A market entry keeps what holds of the coins.
LEMMA OpenMarketCoins == ASSUME Facts, CoinsInv, NEW flip \in BOOLEAN, OpenMarket(flip) PROVE CoinsInv'
<1>1. step \in {"open", "reopen"} /\ UNCHANGED <<cfg, view>> /\ Mine = NoRec /\ Engine
  BY DEF OpenMarket, Facts, WorkFacts
<1>2. PICK c \in Coins, s \in Sides : c = Setup.coin /\ s = Setup.side /\ step \in Later /\ step \in InWork
  BY <1>1, AtHand DEF InWork
<1>3. CoinInv(c) /\ recs[c] = NoRec /\ rest[c] = "none" /\ Hands
  BY <1>1, <1>2 DEF CoinsInv, Facts, WorkFacts, Mine
<1>4. Mild \/ Steady => pos[c] = Flat
  BY <1>1, <1>2, <1>3 DEF Hands, Careful
<1> DEFINE Given == step' \in {"save", "setups"} /\ queue' = Tail(queue) /\ UNCHANGED recs
<1>5. CASE Given /\ UNCHANGED <<exchange, suffered>>
  <2>1. (Mild' => Mild) /\ (Steady' => Steady) /\ (Whole' => Whole) /\ (Sized' => Sized) /\ (Sized => Mild)
    BY <1>1, <1>5, Grows
  <2>2. /\ pos'[c] = pos[c] /\ rest'[c] = rest[c] /\ stops'[c] = stops[c] /\ recs'[c] = recs[c]
        /\ Side(c)' = Side(c)
    BY <1>5 DEF exchange, Side
  <2>3. Settled(c)
    BY <1>1, <1>2, <1>3, <1>4, <2>1, <2>2, AtCoin, Sizes DEF Settled, Engine
  <2> QED
    BY <1>1, <1>2, <1>5, <2>3, SetupStep, NoHands DEF Later, Busy, InWork, exchange
<1>6. CASE Given /\ Trade(c, s) /\ UNCHANGED stops /\ Mishap("reply")
  <2>1. \A d \in Coins : d # c =>
             pos'[d] = pos[d] /\ rest'[d] = rest[d] /\ stops'[d] = stops[d] /\ recs'[d] = recs[d]
    BY <1>6, PutAt
  <2>2. Settled(c)
    BY <1>6, HopeLost
  <2>3. suffered \subseteq suffered'
    BY <1>6 DEF Mishap
  <2> QED
    BY <1>1, <1>2, <1>6, <2>1, <2>2, <2>3, SetupStep, NoHands DEF Later, Busy, InWork
<1>7. CASE /\ Trade(c, s) /\ stops' = [stops EXCEPT ![c] = {StopOf(2)}]
           /\ Record(c, Rec(s, "open", FALSE)) /\ Counted /\ UNCHANGED suffered
  <2>1. /\ rest'[c] = rest[c] /\ pos'[c] = Traded(pos[c], s, 2) /\ stops'[c] = {StopOf(2)}
        /\ recs'[c] = Rec(s, "open", FALSE)
        /\ \A d \in Coins : d # c =>
             pos'[d] = pos[d] /\ rest'[d] = rest[d] /\ stops'[d] = stops[d] /\ recs'[d] = recs[d]
    BY <1>7, PutAt
  <2>2. recs'[c].side = s /\ recs'[c].state = "open" /\ recs'[c].adds = 0
    BY <2>1 DEF Rec
  <2>3. (Mild' => Mild) /\ (Steady' => Steady)
    BY <1>1, <1>7, Grows
  <2>4. Settled(c)
    BY <1>1, <1>2, <1>3, <1>4, <1>7, <2>1, <2>2, <2>3, EnteredSettled
  <2>9. step' = "count" /\ queue' = Tail(queue)
    BY <1>7 DEF Counted, NextSetup
  <2> QED
    BY <1>1, <1>2, <1>7, <2>1, <2>4, <2>9, SetupStep, NoHands DEF Later, Busy, InWork
<1>8. CASE /\ Trade(c, s) /\ stops' \in {stops, [stops EXCEPT ![c] = {StopOf(2)}]}
           /\ Record(c, Rec(s, "open", TRUE)) /\ step' \in {"bare", "rebare"}
           /\ Mishap("bare_flip") \/ UNCHANGED suffered
           /\ UNCHANGED queue
  <2>1. /\ rest'[c] = rest[c] /\ pos'[c] = Traded(pos[c], s, 2)
        /\ recs'[c] = Rec(s, "open", TRUE)
        /\ \A d \in Coins : d # c =>
             pos'[d] = pos[d] /\ rest'[d] = rest[d] /\ stops'[d] = stops[d] /\ recs'[d] = recs[d]
    BY <1>8, PutAt
  <2>2. recs'[c].side = s /\ recs'[c].state = "open" /\ recs'[c].adds = 0 /\ recs'[c].bare
    BY <2>1 DEF Rec
  <2>3. suffered \subseteq suffered'
    BY <1>8 DEF Mishap
  <2>4. (Mild' => Mild) /\ (Steady' => Steady)
    BY <1>1, <2>3, Grows
  <2>5. Settled(c)
    BY <1>1, <1>2, <1>3, <1>4, <1>8, <2>1, <2>2, <2>3, <2>4, EnteredSettled
  <2> QED
    BY <1>1, <1>2, <1>8, <2>1, <2>3, <2>5, SetupStep, NoHands DEF Later, Busy, InWork
<1> QED
  BY <1>2, <1>5, <1>6, <1>7, <1>8 DEF OpenMarket, NextSetup

\* a close of the coin at hand, taken, taken in part or refused
LEMMA LessSettled ==
    ASSUME Facts, NEW c \in Coins, CoinInv(c), step \in Later, step \notin {"cover", "uncover"}, Engine,
           Close(c) \/ CloseHalf(c) \/ UNCHANGED exchange,
           recs'[c] = recs[c] \/ (recs'[c] = NoRec /\ pos'[c] = Flat), UNCHANGED <<cfg, suffered, view>>
    PROVE  /\ Settled(c)
           /\ \A d \in Coins : d # c => pos'[d] = pos[d] /\ rest'[d] = rest[d] /\ stops'[d] = stops[d]
<1>1. /\ rest[c] = "none" /\ rest' = rest /\ pos'[c].size <= pos[c].size /\ pos'[c].size \in Nat
      /\ pos'[c] = Flat \/ (pos'[c].side = pos[c].side /\ stops'[c] = stops[c] /\ pos[c] # Flat)
  <2>1. rest[c] = "none"
    BY DEF Facts, WorkFacts
  <2>2. CASE Close(c)
    BY <2>1, <2>2, LessAt, Sizes
  <2>3. CASE CloseHalf(c)
    BY <2>1, <2>3, LessAt, Sizes
  <2>4. CASE UNCHANGED exchange
    BY <2>1, <2>4, Sizes DEF exchange
  <2> QED
    BY <2>2, <2>3, <2>4
<1>2. \A d \in Coins : d # c => pos'[d] = pos[d] /\ rest'[d] = rest[d] /\ stops'[d] = stops[d]
  BY LessAt DEF exchange
<1>3. (Mild' => Mild) /\ (Whole' => Whole) /\ (Sized' => Sized)
  BY Grows
<1>4. pos'[c] # Flat /\ ~Covered(c)' => ~Covered(c)
  <2>1. pos'[c] # Flat => \A o \in stops[c] : o.size >= pos[c].size => o.size >= pos'[c].size
    BY <1>1, Sizes
  <2> QED
    BY <1>1, <2>1 DEF Covered
<1>5. pos'[c] = Flat => pos'[c].side = "none" /\ pos'[c].size = 0
  BY FlatFacts
<1>6. Mild' =>
         /\ pos'[c] # Flat => view[c] # Flat \/ recs'[c] # NoRec
         /\ recs'[c].side # "none" /\ pos'[c].side = recs'[c].side /\ ~Covered(c)' => recs'[c].bare
  BY <1>1, <1>3, <1>4, <1>5, AtCoin, Sizes
<1>7. Whole' => (Side(c)' # "none" => recs'[c].side = Side(c)')
  <2>1. Side(c)' = pos'[c].side /\ Side(c) = pos[c].side
    BY <1>1 DEF Side
  <2> QED
    BY <1>1, <1>3, <1>5, <2>1, AtCoin
<1>8. Sized' =>
         /\ pos'[c].size <= 2 * (1 + cfg.adds)
         /\ recs'[c] # NoRec => pos'[c].size <= 2 * (1 + recs'[c].adds)
  <2>1. /\ pos[c].size \in Nat /\ cfg.adds \in Nat /\ recs[c].adds \in Nat
    BY Sizes
  <2>2. Sized => /\ pos[c].size <= 2 * (1 + cfg.adds)
                 /\ recs[c] # NoRec => pos[c].size <= 2 * (1 + recs[c].adds)
    BY AtCoin
  <2>3. recs'[c] # NoRec => recs'[c] = recs[c]
    OBVIOUS
  <2> QED
    BY <1>1, <1>3, <2>1, <2>2, <2>3
<1> QED
  BY <1>1, <1>2, <1>6, <1>7, <1>8 DEF Settled

\* Closing an entry that has no stop keeps what holds of the coins.
LEMMA CloseBareCoins == ASSUME Facts, CoinsInv, NEW flip \in BOOLEAN, CloseBare(flip) PROVE CoinsInv'
<1>1. /\ step \in {"bare", "rebare"} /\ Engine /\ UNCHANGED <<cfg, suffered, view>>
      /\ step' \in {"save", "count"} /\ queue' = Tail(queue)
  BY DEF CloseBare, Facts, WorkFacts, NextSetup, Counted
<1>2. PICK c \in Coins : c = Setup.coin /\ step \in Later /\ step \in InWork
  BY <1>1, AtHand DEF InWork
<1>3. CoinInv(c)
  BY DEF CoinsInv
<1>4. \/ Close(c) /\ (Pop(c) \/ UNCHANGED recs)
      \/ (CloseHalf(c) \/ UNCHANGED exchange) /\ UNCHANGED recs
  BY <1>2 DEF CloseBare
<1>5. /\ recs'[c] = recs[c] \/ (recs'[c] = NoRec /\ pos'[c] = Flat)
      /\ \A d \in Coins : d # c => recs'[d] = recs[d]
  BY <1>4, PutAt, LessAt
<1>6. /\ Settled(c)
      /\ \A d \in Coins : d # c => pos'[d] = pos[d] /\ rest'[d] = rest[d] /\ stops'[d] = stops[d]
  BY <1>1, <1>2, <1>3, <1>4, <1>5, LessSettled
<1> QED
  BY <1>1, <1>2, <1>5, <1>6, SetupStep, NoHands DEF Later, Busy, InWork

\* A flip's close keeps what holds of the coins.
LEMMA FlipCloseCoins == ASSUME Facts, CoinsInv, FlipClose PROVE CoinsInv'
<1>1. /\ Considers /\ Engine /\ UNCHANGED <<cfg, suffered, view, recs>>
      /\ (step' = "save" /\ queue' = Tail(queue)) \/ (step' = "left" /\ queue' = queue)
  BY DEF FlipClose, Flips, NextSetup, Engine
<1>2. PICK c \in Coins : c = Setup.coin /\ step \in Later /\ step = "setups"
  BY <1>1, AtHand DEF Considers
<1>3. CoinInv(c)
  BY DEF CoinsInv
<1>4. Close(c) \/ CloseHalf(c) \/ UNCHANGED exchange
  BY <1>2 DEF FlipClose
<1>5. /\ Settled(c)
      /\ \A d \in Coins : d # c => pos'[d] = pos[d] /\ rest'[d] = rest[d] /\ stops'[d] = stops[d]
  BY <1>1, <1>2, <1>3, <1>4, LessSettled
<1> QED
  BY <1>1, <1>2, <1>5, SetupStep, NoHands DEF Later, Busy, InWork

\* Looking at what a flip's close left keeps what holds of the coins.
LEMMA FlipLeftCoins == ASSUME Facts, CoinsInv, FlipLeft PROVE CoinsInv'
<1>1. /\ step = "left" /\ Engine /\ UNCHANGED <<cfg, exchange, suffered, view>>
  BY DEF FlipLeft, Facts, WorkFacts
<1>2. PICK c \in Coins : c = Setup.coin /\ step \in Later /\ step \in InWork
  BY <1>1, AtHand DEF InWork
<1>3. CoinInv(c)
  BY DEF CoinsInv
<1>4. \/ step' = "save" /\ queue' = Tail(queue) /\ (UNCHANGED recs \/ (pos[c] = Flat /\ Pop(c)))
      \/ step' = "reopen" /\ queue' = queue /\ pos[c] = Flat /\ Pop(c)
  BY <1>2 DEF FlipLeft, NextSetup
<1>5. /\ recs'[c] = recs[c] \/ (recs'[c] = NoRec /\ pos'[c] = Flat)
      /\ \A d \in Coins : d # c => recs'[d] = recs[d]
  BY <1>1, <1>4, PutAt DEF exchange
<1>6. /\ Settled(c)
      /\ \A d \in Coins : d # c => pos'[d] = pos[d] /\ rest'[d] = rest[d] /\ stops'[d] = stops[d]
  BY <1>1, <1>2, <1>3, <1>5, LessSettled
<1>7. step' \in {"save", "reopen"}
  BY <1>4
<1>8. Careful' /\ MildWork'
  <2>1. step' = "reopen" => pos'[Setup'.coin] = Flat
    BY <1>1, <1>2, <1>4 DEF exchange, Setup
  <2> QED
    BY <1>7, <2>1 DEF Careful, MildWork
<1> QED
  BY <1>1, <1>2, <1>4, <1>5, <1>6, <1>8, SetupStep DEF Later, Busy, InWork

\* a new stop stands beside the old ones, or some of those are gone
LEMMA StopsSettled ==
    ASSUME Facts, NEW c \in Coins, CoinInv(c), step \in Later, step \notin {"cover", "uncover"},
           suffered \subseteq suffered',
           UNCHANGED <<cfg, view>>, pos'[c] = pos[c], rest'[c] = rest[c], recs'[c] = recs[c],
           Mild' => (Covered(c) => Covered(c)'),
           Steady' /\ ~Engine /\ (pos[c] = Flat \/ rest[c] # "none") => (Small(c) => Small(c)')
    PROVE  Settled(c)
<1>1. (Mild' => Mild) /\ (Whole' => Whole) /\ (Sized' => Sized) /\ (Steady' => Steady)
  BY Grows
<1>2. Side(c)' = Side(c)
  BY DEF Side
<1>3. Mild' =>
         /\ rest'[c] # "none" => pos'[c] = Flat /\ recs'[c].state = "pending" /\ recs'[c].side = rest'[c]
         /\ view[c] # Flat => rest'[c] = "none"
         /\ pos'[c] # Flat => view[c] # Flat \/ recs'[c] # NoRec
         /\ recs'[c].side # "none" /\ pos'[c].side = recs'[c].side /\ ~Covered(c)' => recs'[c].bare
  BY <1>1, AtCoin
<1>4. Steady' /\ ~Engine =>
         /\ pos'[c] = Flat \/ rest'[c] # "none" => Small(c)'
         /\ rest'[c] # "none" => view[c].size <= 2
  BY <1>1, AtCoin
<1>5. /\ Whole' => (Side(c)' # "none" => recs'[c].side = Side(c)')
      /\ Sized' =>
           /\ pos'[c].size <= 2 * (1 + cfg.adds)
           /\ recs'[c] # NoRec => pos'[c].size <= 2 * (1 + recs'[c].adds)
  BY <1>1, <1>2, AtCoin
<1> QED
  BY <1>3, <1>4, <1>5 DEF Settled

\* A tighter stop keeps what holds of the coins.
LEMMA TightenCoins == ASSUME Facts, CoinsInv, TightenStop PROVE CoinsInv'
<1>1. /\ SameWay /\ Considers /\ step' = "swap" /\ queue' = queue /\ PlaceStop(view[Setup.coin].size)
      /\ UNCHANGED <<cfg, suffered, view, recs>>
  BY DEF TightenStop, SameWay, Updates
<1>2. PICK c \in Coins : c = Setup.coin /\ step \in Later /\ step = "setups" /\ c \in Ahead
  BY <1>1, AtHand, AheadNow DEF Considers
<1>3. CoinInv(c)
  BY DEF CoinsInv
<1>4. /\ pos[c].size > 0 /\ pos' = pos /\ rest' = rest /\ view[c] # Flat /\ view[c].size \in 1..MaxSize
      /\ stops'[c] = stops[c] \union {StopOf(view[c].size)}
      /\ \A d \in Coins : d # c => stops'[d] = stops[d]
  BY <1>1, <1>2, SameWayFacts, PutAt DEF PlaceStop
<1>5. StopOf(view[c].size).size = view[c].size /\ ~StopOf(view[c].size).listed
  BY <1>4, StopFacts
<1>6. Covered(c) => Covered(c)'
  BY <1>4 DEF Covered
<1>7. Steady' /\ ~Engine /\ rest[c] # "none" => (Small(c) => Small(c)')
  <2>1. Steady' /\ ~Engine /\ rest[c] # "none" => view[c].size <= 2
    BY <1>1, <1>2, <1>3, AtCoin, Grows
  <2> QED
    BY <1>4, <1>5, <2>1 DEF Small
<1>8. Settled(c)
  <2>1. pos[c] # Flat
    BY <1>4, Sizes
  <2> QED
    BY <1>1, <1>2, <1>3, <1>4, <1>6, <1>7, <2>1, StopsSettled
<1>9. Mild' \/ Steady' => Fresh(c)' \/ Overgrown(c)'
  <2>1. Mild' \/ Steady' => pos[c].size <= view[c].size \/ Overgrown(c)
    BY <1>1, <1>2, <1>3, <1>4, AtCoin, Grows
  <2>2. pos[c].size <= view[c].size => Fresh(c)'
    BY <1>4, <1>5, SizeFacts, Sizes DEF Fresh
  <2>3. Overgrown(c) => Overgrown(c)'
    BY <1>4, <1>5 DEF Overgrown
  <2> QED
    BY <2>1, <2>2, <2>3
<1>10. (Mild' \/ Steady' => Careful') /\ MildWork'
  <2>1. Setup'.coin = c
    BY <1>1, <1>2 DEF Setup
  <2> QED
    BY <1>1, <1>9, <2>1, SwapCareful DEF MildWork
<1> QED
  BY <1>1, <1>2, <1>4, <1>8, <1>10, SetupStep DEF Later, Busy, InWork

\* Dropping the old stops keeps what holds of the coins.
LEMMA DropCoins == ASSUME Facts, CoinsInv, DropOldStops PROVE CoinsInv'
<1>1. /\ step = "swap" /\ step' \in {"count", "save"} /\ queue' = Tail(queue)
      /\ UNCHANGED <<cfg, view, recs, pos, rest>>
      /\ Mishap("cancel") \/ UNCHANGED suffered
  BY DEF DropOldStops, NextSetup
<1>2. PICK c \in Coins : c = Setup.coin /\ step \in Later /\ step \in InWork
  BY <1>1, AtHand DEF InWork
<1>3. PICK gone \in SUBSET {o \in stops[c] : o.listed} :
         stops' = [stops EXCEPT ![c] = stops[c] \ gone]
  BY <1>2 DEF DropOldStops, Listed
<1>4. /\ stops'[c] = stops[c] \ gone /\ suffered \subseteq suffered'
      /\ \A d \in Coins : d # c => stops'[d] = stops[d]
  BY <1>1, <1>3, PutAt DEF Mishap
<1>5. CoinInv(c) /\ (Mild => Fresh(c) \/ Overgrown(c))
  BY <1>1, <1>2 DEF CoinsInv, Hands, Careful
<1>6. Mild' => (Covered(c) => Covered(c)')
  <2>1. Mild' => Mild
    BY <1>1, <1>4, Grows
  <2>2. Fresh(c) => Covered(c)'
    BY <1>1, <1>4 DEF Fresh, Covered
  <2>3. Overgrown(c) /\ Covered(c) => Covered(c)'
    BY <1>1, <1>4, Sizes DEF Overgrown, Covered
  <2> QED
    BY <1>5, <2>1, <2>2, <2>3
<1>7. Small(c) => Small(c)'
  BY <1>1, <1>4 DEF Small
<1>8. Settled(c)
  BY <1>1, <1>2, <1>4, <1>5, <1>6, <1>7, StopsSettled
<1> QED
  BY <1>1, <1>2, <1>4, <1>8, SetupStep, NoHands DEF Later, Busy, InWork

\* An add keeps what holds of the coins.
LEMMA AddCoins == ASSUME Facts, CoinsInv, Add PROVE CoinsInv'
<1>1. /\ SameWay /\ Considers /\ Trade(Setup.coin, Setup.side) /\ Mine.adds < cfg.adds
      /\ UNCHANGED <<cfg, stops, view, recs>>
  BY DEF Add, SameWay, Updates
<1>2. PICK c \in Coins, s \in Sides :
         c = Setup.coin /\ s = Setup.side /\ step \in Later /\ step = "setups" /\ c \in Ahead
  BY <1>1, AtHand, AheadNow DEF Considers
<1>3. CoinInv(c)
  BY DEF CoinsInv
<1>4. /\ pos'[c] = Traded(pos[c], s, 2) /\ rest' = rest /\ \A d \in Coins : d # c => pos'[d] = pos[d]
      /\ view[c] # Flat /\ view[c].side = s /\ recs[c].side = s /\ recs[c].state = "open"
      /\ recs[c].adds < cfg.adds /\ s # "none"
  BY <1>1, <1>2, SameWayFacts, PutAt DEF Mine, Sides
<1>5. CASE Mishap("reply") /\ NextSetup("save")
  <2>1. Settled(c) /\ suffered \subseteq suffered' /\ step' = "save" /\ queue' = Tail(queue)
    BY <1>5, HopeLost DEF NextSetup, Mishap
  <2> QED
    BY <1>1, <1>2, <1>4, <2>1, SetupStep, NoHands DEF Later, Busy, InWork
<1>6. CASE /\ step' = "cover" /\ UNCHANGED queue
           /\ IF pos[c] = view[c] THEN UNCHANGED suffered ELSE Mishap("stale_add")
  <2>1. suffered \subseteq suffered'
    BY <1>6 DEF Mishap
  <2>2. (Mild' => Mild /\ pos[c] = view[c]) /\ (Whole' => Whole /\ Mild') /\ (Sized' => Sized /\ Mild')
        /\ (Steady' => Steady /\ Engine)
    <3>1. (Mild' => Mild) /\ (Whole' => Whole) /\ (Sized' => Sized) /\ (Steady' => Steady)
      BY <1>1, <2>1, Grows
    <3>2. Mild' => pos[c] = view[c]
      BY <1>6 DEF Mishap, Mild
    <3>3. (Whole' => Mild') /\ (Sized' => Mild')
      BY DEF Whole, Sized, Mild
    <3>4. Steady => Engine
      BY <1>4, Sizes DEF Steady, Engine
    <3> QED
      BY <3>1, <3>2, <3>3, <3>4
  <2>3. Mild' => pos'[c].side = s /\ pos'[c].size = Capped(pos[c].size + 2) /\ rest[c] = "none"
    BY <1>2, <1>3, <1>4, <2>2, TradedFacts, AtCoin, Sizes
  <2>4. Mild' => pos'[c].size \in Nat /\ pos'[c].size <= pos[c].size + 2
    <3>1. pos[c].size + 2 \in Nat
      BY Sizes
    <3> QED
      BY <2>3, <3>1, SizeFacts
  <2>5. Sized' => /\ pos'[c].size <= 2 * (1 + cfg.adds)
                  /\ pos'[c].size <= 2 * (2 + recs[c].adds)
    <3>1. recs[c] # NoRec /\ pos[c].size \in Nat /\ cfg.adds \in Nat /\ recs[c].adds \in Nat
      BY <1>4, Sizes
    <3>2. Sized => pos[c].size <= 2 * (1 + recs[c].adds)
      BY <1>2, <1>3, <3>1, AtCoin
    <3>3. recs[c].adds + 1 <= cfg.adds
      BY <1>4, <3>1
    <3> QED
      BY <2>2, <2>4, <3>1, <3>2, <3>3
  <2>6. Whole' => Side(c)' = s
    BY <1>4, <2>2, <2>3 DEF Side
  <2>7. Settled(c)
    <3>1. recs'[c] = recs[c] /\ rest'[c] = rest[c]
      BY <1>1, <1>4
    <3>2. Steady' => Engine
      BY <2>2
    <3> QED
      BY <1>4, <1>6, <2>2, <2>3, <2>5, <2>6, <3>1, <3>2 DEF Settled
  <2>8. Mild' \/ Steady' => pos'[c].size <= Capped(view[c].size + 2)
    <3>1. Mild' \/ Steady' => pos[c].size <= view[c].size
      BY <1>2, <1>3, <1>4, <2>2, AtCoin, Sizes
    <3>2. pos'[c].size <= Capped(pos[c].size + 2)
      BY <1>4, TradedFacts, Sizes
    <3>3. pos[c].size <= view[c].size => Capped(pos[c].size + 2) <= Capped(view[c].size + 2)
      BY Sizes, SizeFacts DEF Capped
    <3>4. pos'[c].size \in Nat /\ Capped(pos[c].size + 2) \in Nat /\ Capped(view[c].size + 2) \in Nat
      <4>1. Traded(pos[c], s, 2) \in Positions
        BY TradedFacts, Sizes
      <4>2. pos[c].size + 2 \in Nat /\ view[c].size + 2 \in Nat
        BY Sizes
      <4> QED
        BY <1>4, <4>1, <4>2, PositionFacts, SizeFacts
    <3> QED
      BY <3>1, <3>2, <3>3, <3>4
  <2>9. Mild' => recs[c].bare \/ \E o \in stops[c] : o.size >= view[c].size
    <3>1. Mild => recs[c].bare \/ Covered(c) \/ pos[c].side # recs[c].side
      BY <1>2, <1>3, <1>4, AtCoin, Sizes
    <3>2. Mild' => (Covered(c) => \E o \in stops[c] : o.size >= view[c].size) /\ pos[c].side = recs[c].side
      BY <1>4, <2>2 DEF Covered
    <3> QED
      BY <2>2, <3>1, <3>2
  <2>10. Setup'.coin = c /\ Mine' = recs[c]
    BY <1>1, <1>2, <1>6 DEF Setup, Mine
  <2>11. Mild' \/ Steady' => Careful'
    BY <1>1, <1>6, <2>8, <2>10 DEF Careful
  <2>12. Mild' => MildWork'
    BY <1>1, <1>6, <2>9, <2>10 DEF MildWork
  <2> QED
    BY <1>1, <1>2, <1>4, <1>6, <2>1, <2>7, <2>11, <2>12, SetupStep DEF Later, Busy, InWork
<1> QED
  BY <1>2, <1>5, <1>6 DEF Add

\* Covering an add keeps what holds of the coins.
LEMMA CoverCoins == ASSUME Facts, CoinsInv, CoverAdd PROVE CoinsInv'
<1>1. /\ step = "cover" /\ UNCHANGED <<cfg, view, queue>>
  BY DEF CoverAdd
<1>2. PICK c \in Coins : c = Setup.coin /\ step \in Later /\ step \in InWork
  BY <1>1, AtHand DEF InWork
<1>3. CoinInv(c) /\ Hands
  BY DEF CoinsInv
<1>4. /\ view[c] # Flat /\ recs[c].state = "open" /\ recs[c] # NoRec /\ recs[c].adds < cfg.adds
      /\ Capped(view[c].size + 2) \in 1..MaxSize /\ Mine = recs[c]
  BY <1>1, <1>2, AddAtHand, Sizes DEF Mine
<1>5. Steady => Engine
  BY <1>4, Sizes DEF Steady, Engine
<1>6. Mild \/ Steady => pos[c].size <= Capped(view[c].size + 2)
  BY <1>1, <1>2, <1>3 DEF Hands, Careful
<1>7. Setup' = Setup
  BY <1>1 DEF Setup
<1>8. CASE /\ PlaceStop(pos[c].size) \/ PlaceStop(Capped(view[c].size + 2))
           /\ Record(c, [recs[c] EXCEPT !.adds = @ + 1, !.bare = FALSE])
           /\ step' = "swap" /\ UNCHANGED suffered
  <2>1. PICK n \in {pos[c].size, Capped(view[c].size + 2)} :
           n \in 1..MaxSize /\ pos[c].size > 0 /\ pos' = pos /\ rest' = rest
           /\ stops' = [stops EXCEPT ![c] = stops[c] \union {StopOf(n)}]
    BY <1>2, <1>4, <1>8, Sizes, PositionFacts, SizeFacts DEF PlaceStop
  <2>a. PICK r \in Records : /\ r = [recs[c] EXCEPT !.adds = @ + 1, !.bare = FALSE]
                             /\ r.side = recs[c].side /\ r.state = recs[c].state /\ r.adds = recs[c].adds + 1
    <3>1. recs[c] \in Records /\ cfg \in Settings
      BY TypeNow
    <3>2. /\ [recs[c] EXCEPT !.adds = @ + 1, !.bare = FALSE] \in Records
          /\ [recs[c] EXCEPT !.adds = @ + 1, !.bare = FALSE].side = recs[c].side
          /\ [recs[c] EXCEPT !.adds = @ + 1, !.bare = FALSE].state = recs[c].state
          /\ [recs[c] EXCEPT !.adds = @ + 1, !.bare = FALSE].adds = recs[c].adds + 1
      BY <1>4, <3>1, ChangedRecord
    <3> QED
      BY <3>2, Zenon
  <2>b. Record(c, r)
    BY <1>8, <2>a
  <2>2. /\ stops'[c] = stops[c] \union {StopOf(n)} /\ \A d \in Coins : d # c => stops'[d] = stops[d]
        /\ recs'[c] = r
        /\ \A d \in Coins : d # c => recs'[d] = recs[d]
    BY <2>1, <2>b, PutAt
  <2>3. /\ recs'[c].side = recs[c].side /\ recs'[c].state = recs[c].state /\ recs'[c].adds = recs[c].adds + 1
        /\ recs'[c] # NoRec
    BY <1>4, <2>2, <2>a, NoRecFacts, TypeNow
  <2>4. Mild \/ Steady => Fresh(c)' /\ Covered(c)'
    <3>1. StopOf(n).size = n /\ ~StopOf(n).listed
      BY <2>1, StopFacts
    <3>2. Mild \/ Steady => n >= pos[c].size
      BY <1>4, <1>6, <2>1, Sizes, SizeFacts
    <3> QED
      BY <2>1, <2>2, <3>1, <3>2 DEF Fresh, Covered
  <2>5. (Mild' => Mild) /\ (Whole' => Whole) /\ (Sized' => Sized) /\ (Steady' => Steady)
    BY <1>1, <1>8, Grows
  <2>6. Sized => /\ pos[c].size <= 2 * (1 + cfg.adds)
                 /\ pos[c].size <= 2 * (1 + recs'[c].adds)
    <3>1. pos[c].size \in Nat /\ recs[c].adds \in Nat
      BY Sizes
    <3>2. Sized => /\ pos[c].size <= 2 * (1 + cfg.adds)
                   /\ pos[c].size <= 2 * (1 + recs[c].adds) \/ pos[c].size <= 2 * (2 + recs[c].adds)
      BY <1>2, <1>3, <1>4, AtCoin
    <3> QED
      BY <2>3, <3>1, <3>2
  <2>7. Side(c)' = Side(c)
    BY <2>1 DEF Side
  <2>8. Settled(c)
    <3>1. pos'[c] = pos[c] /\ rest'[c] = rest[c]
      BY <2>1
    <3>2. Mild' => rest[c] = "none"
      BY <1>2, <1>3, <1>4, <2>5, AtCoin
    <3>3. Whole' => (Side(c)' # "none" => recs'[c].side = Side(c)')
      BY <1>2, <1>3, <2>3, <2>5, <2>7, AtCoin
    <3>4. Steady' => Engine
      BY <1>5, <2>5
    <3> QED
      BY <1>4, <2>3, <2>4, <2>5, <2>6, <3>1, <3>2, <3>3, <3>4 DEF Settled
  <2>9. (Mild' \/ Steady' => Careful') /\ MildWork'
    <3>1. Setup'.coin = c
      BY <1>2, <1>7
    <3> QED
      BY <1>8, <2>4, <2>5, <3>1, SwapCareful DEF MildWork
  <2> QED
    BY <1>1, <1>2, <1>8, <2>1, <2>2, <2>8, <2>9, SetupStep DEF Later, Busy, InWork
<1>9. CASE Mishap("unwind") /\ step' = "uncover" /\ UNCHANGED <<exchange, recs>>
  <2>1. suffered \subseteq suffered' /\ "unwind" \in suffered' /\ pos' = pos /\ rest' = rest /\ stops' = stops
    BY <1>9 DEF Mishap, exchange
  <2>2. (Mild' => Mild) /\ (Whole' => Whole) /\ ~Sized' /\ (Steady' => Steady)
    <3>1. ~Sized'
      BY <2>1 DEF Sized
    <3> QED
      BY <1>1, <2>1, <3>1, Grows
  <2>3. Side(c)' = Side(c)
    BY <2>1 DEF Side
  <2>4. Settled(c)
    <3>1. Mild' =>
            /\ rest'[c] # "none" => pos'[c] = Flat /\ recs'[c].state = "pending" /\ recs'[c].side = rest'[c]
            /\ view[c] # Flat => rest'[c] = "none"
            /\ pos'[c] # Flat => view[c] # Flat \/ recs'[c] # NoRec
      BY <1>2, <1>3, <1>9, <2>1, <2>2, AtCoin
    <3>2. Whole' => (Side(c)' # "none" => recs'[c].side = Side(c)')
      BY <1>2, <1>3, <1>9, <2>2, <2>3, AtCoin
    <3>3. Steady' => Engine
      BY <1>5, <2>2
    <3> QED
      BY <1>9, <2>2, <3>1, <3>2, <3>3 DEF Settled
  <2>5. Careful' /\ (Mild' => MildWork')
    <3>1. Mild => MildWork
      BY <1>3 DEF Hands
    <3>2. Mine' = Mine
      BY <1>7, <1>9 DEF Mine
    <3>3. MildWork => MildWork'
      BY <1>1, <1>7, <2>1, <3>2 DEF MildWork
    <3>4. Careful'
      BY <1>9 DEF Careful
    <3> QED
      BY <2>2, <3>1, <3>3, <3>4
  <2> QED
    BY <1>1, <1>2, <1>9, <2>1, <2>4, <2>5, SetupStep DEF Later, Busy, InWork
<1> QED
  BY <1>2, <1>4, <1>8, <1>9 DEF CoverAdd

\* Undoing an add keeps what holds of the coins.
LEMMA UndoCoins == ASSUME Facts, CoinsInv, UndoAdd PROVE CoinsInv'
<1>1. /\ step = "uncover" /\ step' = "save" /\ queue' = Tail(queue)
      /\ UNCHANGED <<cfg, rest, stops, view, suffered>> /\ "unwind" \in suffered
  BY DEF UndoAdd, NextSetup, Facts, WorkFacts
<1>2. PICK c \in Coins : c = Setup.coin /\ step \in Later /\ step \in InWork
  BY <1>1, AtHand DEF InWork
<1>3. CoinInv(c) /\ Hands
  BY DEF CoinsInv
<1>4. /\ view[c] # Flat /\ recs[c].state = "open" /\ recs[c] # NoRec /\ recs[c].adds < cfg.adds
      /\ Mine = recs[c]
  BY <1>1, <1>2, AddAtHand, Sizes DEF Mine
<1>5. Steady => Engine
  BY <1>4, Sizes DEF Steady, Engine
<1>6. \/ pos[c].size > view[c].size /\ pos' = [pos EXCEPT ![c].size = view[c].size]
         /\ (UNCHANGED recs \/ Record(c, [recs[c] EXCEPT !.bare = TRUE]))
      \/ UNCHANGED pos /\ Record(c, [recs[c] EXCEPT !.bare = TRUE])
  BY <1>2, <1>4 DEF UndoAdd
<1>7. /\ recs'[c].side = recs[c].side /\ recs'[c].state = recs[c].state /\ recs'[c] # NoRec
      /\ recs'[c].bare \/ (recs'[c] = recs[c] /\ pos' = [pos EXCEPT ![c].size = view[c].size])
      /\ \A d \in Coins : d # c => recs'[d] = recs[d]
  <2>1. PICK r \in Records : /\ r = [recs[c] EXCEPT !.bare = TRUE]
                             /\ r.side = recs[c].side /\ r.state = recs[c].state /\ r.bare
    BY <1>4, ChangedRecord, TypeNow
  <2>2. Record(c, r) \/ (UNCHANGED recs /\ pos' = [pos EXCEPT ![c].size = view[c].size])
    BY <1>6, <2>1
  <2>3. Record(c, r) => recs'[c] = r /\ \A d \in Coins : d # c => recs'[d] = recs[d]
    BY PutAt
  <2>4. NoRec.state = "none"
    BY NoRecFacts, TypeNow
  <2> QED
    BY <1>4, <2>1, <2>2, <2>3, <2>4
<1>8. /\ pos'[c].side = pos[c].side /\ (pos'[c] # Flat => pos[c] # Flat)
      /\ pos' = [pos EXCEPT ![c].size = view[c].size] => pos'[c].size = view[c].size
      /\ \A d \in Coins : d # c => pos'[d] = pos[d]
  <2>1. pos \in [Coins -> Positions] /\ pos[c] \in Positions
    BY TypeNow
  <2>2. pos[c] = [side |-> pos[c].side, size |-> pos[c].size]
    BY <2>1 DEF Positions, Flat
  <2>3. [pos[c] EXCEPT !.size = view[c].size].side = pos[c].side
        /\ [pos[c] EXCEPT !.size = view[c].size].size = view[c].size
    BY <2>2
  <2>4. pos[c] = Flat => ~(pos[c].size > view[c].size)
    BY Sizes
  <2> QED
    BY <1>6, <2>1, <2>3, <2>4
<1>9. Side(c)' # "none" => Side(c)' = Side(c)
  BY <1>1, <1>8 DEF Side
<1>10. Mild => recs'[c].bare \/ pos'[c] = Flat \/ Covered(c)'
  <2>1. Mild /\ pos[c] # Flat => recs[c].bare \/ \E o \in stops[c] : o.size >= view[c].size
    BY <1>1, <1>2, <1>3, <1>4 DEF Hands, MildWork
  <2>2. (\E o \in stops[c] : o.size >= view[c].size) /\ pos'[c].size = view[c].size => Covered(c)'
    BY <1>1 DEF Covered
  <2> QED
    BY <1>7, <1>8, <2>1, <2>2
<1>11. Settled(c)
  <2>1. (Mild' => Mild) /\ (Whole' => Whole) /\ ~Sized' /\ (Steady' => Steady)
    <3>1. ~Sized'
      BY <1>1 DEF Sized
    <3> QED
      BY <1>1, <3>1, Grows
  <2>2. Mild' => rest'[c] = "none"
    BY <1>1, <1>2, <1>3, <1>4, <2>1, AtCoin
  <2>3. Whole' => (Side(c)' # "none" => recs'[c].side = Side(c)')
    BY <1>2, <1>3, <1>7, <1>9, <2>1, AtCoin
  <2>4. Steady' => Engine
    BY <1>5, <2>1
  <2>5. pos'[c] = Flat => pos'[c].side = "none"
    BY FlatFacts
  <2> QED
    BY <1>4, <1>7, <1>10, <2>1, <2>2, <2>3, <2>4, <2>5, Sizes DEF Settled
<1> QED
  BY <1>1, <1>2, <1>7, <1>8, <1>11, SetupStep, NoHands DEF Later, Busy, InWork

\* Actions that leave the coins alone

\* What changes neither the exchange nor a record keeps what holds of the coins.
LEMMA QuietCoins ==
    ASSUME Facts, CoinsInv, TurnDown \/ KeepLevels \/ SaveCount \/ (Save /\ step = "save")
    PROVE  CoinsInv'
<1>1. /\ step \in {"setups", "count", "save"} /\ step' \in {"setups", "save"}
      /\ UNCHANGED <<cfg, exchange, recs, view>> /\ suffered \subseteq suffered'
      /\ queue' = queue \/ (queue # <<>> /\ queue' = Tail(queue))
  BY DEF TurnDown, KeepLevels, SaveCount, Save, Considers, Updates, NextSetup, Mishap
<1>2. Ahead' \subseteq Ahead
  <2>1. queue # <<>> => CoinsOf(Tail(queue)) \subseteq CoinsOf(queue)
    BY SetupFacts, TypeNow
  <2>2. Ahead = CoinsOf(queue) /\ Ahead' = CoinsOf(queue')
    BY <1>1 DEF Ahead, InWork, CoinsOf
  <2> QED
    BY <1>1, <2>1, <2>2 DEF CoinsOf
<1>3. ASSUME NEW c \in Coins PROVE CoinInv(c)'
  <2>1. CoinInv(c)
    BY DEF CoinsInv
  <2>2. step \in Later /\ step' \in Later
    BY <1>1 DEF Later, Busy
  <2> QED
    BY <1>1, <1>2, <2>1, <2>2, Bystander DEF exchange
<1> QED
  BY <1>1, <1>3, NoHands DEF CoinsInv, Hands

\* Deciding on a market entry keeps what holds of the coins.
LEMMA GoMarketCoins == ASSUME Facts, CoinsInv, GoMarket PROVE CoinsInv'
<1>1. /\ step = "setups" /\ Considers /\ step' = "open" /\ Mine = NoRec /\ view[Setup.coin] = Flat /\ Engine
      /\ UNCHANGED <<cfg, exchange, recs, view, queue, suffered>>
  BY DEF GoMarket, Enters, Considers, Engine
<1>2. Ahead' \subseteq Ahead
  BY <1>1, AheadNext DEF InWork
<1>3. ASSUME NEW c \in Coins PROVE CoinInv(c)'
  <2>1. CoinInv(c)
    BY DEF CoinsInv
  <2>2. step \in Later /\ step' \in Later
    BY <1>1 DEF Later, Busy, InWork
  <2> QED
    BY <1>1, <1>2, <2>1, <2>2, Bystander DEF exchange
<1>4. Mild' \/ Steady' => Careful'
  <2>1. PICK c \in Coins : c = Setup.coin
    BY <1>1, AtHand
  <2>2. CoinInv(c) /\ step \in Later /\ c \in Ahead
    BY <1>1, <2>1, AheadNow DEF CoinsInv, Later, Busy
  <2>3. Mild \/ Steady => pos[c] = Flat
    BY <1>1, <2>1, <2>2, AtCoin, Sizes
  <2>4. Mild' \/ Steady' => pos'[c] = Flat
    BY <1>1, <2>3, Grows DEF exchange
  <2>5. Setup'.coin = c
    BY <1>1, <2>1 DEF Setup
  <2> QED
    BY <1>1, <2>4, <2>5 DEF Careful
<1>5. MildWork'
  BY <1>1 DEF MildWork
<1> QED
  BY <1>3, <1>4, <1>5 DEF CoinsInv, Hands

\* the last write of a pass
LEMMA SaveCoins == ASSUME Facts, CoinsInv, Save, step = "setups" PROVE CoinsInv'
<1>1. /\ step' = "done" /\ UNCHANGED <<cfg, exchange, recs, view, queue>> /\ suffered \subseteq suffered'
      /\ saved' = recs \/ "kv" \in suffered'
  BY DEF Save, Mishap
<1>2. ASSUME NEW c \in Coins PROVE CoinInv(c)'
  <2>1. CoinInv(c) /\ step \in Later /\ step \in Busy
    BY DEF CoinsInv, Later, Busy
  <2>2. (Mild' => Mild) /\ (Whole' => Whole) /\ (Sized' => Sized) /\ (Steady' => Steady)
        /\ (Engine' <=> Engine)
    BY <1>1, Grows
  <2>3. /\ Covered(c)' <=> Covered(c)
        /\ Small(c)' <=> Small(c)
        /\ Side(c)' = Side(c)
        /\ pos' = pos /\ rest' = rest
    BY <1>1 DEF Covered, Small, Side, exchange
  <2>4. /\ step' \notin Busy /\ step' \notin Read /\ step' # "orders" /\ step' # "manage"
        /\ step' \notin {"cover", "uncover"} /\ step \notin {"cover", "uncover"}
    BY <1>1 DEF Read, Busy, InWork
  <2>5. (Mild' \/ Whole' \/ Sized') => BookOf(c)' = recs[c]
    <3>1. (Mild' \/ Whole' \/ Sized') => saved' = recs
      BY <1>1 DEF Mild, Whole, Sized
    <3> QED
      BY <2>4, <3>1 DEF BookOf
  <2>6. Mild' => MildCoin(c)'
    BY <2>1, <2>2, <2>3, <2>4, <2>5, AtCoin DEF MildCoin, Flagged
  <2>7. Unmoved(c)'
    BY <2>4 DEF Unmoved
  <2>8. Steady' => SteadyCoin(c)'
    BY <2>1, <2>2, <2>3, <2>4, AtCoin DEF SteadyCoin
  <2>9. Whole' => OnRecord(c)'
    BY <2>1, <2>2, <2>3, <2>5, AtCoin DEF OnRecord
  <2>10. Sized' => RightSize(c)'
    BY <1>1, <2>1, <2>2, <2>3, <2>4, <2>5, AtCoin DEF RightSize
  <2> QED
    BY <2>6, <2>7, <2>8, <2>9, <2>10 DEF CoinInv
<1> QED
  BY <1>1, <1>2, NoHands DEF CoinsInv, Hands

\* Starting the counters keeps what holds of the coins.
LEMMA BatchCoins == ASSUME Facts, CoinsInv, StartBatch PROVE CoinsInv'
<1>1. /\ step = "manage" /\ step' = "setups"
      /\ UNCHANGED <<cfg, exchange, saved, recs, view, queue>> /\ suffered \subseteq suffered'
  BY DEF StartBatch, Mishap, stored
<1>2. Ahead' = Ahead
  BY <1>1 DEF Ahead, InWork, CoinsOf
<1>3. ASSUME NEW c \in Coins PROVE CoinInv(c)'
  <2>1. CoinInv(c)
    BY DEF CoinsInv
  <2>2. step \in Busy /\ step' \in Busy
    BY <1>1 DEF Busy
  <2> QED
    BY <1>1, <1>2, <2>1, <2>2, Bystander DEF exchange
<1> QED
  BY <1>1, <1>3, NoHands DEF CoinsInv, Hands

\* Starting a pass keeps what holds of the coins.
LEMMA BeginCoins == ASSUME Facts, CoinsInv, Begin \/ NewCandle PROVE CoinsInv'
<1>1. /\ step = "idle" /\ step' \in {"idle", "account"}
      /\ UNCHANGED <<cfg, exchange, saved, suffered>>
  BY DEF Begin, NewCandle, locals
<1>2. ASSUME NEW c \in Coins PROVE CoinInv(c)'
  <2>1. CoinInv(c) /\ step \notin Read /\ step' \notin Read
    BY <1>1 DEF CoinsInv, Read, Busy, InWork
  <2> QED
    BY <1>1, <2>1, Bystander DEF exchange
<1> QED
  BY <1>1, <1>2, NoHands DEF CoinsInv, Hands

\* stops that are listed anew, or no longer, are as large as before
LEMMA Relisted ==
    ASSUME NEW c \in Coins, NEW S,
           stops' = stops \/ (S \in BOOLEAN /\ stops' = [d \in Coins |-> {[o EXCEPT !.listed = S] : o \in stops[d]}]),
           pos'[c] = pos[c], Facts
    PROVE  (Covered(c)' <=> Covered(c)) /\ (Small(c) => Small(c)')
<1>1. CASE stops' = stops
  BY <1>1 DEF Covered, Small
<1>2. CASE S \in BOOLEAN /\ stops' = [d \in Coins |-> {[o EXCEPT !.listed = S] : o \in stops[d]}]
  <2>1. stops'[c] = {[o EXCEPT !.listed = S] : o \in stops[c]}
    BY <1>2
  <2>2. \A o \in stops[c] : [o EXCEPT !.listed = S].size = o.size
    <3>1. \A o \in stops[c] : o \in StopOrders
      BY TypeNow
    <3> QED
      BY <3>1 DEF StopOrders
  <2> QED
    BY <2>1, <2>2 DEF Covered, Small
<1> QED
  BY <1>1, <1>2

\* The end of a pass keeps what holds of the coins.
LEMMA StopCoins == ASSUME Facts, CoinsInv, Stop PROVE CoinsInv'
<1>1. /\ step' = "idle" /\ UNCHANGED <<cfg, pos, rest, saved>> /\ suffered \subseteq suffered'
      /\ step = "done" \/ "stopped" \in suffered'
      /\ stops' = [c \in Coins |-> {[o EXCEPT !.listed = FALSE] : o \in stops[c]}]
  BY DEF Stop, Idle, stored, Mishap
<1>2. ASSUME NEW c \in Coins PROVE CoinInv(c)'
  <2>1. CoinInv(c)
    BY DEF CoinsInv
  <2>2. (Mild' => Mild) /\ (Whole' => Whole) /\ (Sized' => Sized) /\ (Steady' => Steady)
        /\ (Engine' <=> Engine)
    BY <1>1, Grows
  <2>3. (Covered(c)' <=> Covered(c)) /\ (Small(c) => Small(c)')
    BY <1>1, Relisted
  <2>4. /\ step' \notin Busy /\ step' \notin Read /\ step' # "orders" /\ step' # "manage"
        /\ step' \notin {"cover", "uncover"}
    BY <1>1 DEF Read, Busy, InWork
  <2>5. (Mild' \/ Whole' \/ Sized') => /\ BookOf(c) = saved[c] /\ BookOf(c)' = saved[c] /\ step = "done"
    <3>1. (Mild' \/ Whole' \/ Sized') => step = "done"
      BY <1>1 DEF Mild, Whole, Sized
    <3> QED
      BY <1>1, <2>4, <3>1 DEF BookOf, Busy, InWork
  <2>6. Mild' => MildCoin(c)'
    <3>1. Mild' => MildCoin(c)
      BY <2>1, <2>2 DEF CoinInv
    <3> QED
      BY <1>1, <2>3, <2>4, <2>5, <3>1 DEF MildCoin, Flagged
  <2>7. Unmoved(c)'
    BY <2>4 DEF Unmoved
  <2>8. Steady' => SteadyCoin(c)'
    <3>1. Steady' => SteadyCoin(c)
      BY <2>1, <2>2 DEF CoinInv
    <3> QED
      BY <1>1, <2>2, <2>3, <2>4, <3>1 DEF SteadyCoin
  <2>9. Side(c)' = Side(c)
    BY <1>1 DEF Side
  <2>10. (Whole' => OnRecord(c)') /\ (Sized' => RightSize(c)')
    BY <1>1, <2>1, <2>2, <2>4, <2>5, <2>9 DEF CoinInv, OnRecord, RightSize
  <2> QED
    BY <2>6, <2>7, <2>8, <2>10 DEF CoinInv
<1> QED
  BY <1>1, <1>2, NoHands DEF CoinsInv, Hands

\* Reading the account keeps what holds of the coins.
LEMMA ReadAccountCoins == ASSUME Facts, CoinsInv, ReadAccount PROVE CoinsInv'
<1>1. /\ step = "account" /\ UNCHANGED <<cfg, exchange, saved, suffered>>
      /\ (view' = pos /\ step' = "orders") \/ step' = "done"
  BY DEF ReadAccount, stored
<1>2. ASSUME NEW c \in Coins PROVE CoinInv(c)'
  <2>1. CoinInv(c) /\ step \notin Read
    BY <1>1 DEF CoinsInv, Read, Busy, InWork
  <2>2. CASE step' = "done"
    <3>1. step' \notin Read
      BY <2>2 DEF Read, Busy, InWork
    <3> QED
      BY <1>1, <2>1, <3>1, Bystander DEF exchange
  <2>3. CASE view' = pos /\ step' = "orders"
    <3>1. (Mild' => Mild) /\ (Whole' => Whole) /\ (Sized' => Sized) /\ (Steady' => Steady)
          /\ (Engine' <=> Engine)
      BY <1>1, Grows
    <3>2. /\ Covered(c)' <=> Covered(c)
          /\ Small(c)' <=> Small(c)
          /\ Side(c)' = Side(c)
          /\ pos' = pos /\ rest' = rest
      BY <1>1 DEF Covered, Small, Side, exchange
    <3>3. /\ BookOf(c) = saved[c] /\ BookOf(c)' = saved[c] /\ step' \notin Busy /\ step' # "manage"
          /\ step' \notin {"cover", "uncover"} /\ step \notin {"cover", "uncover"}
      BY <1>1, <2>3 DEF BookOf, Busy, InWork
    <3>4. Mild' => MildCoin(c)'
      <4>1. Mild' => MildCoin(c)
        BY <2>1, <3>1 DEF CoinInv
      <4> QED
        BY <2>3, <3>2, <3>3, <4>1 DEF MildCoin, Flagged
    <3>5. Unmoved(c)'
      BY <2>3, <3>2, <3>3 DEF Unmoved
    <3>6. Steady' => SteadyCoin(c)'
      <4>1. Steady' => SteadyCoin(c)
        BY <2>1, <3>1 DEF CoinInv
      <4>2. Small(c) => pos[c].size <= 2
        BY DEF Small
      <4> QED
        BY <2>3, <3>1, <3>2, <3>3, <4>1, <4>2 DEF SteadyCoin
    <3>7. (Whole' => OnRecord(c)') /\ (Sized' => RightSize(c)')
      BY <1>1, <2>1, <3>1, <3>2, <3>3 DEF CoinInv, OnRecord, RightSize
    <3> QED
      BY <3>4, <3>5, <3>6, <3>7 DEF CoinInv
  <2> QED
    BY <1>1, <2>2, <2>3
<1> QED
  BY <1>1, <1>2, NoHands DEF CoinsInv, Hands

\* what a sweep makes of a record
LEMMA HandledRecord ==
    ASSUME Facts, NEW c \in Coins, NEW known \in BOOLEAN, Handled(c, saved[c], known), loose[c] = Nothing
    PROVE  /\ recs'[c] = NoRec \/ (/\ recs'[c].side = saved[c].side /\ recs'[c].bare = saved[c].bare
                                   /\ recs'[c].adds = saved[c].adds /\ saved[c] # NoRec)
           /\ recs'[c] = NoRec /\ saved[c] # NoRec =>
                view[c].side # saved[c].side /\ (saved[c].state = "pending" => rest[c] = "none")
           /\ saved[c].state = "pending" /\ view[c].side # saved[c].side /\ recs'[c] # NoRec => recs'[c] = saved[c]
           /\ <<c, "cancel">> \in todo' =>
                saved[c].state = "pending" /\ recs'[c] = saved[c] /\ view[c].side # saved[c].side
                  /\ rest[c] # "none"
           /\ <<c, "close">> \in todo' =>
                saved[c].state = "open" /\ recs'[c] = saved[c] /\ view[c].side = saved[c].side
<1> DEFINE rests == rest[c] # "none"
<1>1. PICK act \in Wants(c, saved[c], rests, known) :
         /\ recs'[c] = Swept(saved[c], act)
         /\ <<c, "cancel">> \in todo' <=> act = "cancel"
         /\ <<c, "close">> \in todo' <=> act = "close"
  BY DEF Handled, Rests
<1>2. saved[c] \in Records /\ cfg \in Settings /\ rests \in BOOLEAN
  BY TypeNow
<1> HIDE DEF rests
<1>3. /\ act \in {"keep", "promote", "cancel", "drop", "close"}
      /\ act \in {"keep", "cancel", "close"} => recs'[c] = saved[c]
      /\ act = "drop" => /\ recs'[c] = NoRec
                         /\ view[c].side # saved[c].side
                         /\ saved[c].state = "pending" => ~rests
      /\ act = "promote" => /\ saved[c].state = "pending" /\ view[c].side = saved[c].side
                            /\ recs'[c] = [saved[c] EXCEPT !.state = "open"]
      /\ act = "cancel" => saved[c].state = "pending" /\ view[c].side # saved[c].side /\ rests
      /\ act = "close" => saved[c].state = "open" /\ view[c].side = saved[c].side
  BY <1>1, <1>2, SweptType
<1>4. act = "promote" => /\ recs'[c].side = saved[c].side /\ recs'[c].bare = saved[c].bare
                         /\ recs'[c].adds = saved[c].adds /\ saved[c] # NoRec /\ recs'[c] # NoRec
  <2>1. NoRec.state = "none" /\ (saved[c] = NoRec <=> saved[c].side = "none") /\ NoRec.side = "none"
    BY <1>2, NoRecFacts, RecordFacts
  <2>2. saved[c] # NoRec =>
           /\ [saved[c] EXCEPT !.state = "open"].side = saved[c].side
           /\ [saved[c] EXCEPT !.state = "open"].bare = saved[c].bare
           /\ [saved[c] EXCEPT !.state = "open"].adds = saved[c].adds
    BY <1>2, ChangedRecord
  <2> QED
    BY <1>3, <2>1, <2>2
<1> QED
  BY <1>1, <1>3, <1>4 DEF rests

\* The sweep keeps what holds of the coins.
LEMMA SweepCoinsInv == ASSUME Facts, CoinsInv, LooseInv, Sweep PROVE CoinsInv'
<1>1. PICK found \in {saved, NoRecs}, known \in BOOLEAN :
         /\ found = saved \/ "kv" \in suffered'
         /\ \A c \in Coins : found[c] \in Records /\ Handled(c, found[c], known)
         /\ stops' = IF known THEN [c \in Coins |-> {[o EXCEPT !.listed = TRUE] : o \in stops[c]}] ELSE stops
  BY SweepCoins
<1>2. /\ suffered \subseteq suffered' /\ step = "orders" /\ step' = "manage"
      /\ UNCHANGED <<cfg, pos, rest, saved, view, queue>>
  BY SweepCoins DEF stored
<1>3. (Mild' => Mild) /\ (Whole' => Whole) /\ (Sized' => Sized) /\ (Steady' => Steady)
      /\ (Engine' <=> Engine) /\ (Whole => Mild) /\ (Sized => Mild)
  BY <1>2, Grows
<1>4. Mild' \/ Steady' \/ Whole' \/ Sized' => found = saved
  BY <1>1 DEF Mild, Steady, Whole, Sized
<1>5. Ahead' = Ahead /\ step \notin Busy /\ step \in Read /\ step' \in Busy /\ step' \in Read
  BY <1>2 DEF Ahead, InWork, CoinsOf, Busy, Read
<1>6. ASSUME NEW c \in Coins, found = saved, Mild' \/ Steady' PROVE CoinInv(c)'
  <2>0. loose[c] = Nothing
    BY <1>3, <1>6, NothingLoose
  <2>1. CoinInv(c)
    BY DEF CoinsInv
  <2>2. Handled(c, saved[c], known)
    BY <1>1, <1>6
  <2>a. saved[c] \in Records /\ cfg \in Settings /\ NoRec.side = "none" /\ NoRec.state = "none"
        /\ (saved[c] = NoRec <=> saved[c].side = "none") /\ (saved[c] = NoRec <=> saved[c].state = "none")
        /\ saved[c].adds \in Nat
    BY TypeNow, RecordFacts, NoRecFacts
  <2>3. /\ recs'[c] = NoRec \/ (/\ recs'[c].side = saved[c].side /\ recs'[c].bare = saved[c].bare
                                /\ recs'[c].adds = saved[c].adds /\ saved[c] # NoRec)
        /\ recs'[c] = NoRec /\ saved[c] # NoRec =>
             view[c].side # saved[c].side /\ (saved[c].state = "pending" => rest[c] = "none")
        /\ saved[c].state = "pending" /\ view[c].side # saved[c].side /\ recs'[c] # NoRec => recs'[c] = saved[c]
        /\ <<c, "cancel">> \in todo' =>
             saved[c].state = "pending" /\ recs'[c] = saved[c] /\ view[c].side # saved[c].side
                  /\ rest[c] # "none"
        /\ <<c, "close">> \in todo' =>
             saved[c].state = "open" /\ recs'[c] = saved[c] /\ view[c].side = saved[c].side
    BY <2>0, <2>2, HandledRecord
  <2>4. BookOf(c) = saved[c] /\ BookOf(c)' = recs'[c]
    BY <1>5 DEF BookOf
  <2>5. (Covered(c)' <=> Covered(c)) /\ (Small(c) => Small(c)')
    BY <1>1, <1>2, Relisted
  <2>6. step \notin {"cover", "uncover"} /\ step' \notin {"cover", "uncover"} /\ step' # "orders"
        /\ pos' = pos /\ rest' = rest /\ view' = view /\ saved' = saved
    BY <1>2
  <2>7. Mild =>
          /\ rest[c] # "none" => pos[c] = Flat /\ saved[c].state = "pending" /\ saved[c].side = rest[c]
          /\ view[c] # Flat => rest[c] = "none"
          /\ saved[c].side # "none" /\ pos[c].side = saved[c].side /\ ~Covered(c) => saved[c].bare
    BY <1>2, <1>5, <2>1, <2>4 DEF CoinInv, MildCoin, Flagged
  <2>8. Mild \/ Steady => pos[c] = view[c] \/ pos[c] = Flat
    BY <1>2, <2>1 DEF CoinInv, Unmoved
  <2>9. Mild \/ Steady => pos[c].size <= view[c].size
    BY <2>8, Sizes
  <2>10. Mild' => MildCoin(c)'
    <3>1. Mild /\ rest[c] # "none" => recs'[c] = saved[c] /\ view[c] = Flat
      <4>1. Mild /\ rest[c] # "none" => view[c] = Flat /\ saved[c].state = "pending" /\ saved[c] # NoRec
                                          /\ saved[c].side # "none"
        BY <2>7, <2>a
      <4> QED
        BY <2>3, <4>1, Sizes
    <3>2. Mild => (pos[c] # Flat => view[c] # Flat)
      BY <2>8
    <3>3. Mild =>
            /\ <<c, "cancel">> \in todo' => pos[c] = Flat /\ recs'[c].state = "pending"
            /\ <<c, "close">> \in todo' => recs'[c].state = "open" /\ view[c] # Flat
      <4>1. Mild /\ <<c, "cancel">> \in todo' => pos[c] = Flat
        BY <2>3, <2>7
      <4> QED
        BY <2>3, <2>a, <4>1, Sizes
    <3>4. Mild => (recs'[c].side # "none" /\ pos[c].side = recs'[c].side /\ ~Covered(c)' => recs'[c].bare)
      BY <2>3, <2>5, <2>7, <2>a
    <3> QED
      BY <1>2, <1>3, <1>5, <2>4, <2>6, <2>7, <3>1, <3>2, <3>3, <3>4 DEF MildCoin, Flagged
  <2>11. Mild' \/ Steady' => Unmoved(c)'
    BY <1>2, <1>3, <2>6, <2>9 DEF Unmoved
  <2>12. Steady' => SteadyCoin(c)'
    <3>1. Steady => SteadyCoin(c)
      BY <2>1 DEF CoinInv
    <3>2. Steady /\ <<c, "cancel">> \in todo' => pos[c] = Flat \/ pos[c].side # saved[c].side
      BY <2>3, <2>8
    <3> QED
      BY <1>3, <1>5, <2>5, <2>6, <2>9, <3>1, <3>2 DEF SteadyCoin
  <2>13. Whole' => OnRecord(c)'
    <3>1. Whole => (Side(c) # "none" => saved[c].side = Side(c))
      BY <2>1, <2>4 DEF CoinInv, OnRecord
    <3>2. Whole /\ Side(c) # "none" => recs'[c] # NoRec
      <4>1. CASE rest[c] # "none"
        BY <1>3, <2>3, <2>7, <2>a, <4>1
      <4>2. CASE rest[c] = "none"
        <5>1. Whole /\ Side(c) # "none" => pos[c] # Flat /\ view[c] = pos[c] /\ saved[c].side = pos[c].side
                                             /\ saved[c] # NoRec
          BY <1>3, <2>8, <2>a, <3>1, <4>2, Sizes DEF Side
        <5> QED
          BY <2>3, <5>1
      <4> QED
        BY <4>1, <4>2
    <3>3. Side(c)' = Side(c)
      BY <2>6 DEF Side
    <3> QED
      BY <1>3, <2>3, <2>4, <3>1, <3>2, <3>3 DEF OnRecord
  <2>14. Sized' => RightSize(c)'
    <3>1. Sized => /\ pos[c].size <= 2 * (1 + cfg.adds)
                   /\ saved[c] # NoRec => pos[c].size <= 2 * (1 + saved[c].adds)
      BY <2>1, <2>4, <2>6 DEF CoinInv, RightSize
    <3> QED
      BY <1>2, <1>3, <2>3, <2>4, <2>6, <3>1 DEF RightSize
  <2> QED
    BY <2>10, <2>11, <2>12, <2>13, <2>14 DEF CoinInv
<1>7. CASE ~Mild' /\ ~Steady'
  BY <1>7, CoinsLost
<1>8. Careful' /\ MildWork'
  BY <1>2, NoHands
<1> QED
  BY <1>4, <1>6, <1>7, <1>8 DEF CoinsInv, Hands

\* what the invariant says of a coin while what runs is managed
LEMMA AtManage ==
    ASSUME Facts, NEW c \in Coins, CoinInv(c), step = "manage"
    PROVE  /\ Mild =>
                /\ rest[c] # "none" => pos[c] = Flat /\ recs[c].state = "pending" /\ recs[c].side = rest[c]
                /\ view[c] # Flat => rest[c] = "none"
                /\ pos[c] # Flat => view[c] # Flat \/ recs[c] # NoRec
                /\ <<c, "cancel">> \in todo => pos[c] = Flat /\ recs[c].state = "pending"
                /\ <<c, "close">> \in todo => recs[c].state = "open" /\ view[c] # Flat
                /\ recs[c].side # "none" /\ pos[c].side = recs[c].side /\ ~Covered(c) => recs[c].bare
           /\ Mild \/ Steady => pos[c].size <= view[c].size
           /\ Steady => (<<c, "cancel">> \in todo => pos[c] = Flat \/ pos[c].side # saved[c].side)
           /\ Steady /\ ~Engine =>
                /\ pos[c] = Flat \/ rest[c] # "none" => Small(c)
                /\ rest[c] # "none" => view[c].size <= 2
                /\ view[c] = Flat /\ c \in Ahead => Small(c) /\ (rest[c] # "none" => pos[c] = Flat)
           /\ Whole => (Side(c) # "none" => recs[c].side = Side(c))
           /\ Sized =>
                /\ pos[c].size <= 2 * (1 + cfg.adds)
                /\ recs[c] # NoRec => pos[c].size <= 2 * (1 + recs[c].adds)
<1>1. step \in Busy /\ step \in Read /\ BookOf(c) = recs[c] /\ step \notin {"cover", "uncover"}
  BY DEF Busy, Read, BookOf
<1>2. Mild =>
        /\ rest[c] # "none" => pos[c] = Flat /\ recs[c].state = "pending" /\ recs[c].side = rest[c]
        /\ view[c] # Flat => rest[c] = "none"
        /\ pos[c] # Flat => view[c] # Flat \/ recs[c] # NoRec
        /\ <<c, "cancel">> \in todo => pos[c] = Flat /\ recs[c].state = "pending"
        /\ <<c, "close">> \in todo => recs[c].state = "open" /\ view[c] # Flat
        /\ recs[c].side # "none" /\ pos[c].side = recs[c].side /\ ~Covered(c) => recs[c].bare
  BY <1>1 DEF CoinInv, MildCoin, Flagged
<1>3. Mild \/ Steady => pos[c].size <= view[c].size
  BY DEF CoinInv, Unmoved
<1>4. Steady => /\ <<c, "cancel">> \in todo => pos[c] = Flat \/ pos[c].side # saved[c].side
                /\ ~Engine =>
                    /\ pos[c] = Flat \/ rest[c] # "none" => Small(c)
                    /\ rest[c] # "none" => view[c].size <= 2
                    /\ view[c] = Flat /\ c \in Ahead => Small(c) /\ (rest[c] # "none" => pos[c] = Flat)
  BY <1>1 DEF CoinInv, SteadyCoin
<1>5. /\ Whole => (Side(c) # "none" => recs[c].side = Side(c))
      /\ Sized =>
                /\ pos[c].size <= 2 * (1 + cfg.adds)
                /\ recs[c] # NoRec => pos[c].size <= 2 * (1 + recs[c].adds)
  BY <1>1 DEF CoinInv, OnRecord, RightSize
<1> QED
  BY <1>2, <1>3, <1>4, <1>5

\* a coin that has been managed
Managed(c) ==
    /\ Mild' =>
         /\ rest'[c] # "none" => pos'[c] = Flat /\ recs'[c].state = "pending" /\ recs'[c].side = rest'[c]
         /\ view[c] # Flat => rest'[c] = "none"
         /\ pos'[c] # Flat => view[c] # Flat \/ recs'[c] # NoRec
         /\ <<c, "cancel">> \notin todo' /\ <<c, "close">> \notin todo'
         /\ recs'[c].side # "none" /\ pos'[c].side = recs'[c].side /\ ~Covered(c)' => recs'[c].bare
    /\ Mild' \/ Steady' => pos'[c].size <= view[c].size
    /\ Steady' => (<<c, "cancel">> \in todo' => pos'[c] = Flat \/ pos'[c].side # saved[c].side)
    /\ Steady' /\ ~Engine =>
         /\ pos'[c] = Flat \/ rest'[c] # "none" => Small(c)'
         /\ rest'[c] # "none" => view[c].size <= 2
         /\ view[c] = Flat /\ c \in Ahead => Small(c)' /\ (rest'[c] # "none" => pos'[c] = Flat)
    /\ Whole' => (Side(c)' # "none" => recs'[c].side = Side(c)')
    /\ Sized' =>
         /\ pos'[c].size <= 2 * (1 + cfg.adds)
         /\ recs'[c] # NoRec => pos'[c].size <= 2 * (1 + recs'[c].adds)

\* What a cancel or a close does to its coin suffices for the coins.
LEMMA ManagedCoins ==
    ASSUME Facts, CoinsInv, step = "manage", step' = step, UNCHANGED <<cfg, saved, view, queue>>,
           suffered \subseteq suffered', todo' \subseteq todo, NEW c \in Coins, Managed(c),
           \A d \in Coins : d # c =>
               pos'[d] = pos[d] /\ rest'[d] = rest[d] /\ stops'[d] = stops[d] /\ recs'[d] = recs[d]
    PROVE  CoinsInv'
<1>1. /\ step \in Busy /\ step' \in Busy /\ step' \in Read /\ step' # "orders" /\ step' = "manage"
      /\ step' \notin {"cover", "uncover"} /\ Ahead' = Ahead /\ (Engine' <=> Engine)
  BY Grows DEF Busy, Read, Ahead, InWork, CoinsOf
<1>2. BookOf(c)' = recs'[c]
  BY <1>1 DEF BookOf
<1>3. Mild' => MildCoin(c)'
  BY <1>1, <1>2 DEF MildCoin, Flagged, Managed
<1>4. Mild' \/ Steady' => Unmoved(c)'
  BY <1>1 DEF Unmoved, Managed
<1>5. Steady' => SteadyCoin(c)'
  BY <1>1, <1>2 DEF SteadyCoin, Managed
<1>6. (Whole' => OnRecord(c)') /\ (Sized' => RightSize(c)')
  BY <1>1, <1>2 DEF OnRecord, RightSize, Managed
<1>7. CoinInv(c)'
  BY <1>3, <1>4, <1>5, <1>6 DEF CoinInv
<1>8. ASSUME NEW d \in Coins, d # c PROVE CoinInv(d)'
  <2>1. CoinInv(d)
    BY DEF CoinsInv
  <2> QED
    BY <1>1, <1>8, <2>1, Bystander
<1>9. Careful' /\ MildWork'
  BY <1>1, NoHands
<1>10. \A d \in Coins : CoinInv(d)'
  BY <1>7, <1>8
<1> QED
  BY <1>9, <1>10 DEF CoinsInv, Hands

\* A cancel keeps what holds of the coins.
LEMMA CancelCoins == ASSUME Facts, CoinsInv, LooseInv, NEW c \in Coins, CancelEntry(c) PROVE CoinsInv'
<1>1. /\ step = "manage" /\ step' = step /\ <<c, "cancel">> \in todo /\ todo' = todo \ {<<c, "cancel">>}
      /\ UNCHANGED <<cfg, pos, saved, view, queue>> /\ suffered \subseteq suffered'
      /\ Pop(c) /\ stops' \in {stops, [stops EXCEPT ![c] = {}]}
      /\ \/ rest' = [rest EXCEPT ![c] = "none"]
         \/ rest' = rest /\ ("cancel" \in suffered' \/ loose[c] # Nothing)
  <2>1. ASSUME NEW s \in Sides, NEW n \in 1..2, LessLoose(c, s, n) PROVE loose[c] # Nothing
    BY <2>1 DEF LessLoose, Nothing
  <2> QED
    BY <2>1 DEF CancelEntry, stored, Mishap
<1>2. CoinInv(c)
  BY DEF CoinsInv
<1>3. /\ recs'[c] = NoRec /\ stops'[c] \subseteq stops[c] /\ rest'[c] \in {"none", rest[c]}
      /\ \A d \in Coins : d # c => rest'[d] = rest[d] /\ stops'[d] = stops[d] /\ recs'[d] = recs[d]
  BY <1>1, PutAt
<1>4. (Mild' => Mild) /\ (Whole' => Mild') /\ (Sized' => Mild') /\ (Steady' => Steady)
  <2>1. (Whole' => Mild') /\ (Sized' => Mild')
    BY DEF Whole, Sized, Mild
  <2> QED
    BY <1>1, <2>1, Grows
<1>5. Mild' => rest'[c] = "none"
  <2>1. Mild' => loose[c] = Nothing
    BY <1>4, NothingLoose
  <2> QED
    BY <1>1, <1>3, <2>1, PutAt DEF Mild
<1>6. Mild' => pos'[c] = Flat /\ <<c, "close">> \notin todo'
  BY <1>1, <1>2, <1>4, AtManage
<1>7. Small(c) => Small(c)'
  BY <1>1, <1>3 DEF Small
<1>8. /\ Whole' => Side(c)' = "none"
      /\ Sized' => pos'[c].size = 0
  BY <1>4, <1>5, <1>6, FlatFacts DEF Side
<1>9. <<c, "cancel">> \notin todo'
  BY <1>1
<1>10. /\ Mild' \/ Steady' => pos'[c].size <= view[c].size
       /\ Steady' /\ ~Engine =>
            /\ pos'[c] = Flat \/ rest'[c] # "none" => Small(c)'
            /\ rest'[c] # "none" => view[c].size <= 2
            /\ view[c] = Flat /\ c \in Ahead => Small(c)' /\ (rest'[c] # "none" => pos'[c] = Flat)
  BY <1>1, <1>2, <1>3, <1>4, <1>7, AtManage
<1>11. Managed(c)
  BY <1>3, <1>5, <1>6, <1>8, <1>9, <1>10, Sizes DEF Managed
<1> QED
  BY <1>1, <1>3, <1>11, ManagedCoins

\* A close after the longest hold keeps what holds of the coins.
LEMMA TimeOutCoins == ASSUME Facts, CoinsInv, NEW c \in Coins, TimeOut(c) PROVE CoinsInv'
<1>1. /\ step = "manage" /\ step' = step /\ <<c, "close">> \in todo /\ todo' = todo \ {<<c, "close">>}
      /\ UNCHANGED <<cfg, saved, view, queue>> /\ suffered \subseteq suffered'
      /\ \/ Close(c) /\ (Pop(c) \/ UNCHANGED recs)
         \/ CloseHalf(c) /\ Pop(c) /\ "partial" \in suffered'
         \/ UNCHANGED <<exchange, recs>>
  BY DEF TimeOut, stored, Mishap
<1>2. CoinInv(c)
  BY DEF CoinsInv
<1>3. /\ rest' = rest /\ pos'[c].size <= pos[c].size /\ pos'[c].size \in Nat
      /\ pos'[c] = Flat \/ (pos'[c].side = pos[c].side /\ stops'[c] = stops[c] /\ pos[c] # Flat)
      /\ stops'[c] \subseteq stops[c]
      /\ \A d \in Coins : d # c => pos'[d] = pos[d] /\ stops'[d] = stops[d] /\ recs'[d] = recs[d]
  <2>1. CASE Close(c)
    BY <1>1, <2>1, LessAt, PutAt, Sizes
  <2>2. CASE CloseHalf(c) /\ Pop(c)
    BY <2>2, LessAt, PutAt, Sizes
  <2>3. CASE UNCHANGED <<exchange, recs>>
    BY <2>3, Sizes DEF exchange
  <2> QED
    BY <1>1, <2>1, <2>2, <2>3
<1>4. \/ recs'[c] = recs[c]
      \/ recs'[c] = NoRec /\ (pos'[c] = Flat \/ "partial" \in suffered')
  BY <1>1, PutAt, LessAt
<1>5. (Mild' => Mild) /\ (Whole' => Whole) /\ (Sized' => Sized) /\ (Steady' => Steady)
      /\ (Whole' => Mild')
  <2>1. Whole' => Mild'
    BY DEF Whole, Mild
  <2> QED
    BY <1>1, <2>1, Grows
<1>6. Mild => recs[c].state = "open" /\ view[c] # Flat /\ rest[c] = "none" /\ <<c, "cancel">> \notin todo
  BY <1>1, <1>2, AtManage
<1>7. pos'[c] # Flat /\ ~Covered(c)' => ~Covered(c)
  <2>1. pos'[c] # Flat => \A o \in stops[c] : o.size >= pos[c].size => o.size >= pos'[c].size
    BY <1>3, Sizes
  <2> QED
    BY <1>3, <2>1 DEF Covered
<1>8. Small(c) => Small(c)'
  BY <1>3, Sizes DEF Small
<1>9. pos'[c] = Flat => pos'[c].side = "none" /\ pos'[c].size = 0
  BY FlatFacts
<1>10. Mild' =>
         /\ rest'[c] = "none" /\ view[c] # Flat
         /\ <<c, "cancel">> \notin todo' /\ <<c, "close">> \notin todo'
         /\ recs'[c].side # "none" /\ pos'[c].side = recs'[c].side /\ ~Covered(c)' => recs'[c].bare
  <2>1. Mild => (recs[c].side # "none" /\ pos[c].side = recs[c].side /\ ~Covered(c) => recs[c].bare)
    BY <1>1, <1>2, AtManage
  <2>2. <<c, "cancel">> \notin todo => <<c, "cancel">> \notin todo' /\ <<c, "close">> \notin todo'
    BY <1>1
  <2>3. Mild => (recs'[c].side # "none" /\ pos'[c].side = recs'[c].side /\ ~Covered(c)' => recs'[c].bare)
    <3>1. recs'[c].side # "none" => recs'[c] = recs[c]
      BY <1>4, Sizes
    <3>2. recs'[c].side # "none" /\ pos'[c].side = recs'[c].side => pos'[c] # Flat /\ pos'[c].side = pos[c].side
      BY <1>3, <1>9
    <3> QED
      BY <1>7, <2>1, <3>1, <3>2
  <2>4. rest'[c] = rest[c]
    BY <1>3
  <2>5. Mild => rest[c] = "none" /\ view[c] # Flat
    BY <1>6
  <2>6. Mild => <<c, "cancel">> \notin todo' /\ <<c, "close">> \notin todo'
    BY <1>6, <2>2
  <2>7. rest'[c] = "none" <=> rest[c] = "none"
    BY <2>4
  <2> QED
    BY <1>5, <2>3, <2>5, <2>6, <2>7
<1>11. Mild' \/ Steady' => pos'[c].size <= view[c].size
  <2>1. pos'[c].size <= pos[c].size /\ pos'[c].size \in Nat /\ pos[c].size \in Nat /\ view[c].size \in Nat
    BY <1>3, Sizes
  <2>2. Mild \/ Steady => pos[c].size <= view[c].size
    BY <1>1, <1>2, AtManage
  <2> QED
    BY <1>5, <2>1, <2>2
<1>12. Steady' => (<<c, "cancel">> \in todo' => pos'[c] = Flat \/ pos'[c].side # saved[c].side)
  BY <1>1, <1>2, <1>3, <1>5, AtManage
<1>13. Steady' /\ ~Engine =>
            /\ pos'[c] = Flat \/ rest'[c] # "none" => Small(c)'
            /\ rest'[c] # "none" => view[c].size <= 2
            /\ view[c] = Flat /\ c \in Ahead => Small(c)' /\ (rest'[c] # "none" => pos'[c] = Flat)
  <2>1. CASE Close(c)
    <3>1. Small(c)'
      BY <2>1, LessAt, FlatFacts DEF Small
    <3> QED
      BY <1>1, <1>2, <1>3, <1>5, <2>1, <3>1, AtManage, LessAt
  <2>2. CASE CloseHalf(c) \/ UNCHANGED exchange
    <3>1. (pos'[c] = Flat => pos[c] = Flat)
      BY <2>2, LessAt DEF exchange
    <3>2. pos[c] = Flat => pos'[c] = Flat
      BY <1>3
    <3> QED
      BY <1>1, <1>2, <1>3, <1>5, <1>8, <3>1, <3>2, AtManage
  <2> QED
    BY <1>1, <2>1, <2>2 DEF exchange
<1>14. Whole' => (Side(c)' # "none" => recs'[c].side = Side(c)')
  <2>1. Whole' => "partial" \notin suffered'
    BY DEF Whole
  <2>2. Whole => (Side(c) # "none" => recs[c].side = Side(c))
    BY <1>1, <1>2, AtManage
  <2>3. rest[c] = "none" => Side(c)' = pos'[c].side /\ Side(c) = pos[c].side
    BY <1>3 DEF Side
  <2> QED
    BY <1>3, <1>4, <1>5, <1>6, <1>9, <2>1, <2>2, <2>3
<1>15. Sized' =>
         /\ pos'[c].size <= 2 * (1 + cfg.adds)
         /\ recs'[c] # NoRec => pos'[c].size <= 2 * (1 + recs'[c].adds)
  <2>1. /\ pos[c].size \in Nat /\ cfg.adds \in Nat /\ recs[c].adds \in Nat
    BY Sizes
  <2>2. Sized => /\ pos[c].size <= 2 * (1 + cfg.adds)
                 /\ recs[c] # NoRec => pos[c].size <= 2 * (1 + recs[c].adds)
    BY <1>1, <1>2, AtManage
  <2>3. recs'[c] # NoRec => recs'[c] = recs[c]
    BY <1>4
  <2> QED
    BY <1>3, <1>5, <2>1, <2>2, <2>3
<1>16. Managed(c)
  BY <1>10, <1>11, <1>12, <1>13, <1>14, <1>15 DEF Managed
<1> QED
  BY <1>1, <1>3, <1>16, ManagedCoins

\* what a fill makes of the position and its stops
LEMMA FillAt ==
    ASSUME Facts, NEW c \in Coins, Fill(c)
    PROVE  /\ rest[c] \in Sides /\ rest'[c] = "none" /\ pos'[c] = Traded(pos[c], rest[c], 2)
           /\ pos'[c] \in Positions /\ pos'[c].size \in Nat
           /\ stops'[c] = (IF pos'[c].side = pos[c].side THEN stops[c] ELSE {})
                             \union (IF pos'[c].side = rest[c] THEN {StopOf(2)} ELSE {})
           /\ \A d \in Coins : d # c => pos'[d] = pos[d] /\ rest'[d] = rest[d] /\ stops'[d] = stops[d]
           /\ UNCHANGED <<cfg, saved, locals>> /\ suffered \subseteq suffered' /\ ~Engine
           /\ step \in {"orders", "manage"} => "late_fill" \in suffered'
<1>1. rest \in [Coins -> Sides \union {"none"}] /\ pos \in [Coins -> Positions]
      /\ stops \in [Coins -> SUBSET StopOrders]
  BY TypeNow
<1>2. rest[c] \in Sides
  BY <1>1 DEF Fill
<1>3. pos'[c] = Traded(pos[c], rest[c], 2) /\ pos'[c] \in Positions
  BY <1>1, <1>2, TradedFacts DEF Fill
<1>4. pos'[c].size \in Nat
  BY <1>3, PositionFacts
<1>5. ~Engine
  BY <1>2 DEF Facts, WorkFacts, Sides
<1>6. /\ rest'[c] = "none"
      /\ stops'[c] = (IF pos'[c].side = pos[c].side THEN stops[c] ELSE {})
                             \union (IF pos'[c].side = rest[c] THEN {StopOf(2)} ELSE {})
      /\ \A d \in Coins : d # c => pos'[d] = pos[d] /\ rest'[d] = rest[d] /\ stops'[d] = stops[d]
  BY <1>1 DEF Fill, StopsKept, Attached
<1>7. /\ UNCHANGED <<cfg, saved, locals>> /\ suffered \subseteq suffered'
      /\ step \in {"orders", "manage"} => "late_fill" \in suffered'
  BY DEF Fill, Reading, stored, Mishap
<1> QED
  BY <1>2, <1>3, <1>4, <1>5, <1>6, <1>7

\* a fill of what was left resting on a small position
LEMMA SmallFill ==
    ASSUME Facts, NEW c \in Coins, Fill(c), Small(c)
    PROVE  /\ pos'[c].side = pos[c].side => pos'[c].size > 2 \/ pos'[c] = Flat
           /\ pos'[c].size <= 2 => Small(c)'
           /\ pos'[c].size > 2 => Overgrown(c)'
           /\ pos'[c] = Flat => Overgrown(c)'
           /\ pos'[c].size = 1 => pos[c].size = 1 /\ pos'[c].side = rest[c]
           /\ pos'[c].size \in {1, 2} => pos'[c].side = rest[c]
           /\ pos'[c].side = rest[c] => \E o \in stops'[c] : o.size = 2 /\ ~o.listed
           /\ pos[c] = Flat => stops'[c] = {StopOf(2)} /\ pos'[c].size = 2
<1>1. /\ rest[c] \in Sides /\ pos'[c] = Traded(pos[c], rest[c], 2)
      /\ pos'[c] \in Positions /\ pos'[c].size \in Nat
      /\ stops'[c] = (IF pos'[c].side = pos[c].side THEN stops[c] ELSE {})
                             \union (IF pos'[c].side = rest[c] THEN {StopOf(2)} ELSE {})
  BY FillAt
<1>2. pos[c].size <= 2 /\ pos[c].size \in Nat /\ \A o \in stops[c] : o.size <= 2
  BY Sizes DEF Small
<1>3. StopOf(2).size = 2 /\ ~StopOf(2).listed
  BY SizeFacts, StopFacts
<1>4. \A o \in stops'[c] : o.size <= 2
  BY <1>1, <1>2, <1>3
<1>5. pos'[c].size <= 2 => Small(c)'
  BY <1>4 DEF Small
<1>6. \A o \in stops'[c] : o.size \in Nat
  BY <1>1, <1>2, <1>3, Sizes
<1>7. pos'[c].size > 2 => Overgrown(c)'
  BY <1>1, <1>4, <1>6 DEF Overgrown
<1>8. pos'[c].side = rest[c] => \E o \in stops'[c] : o.size = 2 /\ ~o.listed
  BY <1>1, <1>3
<1>a. /\ pos[c] = Flat <=> pos[c].side = "none"
      /\ pos[c] = Flat <=> pos[c].size = 0
      /\ pos'[c] = Flat <=> pos'[c].size = 0
      /\ pos'[c] = Flat <=> pos'[c].side = "none"
      /\ rest[c] # "none"
  BY <1>1, PositionFacts, Sizes DEF Sides
<1>9. CASE pos[c].side \in {rest[c], "none"}
  <2>1. pos'[c].side = rest[c] /\ pos'[c].size = Capped(pos[c].size + 2)
    BY <1>1, <1>9, TradedFacts, Sizes
  <2>2. /\ pos[c].size = 0 => pos'[c].size = 2
        /\ pos[c].size > 0 => pos'[c].size > 2
    <3>1. pos[c].size + 2 <= MaxSize /\ pos[c].size + 2 \in Nat
      BY <1>2, SizeFacts
    <3>2. pos'[c].size = pos[c].size + 2
      BY <2>1, <3>1, SizeFacts
    <3> QED
      BY <1>2, <3>2
  <2>3. pos[c] = Flat => stops'[c] = {StopOf(2)}
    BY <1>1, <1>a, <2>1
  <2> QED
    BY <1>2, <1>5, <1>7, <1>8, <1>a, <2>1, <2>2, <2>3
<1>10. CASE pos[c].side \notin {rest[c], "none"}
  <2>1. CASE pos[c].size = 2
    <3>1. pos'[c] = Flat
      BY <1>1, <1>10, <2>1 DEF Traded
    <3>2. stops'[c] = {}
      BY <1>1, <1>10, <1>a, <3>1
    <3> QED
      BY <1>5, <1>7, <1>8, <1>10, <1>a, <3>1, <3>2, <2>1 DEF Overgrown
  <2>2. CASE pos[c].size = 1
    <3>1. pos'[c] = [side |-> rest[c], size |-> 2 - pos[c].size]
      BY <1>1, <1>10, <2>2 DEF Traded
    <3>2. pos'[c].side = rest[c] /\ pos'[c].size = 1
      BY <2>2, <3>1
    <3> QED
      BY <1>5, <1>7, <1>8, <1>10, <1>a, <3>2, <2>2
  <2>3. pos[c].size # 0
    BY <1>10, <1>a
  <2> QED
    BY <1>2, <2>1, <2>2, <2>3
<1> QED
  BY <1>9, <1>10

\* it leaves size two only where there was no position
LEMMA FillTwo ==
    ASSUME Facts, NEW c \in Coins, Fill(c), Small(c), pos'[c].size = 2
    PROVE  pos[c] = Flat
<1>1. rest[c] \in Sides /\ pos'[c] = Traded(pos[c], rest[c], 2)
  BY FillAt
<1>2. pos[c].size <= 2 /\ pos[c].size \in Nat
  BY Sizes DEF Small
<1>3. CASE pos[c].side \in {rest[c], "none"}
  <2>1. pos[c].size + 2 <= MaxSize /\ pos[c].size + 2 \in Nat
    BY <1>2, SizeFacts
  <2>2. pos'[c].size = Capped(pos[c].size + 2)
    BY <1>1, <1>3, TradedFacts, Sizes
  <2>3. pos'[c].size = pos[c].size + 2
    BY <2>1, <2>2, SizeFacts
  <2> QED
    BY <1>2, <2>3, Sizes
<1>4. CASE pos[c].side \notin {rest[c], "none"} /\ pos[c].size = 2
  <2>1. pos'[c] = Flat
    BY <1>1, <1>4 DEF Traded
  <2> QED
    BY <2>1, FlatFacts
<1>5. CASE pos[c].side \notin {rest[c], "none"} /\ pos[c].size = 1
  <2>1. pos'[c] = [side |-> rest[c], size |-> 2 - pos[c].size]
    BY <1>1, <1>5 DEF Traded
  <2> QED
    BY <1>5, <2>1
<1>6. pos[c].side \notin {rest[c], "none"} => pos[c].size # 0
  BY Sizes
<1> QED
  BY <1>2, <1>3, <1>4, <1>5, <1>6

\* A fill keeps what holds of its coin.
LEMMA FillCoin == ASSUME Facts, CoinsInv, NEW c \in Coins, Fill(c) PROVE CoinInv(c)'
<1>1. /\ rest[c] \in Sides /\ rest'[c] = "none" /\ pos'[c] = Traded(pos[c], rest[c], 2)
      /\ pos'[c] \in Positions /\ pos'[c].size \in Nat
      /\ stops'[c] = (IF pos'[c].side = pos[c].side THEN stops[c] ELSE {})
                             \union (IF pos'[c].side = rest[c] THEN {StopOf(2)} ELSE {})
      /\ UNCHANGED <<cfg, saved, locals>> /\ suffered \subseteq suffered' /\ ~Engine
      /\ step \in {"orders", "manage"} => "late_fill" \in suffered'
  BY FillAt
<1>2. CoinInv(c)
  BY DEF CoinsInv
<1>3. (Mild' => Mild) /\ (Whole' => Mild') /\ (Sized' => Mild') /\ (Steady' => Steady) /\ ~Engine'
  <2>1. (Whole' => Mild') /\ (Sized' => Mild')
    BY DEF Whole, Sized, Mild
  <2> QED
    BY <1>1, <2>1, Grows
<1>4. /\ step' = step /\ view' = view /\ recs' = recs /\ todo' = todo /\ queue' = queue /\ saved' = saved
      /\ BookOf(c)' = BookOf(c) /\ Ahead' = Ahead
  BY <1>1 DEF locals, BookOf, Ahead, CoinsOf
<1>5. Mild' \/ Steady' => step \notin {"orders", "manage"}
  BY <1>1 DEF Mild, Steady
<1>6. Mild => pos[c] = Flat /\ BookOf(c).state = "pending" /\ BookOf(c).side = rest[c]
               /\ (step \in Read => view[c] = Flat)
  BY <1>1, <1>2 DEF CoinInv, MildCoin, Sides
<1>7. Mild => /\ pos'[c].side = rest[c] /\ pos'[c].size = 2
              /\ Covered(c)' /\ pos'[c] # Flat
  <2>1. Mild => pos'[c].side = rest[c] /\ pos'[c].size = 2
    BY <1>1, <1>6, TradedFacts, Sizes
  <2>2. StopOf(2).size = 2
    BY SizeFacts, StopFacts
  <2> QED
    BY <1>1, <2>1, <2>2, FlatFacts DEF Covered
<1>8. Mild' => MildCoin(c)'
  <2>1. Mild /\ step \in Busy => recs[c] # NoRec
    <3>1. step \in Busy => BookOf(c) = recs[c]
      BY DEF BookOf
    <3> QED
      BY <1>6, <3>1, Sizes
  <2> QED
    BY <1>1, <1>3, <1>4, <1>5, <1>7, <2>1 DEF MildCoin, Flagged
<1>9. Mild' \/ Steady' => Unmoved(c)'
  <2>1. step \in Busy => step \in Read
    BY DEF Read
  <2> QED
    BY <1>3, <1>4, <1>5, <1>6, <2>1 DEF Unmoved
<1>10. Steady' => SteadyCoin(c)'
  <2> SUFFICES ASSUME Steady' PROVE SteadyCoin(c)'
    OBVIOUS
  <2>1. SteadyCoin(c) /\ step # "manage"
    BY <1>2, <1>3, <1>5 DEF CoinInv
  <2>2. Small(c)
    BY <1>1, <2>1 DEF SteadyCoin, Sides
  <2>3. pos'[c] = Flat => Small(c)'
    <3>1. Flat.size <= 2
      BY FlatFacts
    <3> QED
      BY <2>2, <3>1, SmallFill
  <2>4. ASSUME step \in Busy, c \in Ahead, view[c] # Flat
        PROVE  pos'[c].size <= view[c].size \/ Overgrown(c)'
    <3>1. view[c].size \in Nat /\ view[c].size > 0
      BY <2>4, Sizes, TypeNow, PositionFacts
    <3>2. step \in Read
      BY <2>4 DEF Read
    <3>3. view[c].size <= 2
      BY <1>1, <2>1, <3>2 DEF SteadyCoin, Sides
    <3>4. pos'[c].size = 2 => pos'[c].size <= view[c].size \/ Overgrown(c)'
      <4>1. pos'[c].size = 2 /\ pos[c] = Flat => Overgrown(c)' \/ view[c].size = 2
        <5>1. StopOf(2).listed = FALSE
          BY SizeFacts, StopFacts
        <5> QED
          BY <2>2, <5>1, SmallFill DEF Overgrown
      <4>2. pos'[c].size = 2 => pos[c] = Flat
        BY <1>1, <2>2, FillTwo
      <4> QED
        BY <3>1, <3>3, <4>1, <4>2
    <3>5. pos'[c].size \in {0, 1} => pos'[c].size <= view[c].size
      BY <3>1
    <3>6. pos'[c].size > 2 => Overgrown(c)'
      BY <2>2, SmallFill
    <3> QED
      BY <1>1, <3>4, <3>5, <3>6
  <2>5. step \in Read /\ view[c] = Flat /\ c \in Ahead => Small(c)'
    <3>1. step \in Read /\ view[c] = Flat /\ c \in Ahead => pos[c] = Flat
      BY <1>1, <2>1 DEF SteadyCoin, Sides
    <3> QED
      BY <2>2, <3>1, SmallFill
  <2> QED
    BY <1>1, <1>3, <1>4, <2>1, <2>3, <2>4, <2>5 DEF SteadyCoin
<1>11. Whole' => OnRecord(c)'
  <2>1. Side(c)' = pos'[c].side
    BY <1>1 DEF Side
  <2> QED
    BY <1>3, <1>4, <1>6, <1>7, <2>1 DEF OnRecord
<1>12. Sized' => RightSize(c)'
  <2>1. BookOf(c).adds \in Nat /\ cfg.adds \in Nat
    <3>1. BookOf(c) \in Records /\ cfg \in Settings
      BY TypeNow DEF BookOf
    <3> QED
      BY <3>1, RecordFacts, SettingFacts
  <2> QED
    BY <1>1, <1>3, <1>4, <1>7, <2>1 DEF RightSize
<1> QED
  BY <1>8, <1>9, <1>10, <1>11, <1>12 DEF CoinInv

\* A fill keeps what holds of the coins.
LEMMA FillCoins == ASSUME Facts, CoinsInv, NEW c \in Coins, Fill(c) PROVE CoinsInv'
<1>1. /\ UNCHANGED <<cfg, saved, locals>> /\ suffered \subseteq suffered' /\ ~Engine
      /\ \A d \in Coins : d # c => pos'[d] = pos[d] /\ rest'[d] = rest[d] /\ stops'[d] = stops[d]
      /\ rest[c] \in Sides
  BY FillAt
<1>2. CoinInv(c)'
  BY FillCoin
<1>3. ASSUME NEW d \in Coins, d # c PROVE CoinInv(d)'
  <2>1. CoinInv(d)
    BY DEF CoinsInv
  <2> QED
    BY <1>1, <1>3, <2>1, Bystander
<1>4. step' = step /\ view' = view /\ recs' = recs /\ queue' = queue
  BY <1>1 DEF locals
<1>5. (Mild' => Mild) /\ (Steady' => Steady)
  BY <1>1, Grows
<1>6. step \notin {"open", "reopen"}
  BY <1>1 DEF Facts, WorkFacts
<1>7. CASE step \notin {"cover", "uncover", "swap"}
  BY <1>2, <1>3, <1>4, <1>6, <1>7, NoHands DEF CoinsInv, Hands
<1>8. CASE step \in {"cover", "uncover", "swap"}
  <2>1. PICK d \in Coins : d = Setup.coin /\ step \in Later /\ step \in InWork
    BY <1>8, AtHand DEF InWork
  <2>2. Setup'.coin = d /\ Setup' = Setup /\ Mine' = Mine
    BY <1>4, <2>1 DEF Setup, Mine
  <2>3. /\ Mine.state = "open" /\ view[d].side = Mine.side /\ Mine = recs[d]
        /\ step # "swap" => recs[d].adds < cfg.adds
    BY <1>8, <2>1 DEF Facts, WorkFacts, Mine
  <2>4. view[d] # Flat
    BY <2>1, <2>3, Sizes
  <2>5. CoinInv(c) /\ CoinInv(d) /\ Hands
    BY DEF CoinsInv
  <2>6. Mild' => d # c
    BY <1>1, <1>5, <2>1, <2>4, <2>5, AtCoin DEF Sides
  <2>7. Steady' /\ step \in {"cover", "uncover"} => FALSE
    BY <1>1, <1>5, <2>1, <2>3, Sizes DEF Steady, Engine
  <2>8. Mild \/ Steady => /\ step = "cover" => pos[d].size <= Capped(view[d].size + 2)
                          /\ step = "swap" => Fresh(d) \/ Overgrown(d)
    BY <2>1, <2>5 DEF Hands, Careful
  <2>9. d # c => (Fresh(d) => Fresh(d)') /\ (Overgrown(d) => Overgrown(d)')
    BY <1>1, <2>1 DEF Fresh, Overgrown
  <2>10. Steady' /\ step = "swap" /\ d = c => Fresh(d)' \/ Overgrown(d)'
    <3> SUFFICES ASSUME Steady', step = "swap", d = c PROVE Fresh(c)' \/ Overgrown(c)'
      BY <2>1
    <3>1. Small(c)
      BY <1>1, <1>5, <2>1, <2>5, AtCoin DEF Sides
    <3>2. /\ pos'[c].size > 2 => Overgrown(c)'
          /\ pos'[c] = Flat => Overgrown(c)'
          /\ pos'[c].size \in {1, 2} => \E o \in stops'[c] : o.size = 2 /\ ~o.listed
      BY <3>1, SmallFill
    <3>3. pos'[c] \in Positions
      BY FillAt
    <3>4. pos'[c].size \in Nat /\ (pos'[c].size = 0 => pos'[c] = Flat)
      BY <3>3, PositionFacts
    <3>5. pos'[c].size \in {1, 2} => Fresh(c)'
      BY <3>2, <3>4 DEF Fresh
    <3> QED
      BY <3>2, <3>4, <3>5
  <2>11. Mild' \/ Steady' => Careful'
    <3>1. CASE step = "swap"
      <4>1. Mild' \/ Steady' => Fresh(d)' \/ Overgrown(d)'
        BY <1>5, <2>6, <2>8, <2>9, <2>10, <3>1
      <4> QED
        BY <1>4, <2>1, <2>2, <3>1, <4>1, SwapCareful
    <3>2. CASE step # "swap"
      <4>1. Steady' => FALSE
        BY <1>8, <2>7, <3>2
      <4>2. Mild' => (step = "cover" => pos'[d].size <= Capped(view[d].size + 2))
        BY <1>1, <1>5, <2>1, <2>6, <2>8
      <4> QED
        BY <1>4, <1>6, <2>2, <3>2, <4>1, <4>2 DEF Careful
    <3> QED
      BY <3>1, <3>2
  <2>12. Mild' => MildWork'
    <3>1. Mild' => MildWork /\ pos'[d] = pos[d] /\ stops'[d] = stops[d]
      BY <1>1, <1>5, <2>1, <2>5, <2>6 DEF Hands
    <3>2. MildWork /\ pos'[d] = pos[d] /\ stops'[d] = stops[d] => MildWork'
      BY <1>4, <2>1, <2>2 DEF MildWork
    <3> QED
      BY <3>1, <3>2
  <2> QED
    BY <1>2, <1>3, <2>11, <2>12 DEF CoinsInv, Hands
<1> QED
  BY <1>7, <1>8

\* A stop or target that fills keeps what holds of the coins.
LEMMA ExitCoins == ASSUME Facts, CoinsInv, NEW c \in Coins, Exit(c) PROVE CoinsInv'
<1>1. /\ pos[c].size > 0 /\ pos'[c] = Flat /\ stops'[c] = {} /\ rest' = rest
      /\ UNCHANGED <<cfg, saved, locals, suffered>>
      /\ \A d \in Coins : d # c => pos'[d] = pos[d] /\ stops'[d] = stops[d]
  BY LessAt DEF Exit, stored
<1>2. /\ step' = step /\ view' = view /\ recs' = recs /\ queue' = queue /\ todo' = todo /\ saved' = saved
      /\ Setup' = Setup /\ Mine' = Mine
  BY <1>1 DEF locals, Setup, Mine
<1>3. (Mild' => Mild) /\ (Whole' => Whole) /\ (Sized' => Sized) /\ (Steady' => Steady)
      /\ (Engine' <=> Engine) /\ (Whole => Mild)
  BY <1>1, Grows
<1>4. ASSUME NEW d \in Coins, d # c PROVE CoinInv(d)'
  <2>1. CoinInv(d)
    BY DEF CoinsInv
  <2> QED
    BY <1>1, <1>4, <2>1, Bystander
<1>5. pos'[c].side = "none" /\ pos'[c].size = 0 /\ pos[c] # Flat
  BY <1>1, FlatFacts
<1>6. CoinInv(c)'
  <2>1. CoinInv(c)
    BY DEF CoinsInv
  <2>2. /\ BookOf(c)' = BookOf(c) /\ Ahead' = Ahead
    BY <1>2 DEF BookOf, Ahead, CoinsOf
  <2>3. Mild' => MildCoin(c)'
    <3>1. Mild' => MildCoin(c)
      BY <1>3, <2>1 DEF CoinInv
    <3> QED
      BY <1>1, <1>2, <1>5, <2>2, <3>1 DEF MildCoin, Flagged
  <2>4. Mild' \/ Steady' => Unmoved(c)'
    <3>1. view[c].size \in Nat
      BY Sizes
    <3> QED
      BY <1>1, <1>2, <1>5, <3>1 DEF Unmoved
  <2>5. Small(c)'
    BY <1>1, <1>5 DEF Small
  <2>6. Steady' => SteadyCoin(c)'
    <3>1. Steady' => SteadyCoin(c)
      BY <1>3, <2>1 DEF CoinInv
    <3>2. view[c].size \in Nat
      BY Sizes
    <3> QED
      BY <1>1, <1>2, <1>3, <1>5, <2>2, <2>5, <3>1, <3>2 DEF SteadyCoin
  <2>7. Whole' => OnRecord(c)'
    <3>1. Mild => rest[c] = "none"
      BY <1>5, <2>1 DEF CoinInv, MildCoin
    <3>2. rest[c] = "none" => Side(c)' = "none"
      BY <1>1, <1>5 DEF Side
    <3> QED
      BY <1>3, <3>1, <3>2 DEF OnRecord
  <2>8. RightSize(c)'
    <3>1. BookOf(c).adds \in Nat /\ cfg.adds \in Nat
      <4>1. BookOf(c) \in Records /\ cfg \in Settings
        BY TypeNow DEF BookOf
      <4> QED
        BY <4>1, RecordFacts, SettingFacts
    <3> QED
      BY <1>1, <1>5, <2>2, <3>1 DEF RightSize
  <2> QED
    BY <2>3, <2>4, <2>6, <2>7, <2>8 DEF CoinInv
<1>7. (Mild' \/ Steady' => Careful') /\ (Mild' => MildWork')
  <2>1. Hands
    BY DEF CoinsInv
  <2>2. CASE step \in InWork
    <3>1. PICK d \in Coins : d = Setup.coin
      BY <2>2, AtHand
    <3>2. pos'[d].size \in Nat /\ view[d].size \in Nat /\ (d = c => pos'[d] = Flat /\ stops'[d] = {})
          /\ (d # c => pos'[d] = pos[d] /\ stops'[d] = stops[d])
      BY <1>1, <1>5, Sizes
    <3>3. Capped(view[d].size + 2) \in Nat
      BY <3>2, SizeFacts
    <3>4. /\ Fresh(d) \/ Overgrown(d) => Fresh(d)' \/ Overgrown(d)'
      BY <3>2 DEF Fresh, Overgrown
    <3>5. Setup'.coin = d
      BY <1>2, <3>1
    <3>6. Careful => Careful'
      <4>1. CASE step = "swap"
        <5>1. Careful => Fresh(d) \/ Overgrown(d)
          BY <3>1, <4>1 DEF Careful
        <5> QED
          BY <1>2, <3>1, <3>4, <3>5, <4>1, <5>1, SwapCareful
      <4>2. CASE step # "swap"
        BY <1>2, <1>5, <3>1, <3>2, <3>3, <3>5, <4>2 DEF Careful
      <4> QED
        BY <4>1, <4>2
    <3>7. MildWork => MildWork'
      BY <1>2, <3>1, <3>2, <3>5 DEF MildWork
    <3> QED
      BY <1>3, <2>1, <3>6, <3>7 DEF Hands
  <2>3. CASE step \notin InWork
    BY <1>2, <2>3, NoHands DEF InWork
  <2> QED
    BY <2>2, <2>3
<1> QED
  BY <1>4, <1>6, <1>7 DEF CoinsInv, Hands

\* A fill in part comes with a mishap or after one.
LEMMA PartCoins ==
    ASSUME Facts, CoinsInv, LooseInv, NEW c \in Coins, FillPart(c) \/ FillLoose(c)
    PROVE  CoinsInv'
<1>1. CASE FillPart(c)
  <2>1. rest[c] # "none" /\ cfg' = cfg /\ Mishap("part_fill")
    BY <1>1 DEF FillPart
  <2>2. ~Engine
    BY <2>1 DEF Facts, WorkFacts
  <2> QED
    BY <2>1, <2>2, PartLost, CoinsLost
<1>2. CASE FillLoose(c)
  <2>1. PICK s \in Sides, n \in 1..2 : LessLoose(c, s, n)
    BY <1>2 DEF FillLoose
  <2>2. loose[c] # Nothing
    BY <2>1 DEF LessLoose, Nothing
  <2>3. ~Mild /\ ~Steady
    BY <2>2, NothingLoose
  <2>4. suffered' = suffered /\ cfg' = cfg
    BY <1>2 DEF FillLoose
  <2>5. ~Mild' /\ ~Steady'
    BY <2>3, <2>4, Grows
  <2> QED
    BY <2>5, CoinsLost
<1> QED
  BY <1>1, <1>2

\* A step that changes nothing keeps what holds of the coins.
LEMMA StutterCoins == ASSUME Facts, CoinsInv, UNCHANGED vars PROVE CoinsInv'
<1>1. UNCHANGED <<cfg, pos, rest, stops, saved, suffered, locals>>
  BY DEF vars, exchange, stored
<1>2. step' = step /\ view' = view /\ recs' = recs /\ queue' = queue /\ Setup' = Setup /\ Mine' = Mine
  BY <1>1 DEF locals, Setup, Mine
<1>3. ASSUME NEW c \in Coins PROVE CoinInv(c)'
  <2>1. CoinInv(c)
    BY DEF CoinsInv
  <2> QED
    BY <1>1, <2>1, Bystander
<1>4. Hands'
  <2>1. /\ Careful => Careful'
        /\ MildWork => MildWork'
    BY <1>1, <1>2 DEF Careful, MildWork, Fresh, Overgrown
  <2> QED
    BY <1>1, <2>1, Grows DEF CoinsInv, Hands
<1> QED
  BY <1>3, <1>4 DEF CoinsInv

\* What holds of the coins holds at first.
LEMMA CoinsInit == BookInit => CoinsInv
<1> SUFFICES ASSUME BookInit PROVE CoinsInv
  OBVIOUS
<1>1. Facts
  BY FactsInit
<1>2. /\ step = "idle" /\ step \notin Busy /\ step \notin Read
  BY DEF BookInit, Busy, Read, InWork
<1>3. ASSUME NEW c \in Coins PROVE CoinInv(c)
  <2>1. pos[c] = Flat /\ rest[c] = "none" /\ stops[c] = {} /\ BookOf(c) = NoRec
    BY <1>2 DEF BookInit, BookOf, NoRecs
  <2>2. pos[c].size = 0 /\ pos[c].side = "none" /\ NoRec.side = "none" /\ cfg.adds \in Nat
    BY <1>1, <2>1, Sizes
  <2>3. MildCoin(c) /\ Unmoved(c)
    BY <1>2, <2>1, <2>2 DEF MildCoin, Unmoved, Flagged
  <2>4. SteadyCoin(c) /\ OnRecord(c) /\ RightSize(c)
    BY <1>2, <2>1, <2>2 DEF SteadyCoin, Small, OnRecord, RightSize, Side
  <2> QED
    BY <2>3, <2>4 DEF CoinInv
<1> QED
  BY <1>2, <1>3 DEF CoinsInv, Hands, Careful, MildWork

\* Every step keeps what holds of the coins.
LEMMA CoinsStep == Facts /\ CoinsInv /\ LooseInv /\ [BookNext]_vars => CoinsInv'
<1> SUFFICES ASSUME Facts, CoinsInv, LooseInv, [BookNext]_vars PROVE CoinsInv'
  OBVIOUS
<1>1. CASE UNCHANGED vars
  BY <1>1, StutterCoins
<1>2. CASE Begin \/ Stop \/ NewCandle
  BY <1>2, BeginCoins, StopCoins
<1>3. CASE \E c \in Coins : Fill(c) \/ FillPart(c) \/ FillLoose(c) \/ Exit(c)
  BY <1>3, FillCoins, PartCoins, ExitCoins
<1>4. CASE Work
  <2>1. CASE ReadAccount \/ Sweep \/ (\E c \in Coins : CancelEntry(c) \/ TimeOut(c)) \/ StartBatch
    BY <2>1, ReadAccountCoins, SweepCoinsInv, CancelCoins, TimeOutCoins, BatchCoins
  <2>2. CASE TurnDown \/ GoMarket \/ PlaceLimit \/ \E flip \in BOOLEAN : OpenMarket(flip) \/ CloseBare(flip)
    BY <2>2, QuietCoins, GoMarketCoins, PlaceLimitCoins, OpenMarketCoins, CloseBareCoins
  <2>3. CASE FlipClose \/ FlipLeft \/ KeepLevels \/ TightenStop \/ Add
    BY <2>3, FlipCloseCoins, FlipLeftCoins, QuietCoins, TightenCoins, AddCoins
  <2>4. CASE CoverAdd \/ UndoAdd \/ DropOldStops \/ SaveCount
    BY <2>4, CoverCoins, UndoCoins, DropCoins, QuietCoins
  <2>5. CASE Save
    BY <2>5, QuietCoins, SaveCoins DEF Save
  <2> QED
    BY <1>4, <2>1, <2>2, <2>3, <2>4, <2>5 DEF Work
<1> QED
  BY <1>1, <1>2, <1>3, <1>4 DEF BookNext

-----------------------------------------------------------------------------
(* The limits' counters and what they count. *)

\* What may rest loose after more or less of it is of its type.
LEMMA LooseTyped ==
    ASSUME loose \in [Coins -> [Sides -> Nat]], NEW c \in Coins, NEW s \in Sides, NEW n \in 1..2,
           MoreLoose(c, s, n) \/ LessLoose(c, s, n)
    PROVE  loose' \in [Coins -> [Sides -> Nat]]
<1>1. loose[c] \in [Sides -> Nat] /\ loose[c][s] \in Nat
  OBVIOUS
<1>2. CASE MoreLoose(c, s, n)
  <2>1. loose[c][s] + n \in Nat /\ loose' = [loose EXCEPT ![c] = [loose[c] EXCEPT ![s] = loose[c][s] + n]]
    BY <1>1, <1>2 DEF MoreLoose
  <2> QED
    BY <1>1, <2>1
<1>3. CASE LessLoose(c, s, n)
  <2>1. loose[c][s] - n \in Nat /\ loose' = [loose EXCEPT ![c] = [loose[c] EXCEPT ![s] = loose[c][s] - n]]
    BY <1>1, <1>3 DEF LessLoose
  <2> QED
    BY <1>1, <2>1
<1> QED
  BY <1>2, <1>3

\* Nothing rests loose at first.
LEMMA LooseInit == BookInit => LooseInv
BY DEF BookInit, LooseInv, Nothing

\* Every step keeps what is known of what rests loose.
LEMMA LooseStep == Facts /\ CoinsInv /\ LooseInv /\ [BookNext]_vars => LooseInv'
<1> SUFFICES ASSUME Facts, CoinsInv, LooseInv, [BookNext]_vars PROVE LooseInv'
  OBVIOUS
<1>0. /\ loose \in [Coins -> [Sides -> Nat]] /\ (Mild' => Mild) /\ (Engine' <=> Engine) /\ cfg' = cfg
  BY StepGrows, Grows DEF LooseInv
<1>1. CASE UNCHANGED loose
  BY <1>0, <1>1 DEF LooseInv
<1>2. ASSUME NEW c \in Coins, NEW s \in Sides, NEW n \in 1..2, LessLoose(c, s, n) PROVE LooseInv'
  <2>1. loose[c] # Nothing
    BY <1>2 DEF LessLoose, Nothing
  <2>2. ~Mild /\ ~Engine
    BY <2>1 DEF LooseInv
  <2> QED
    BY <1>0, <1>2, <2>2, LooseTyped DEF LooseInv
<1>3. ASSUME NEW c \in Coins, NEW s \in Sides, NEW n \in 1..2, MoreLoose(c, s, n), ~Engine, ~Mild'
      PROVE  LooseInv'
  BY <1>0, <1>3, LooseTyped DEF LooseInv
<1>4. CASE PlaceLimit
  <2>1. /\ Considers /\ Mine = NoRec /\ view[Setup.coin] = Flat /\ ~Engine
    BY <1>4 DEF PlaceLimit, Enters, Engine
  <2>2. PICK c \in Coins, s \in Sides : c = Setup.coin /\ s = Setup.side /\ step \in Later
    BY <2>1, AtHand
  <2>3. CoinInv(c) /\ recs[c] = NoRec
    BY <2>1, <2>2 DEF CoinsInv, Mine
  <2>4. Mild => rest[c] = "none"
    BY <2>2, <2>3, AtCoin, Sizes
  <2>5. rest[c] # "none" => rest[c] \in Sides
    BY TypeNow
  <2>6. \/ UNCHANGED loose
        \/ rest[c] # "none" /\ MoreLoose(c, rest[c], 2)
        \/ MoreLoose(c, s, 1) /\ Mishap("part_fill")
    BY <1>4, <2>2 DEF PlaceLimit, Trade
  <2> QED
    BY <1>0, <1>1, <1>3, <2>1, <2>4, <2>5, <2>6, PartLost
<1>5. CASE \E c \in Coins : Fill(c) \/ FillPart(c) \/ FillLoose(c) \/ Exit(c)
  <2> PICK c \in Coins : Fill(c) \/ FillPart(c) \/ FillLoose(c) \/ Exit(c)
    BY <1>5
  <2>1. CASE FillPart(c)
    <3>1. rest[c] \in Sides /\ MoreLoose(c, rest[c], 1) /\ Mishap("part_fill")
      BY <2>1, TypeNow DEF FillPart
    <3>2. ~Engine
      BY <3>1 DEF Facts, WorkFacts, Sides
    <3> QED
      BY <1>0, <1>3, <3>1, <3>2, PartLost
  <2>2. CASE FillLoose(c)
    BY <1>2, <2>2 DEF FillLoose
  <2>3. CASE Fill(c) \/ Exit(c)
    BY <1>1, <2>3 DEF Fill, Exit, Close
  <2> QED
    BY <2>1, <2>2, <2>3
<1>6. CASE \E c \in Coins : CancelEntry(c)
  BY <1>1, <1>2, <1>6 DEF CancelEntry
<1>7. CASE UNCHANGED vars \/ Begin \/ Stop \/ NewCandle \/ ReadAccount \/ Sweep \/ StartBatch
  BY <1>1, <1>7 DEF vars, exchange, Begin, Stop, NewCandle, ReadAccount, Sweep, StartBatch
<1>8. CASE TurnDown \/ GoMarket \/ KeepLevels \/ TightenStop \/ FlipLeft \/ UndoAdd \/ DropOldStops
           \/ SaveCount \/ Save
  BY <1>1, <1>8
     DEF exchange, TurnDown, GoMarket, KeepLevels, TightenStop, FlipLeft, UndoAdd, DropOldStops,
         SaveCount, Save, PlaceStop
<1>9. CASE (\E c \in Coins : TimeOut(c)) \/ FlipClose \/ \E flip \in BOOLEAN : OpenMarket(flip) \/ CloseBare(flip)
  BY <1>1, <1>9 DEF exchange, TimeOut, FlipClose, OpenMarket, CloseBare, Close, CloseHalf, Trade
<1>10. CASE Add \/ CoverAdd
  BY <1>1, <1>10 DEF exchange, Add, CoverAdd, Trade, PlaceStop
<1> QED
  BY <1>4, <1>5, <1>6, <1>7, <1>8, <1>9, <1>10 DEF BookNext, Work

CountInv == suffered = {} => Counts

\* The coins with a record of one side can be counted.
LEMMA NamedFinite ==
    ASSUME NEW s
    PROVE  /\ IsFiniteSet(Named(s)) /\ Cardinality(Named(s)) \in Nat
           /\ Cardinality(Named(s)') \in Nat
<1>1. IsFiniteSet(Coins) /\ Named(s) \subseteq Coins /\ Named(s)' \subseteq Coins
  BY ScalpBookAssumption DEF Named
<1>2. IsFiniteSet(Named(s)) /\ IsFiniteSet(Named(s)')
  BY <1>1, FS_Subset
<1> QED
  BY <1>2, FS_CardinalityType

\* records only go
LEMMA NamedLess ==
    ASSUME \A c \in Coins : (BookOf(c).side)' \in {BookOf(c).side, "none"}, NEW s \in Sides
    PROVE  Cardinality(Named(s)') <= Cardinality(Named(s))
<1>1. Named(s)' \subseteq Named(s)
  BY DEF Named, Sides
<1> QED
  BY <1>1, NamedFinite, FS_Subset

\* one record comes
LEMMA NamedMore ==
    ASSUME NEW c \in Coins, NEW t \in Sides, (BookOf(c).side)' = t,
           \A d \in Coins : d # c => (BookOf(d).side)' = BookOf(d).side, NEW s \in Sides
    PROVE  /\ s = t => Cardinality(Named(s)') <= Cardinality(Named(s)) + 1
           /\ s # t => Cardinality(Named(s)') <= Cardinality(Named(s))
<1>1. CASE s = t
  <2>1. Named(s)' \subseteq Named(s) \union {c}
    BY <1>1 DEF Named
  <2>2. IsFiniteSet(Named(s) \union {c})
        /\ Cardinality(Named(s) \union {c}) = IF c \in Named(s) THEN Cardinality(Named(s))
                                                                 ELSE Cardinality(Named(s)) + 1
    BY NamedFinite, FS_AddElement
  <2>3. Cardinality(Named(s)') <= Cardinality(Named(s) \union {c})
    BY <2>1, <2>2, FS_Subset
  <2> QED
    BY <1>1, <2>2, <2>3, NamedFinite
<1>2. CASE s # t
  <2>1. Named(s)' \subseteq Named(s)
    BY <1>2 DEF Named
  <2> QED
    BY <1>2, <2>1, NamedFinite, FS_Subset
<1> QED
  BY <1>1, <1>2

\* the counters' types
LEMMA Tallies ==
    ASSUME Facts
    PROVE  /\ batch.LONG \in Nat /\ batch.SHORT \in Nat /\ batch.candle \in Nat /\ entries \in Nat
           /\ filled \in Nat /\ cfg.new \in Nat /\ cfg.open \in Nat /\ cfg.perSide \in Nat
           /\ batch.candle <= cfg.new /\ entries <= cfg.new
           /\ \A s \in Sides : batch[s] \in Nat
<1>1. batch \in [LONG : Nat, SHORT : Nat, candle : 0..cfg.new] /\ entries \in 0..cfg.new
      /\ filled \in Nat /\ cfg.new \in Nat /\ cfg.open \in Nat /\ cfg.perSide \in Nat
  BY SettingFacts DEF Facts, WorkTypeOK
<1> QED
  BY <1>1 DEF Sides

\* the counts before the setups are taken: nothing is counted there
LEMMA CountsEarly ==
    ASSUME Facts, Counts, cfg' = cfg, step' \notin Later, filled' <= entries',
           \A c \in Coins : (BookOf(c).side)' \in {BookOf(c).side, "none"}
    PROVE  Counts'
<1>1. \A s \in Sides : Cardinality(Named(s)') <= Cardinality(Named(s))
                       /\ Cardinality(Named(s)') \in Nat /\ Cardinality(Named(s)) \in Nat
  BY NamedLess, NamedFinite
<1>2. \A s \in Sides : Cardinality(Named(s)) <= cfg.perSide
  BY DEF Counts
<1>3. Cardinality(Named("LONG")) + Cardinality(Named("SHORT")) <= cfg.open
  BY DEF Counts
<1>4. cfg.perSide \in Nat /\ cfg.open \in Nat
  BY Tallies
<1>5. \A s \in Sides : Cardinality(Named(s)') <= cfg.perSide
  BY <1>1, <1>2, <1>4
<1>6. Cardinality(Named("LONG")') + Cardinality(Named("SHORT")') <= cfg.open
  BY <1>1, <1>3, <1>4 DEF Sides
<1> QED
  BY <1>5, <1>6 DEF Counts

\* a setup that enters nothing
LEMMA CountsQuiet ==
    ASSUME Facts, Counts, cfg' = cfg, step \in Later, step' \in Later \ {"bare"},
           step \notin {"bare", "cover", "count", "swap"}, step' # "cover",
           UNCHANGED <<batch, filled, entries>>,
           \A c \in Coins : (BookOf(c).side)' \in {BookOf(c).side, "none"}
    PROVE  Counts'
<1>1. \A s \in Sides : Cardinality(Named(s)') <= Cardinality(Named(s))
                       /\ Cardinality(Named(s)') \in Nat /\ Cardinality(Named(s)) \in Nat
  BY NamedLess, NamedFinite
<1>2. \A s \in Sides : Cardinality(Named(s)) <= cfg.perSide /\ Cardinality(Named(s)) <= batch[s]
                       /\ batch[s] <= cfg.perSide
  BY Tallies, NamedFinite DEF Counts
<1>3. /\ Cardinality(Named("LONG")) + Cardinality(Named("SHORT")) <= cfg.open
      /\ batch.LONG + batch.SHORT <= cfg.open
      /\ filled <= batch.candle /\ batch.candle = entries
  BY Tallies DEF Counts
<1>4. \A s \in Sides : cfg.perSide \in Nat /\ cfg.open \in Nat /\ batch[s] \in Nat
  BY Tallies
<1>5. \A s \in Sides : Cardinality(Named(s)') <= cfg.perSide /\ Cardinality(Named(s)') <= batch[s]
  BY <1>1, <1>2, <1>4
<1>6. Cardinality(Named("LONG")') + Cardinality(Named("SHORT")') <= cfg.open
  BY <1>1, <1>3, <1>4 DEF Sides
<1>7. \A s \in Sides : Cardinality(Named(s)') <= batch'[s] + (IF step' = "bare" /\ s = Setup'.side THEN 1 ELSE 0)
                       /\ batch'[s] <= cfg'.perSide
  BY <1>2, <1>4, <1>5
<1> QED
  BY <1>3, <1>5, <1>6, <1>7, Tallies DEF Counts

\* an entry is made within the limits: counted at once, or when its close has been tried
LEMMA CountsEntered ==
    ASSUME Facts, Counts, cfg' = cfg, step \in Later \ {"bare", "cover", "count", "swap"},
           NEW t \in Sides, Allows(batch, t), NEW c \in Coins,
           (BookOf(c).side)' = t, \A d \in Coins : d # c => (BookOf(d).side)' = BookOf(d).side,
           filled' = filled + 1, entries' = entries,
           \/ step' = "count" /\ batch' = Committed(batch, t)
           \/ step' = "bare" /\ batch' = batch /\ Setup'.side = t
    PROVE  Counts'
<1>1. \A s \in Sides : /\ s = t => Cardinality(Named(s)') <= Cardinality(Named(s)) + 1
                       /\ s # t => Cardinality(Named(s)') <= Cardinality(Named(s))
                       /\ Cardinality(Named(s)') \in Nat /\ Cardinality(Named(s)) \in Nat
  BY NamedMore, NamedFinite
<1>2. \A s \in Sides : Cardinality(Named(s)) <= cfg.perSide /\ Cardinality(Named(s)) <= batch[s]
                       /\ batch[s] <= cfg.perSide
  BY Tallies, NamedFinite DEF Counts
<1>3. /\ batch.LONG + batch.SHORT <= cfg.open
      /\ filled <= batch.candle /\ batch.candle = entries
  BY Tallies DEF Counts
<1>4. \A s \in Sides : cfg.perSide \in Nat /\ cfg.open \in Nat /\ batch[s] \in Nat
  BY Tallies
<1>5. batch.LONG + batch.SHORT < cfg.open /\ batch[t] < cfg.perSide
  BY DEF Allows
<1>6. \A s \in Sides : Cardinality(Named(s)') <= batch[s] + (IF s = t THEN 1 ELSE 0)
  BY <1>1, <1>2, <1>4
<1>7. \A s \in Sides : Cardinality(Named(s)') <= cfg.perSide
  BY <1>1, <1>2, <1>4, <1>5, <1>6
<1>8. Cardinality(Named("LONG")') + Cardinality(Named("SHORT")') <= cfg.open
  <2>1. "LONG" \in Sides /\ "SHORT" \in Sides /\ t \in {"LONG", "SHORT"}
    BY DEF Sides
  <2>2. batch.LONG = batch["LONG"] /\ batch.SHORT = batch["SHORT"]
    OBVIOUS
  <2>3. CASE t = "LONG"
    <3>1. Cardinality(Named("LONG")') <= batch.LONG + 1 /\ Cardinality(Named("SHORT")') <= batch.SHORT
      BY <1>6, <1>4, <1>1, <1>2, <2>1, <2>3
    <3> QED
      BY <1>1, <1>4, <1>5, <2>1, <3>1
  <2>4. CASE t = "SHORT"
    <3>1. Cardinality(Named("LONG")') <= batch.LONG /\ Cardinality(Named("SHORT")') <= batch.SHORT + 1
      BY <1>6, <1>4, <1>1, <1>2, <2>1, <2>4
    <3> QED
      BY <1>1, <1>4, <1>5, <2>1, <3>1
  <2> QED
    BY <2>1, <2>3, <2>4
<1>9. batch \in [LONG : Nat, SHORT : Nat, candle : Nat]
  BY DEF Facts, WorkTypeOK
<1>10. CASE step' = "bare" /\ batch' = batch /\ Setup'.side = t
  <2>1. \A s \in Sides : Cardinality(Named(s)') <= batch'[s] + (IF step' = "bare" /\ s = Setup'.side THEN 1 ELSE 0)
                         /\ batch'[s] <= cfg'.perSide
    BY <1>2, <1>6, <1>10
  <2>2. /\ batch'.LONG + batch'.SHORT <= cfg'.open
        /\ filled' <= batch'.candle + 1 /\ batch'.candle >= entries' /\ batch'.candle = entries'
    BY <1>3, <1>10, Tallies
  <2>3. filled' <= batch'.candle + (IF step' \in {"bare", "cover"} THEN 1 ELSE 0)
    BY <1>10, <2>2
  <2>4. \A s \in Sides : Cardinality(Named(s)') <= cfg'.perSide
    BY <1>7
  <2>5. Cardinality(Named("LONG")') + Cardinality(Named("SHORT")') <= cfg'.open
    BY <1>8
  <2>6. step' \in Later
    BY <1>10 DEF Later, Busy, InWork
  <2> QED
    BY <2>1, <2>2, <2>3, <2>4, <2>5, <2>6 DEF Counts
<1>11. CASE step' = "count" /\ batch' = Committed(batch, t)
  <2>1. /\ batch'.candle = batch.candle + 1
        /\ batch'[t] = batch[t] + 1
        /\ \A s \in Sides : s # t => batch'[s] = batch[s]
    BY <1>9, <1>11 DEF Committed, Sides
  <2>2. \A s \in Sides : Cardinality(Named(s)') <= batch'[s] /\ batch'[s] <= cfg'.perSide
    BY <1>2, <1>4, <1>5, <1>6, <2>1
  <2>3. batch'.LONG + batch'.SHORT <= cfg'.open
    <3>1. CASE t = "LONG"
      BY <1>4, <1>5, <2>1, <3>1 DEF Sides
    <3>2. CASE t = "SHORT"
      BY <1>4, <1>5, <2>1, <3>2 DEF Sides
    <3> QED
      BY <3>1, <3>2 DEF Sides
  <2>4. filled' <= batch'.candle /\ batch'.candle >= entries'
    BY <1>3, <2>1, Tallies
  <2>5. \A s \in Sides : Cardinality(Named(s)') <= cfg'.perSide
    BY <1>7
  <2>6. Cardinality(Named("LONG")') + Cardinality(Named("SHORT")') <= cfg'.open
    BY <1>8
  <2>7. step' \in Later /\ step' = "count"
    BY <1>11 DEF Later, Busy, InWork
  <2>a. batch'.candle \in Nat /\ \A s \in Sides : batch'[s] \in Nat
    BY <1>4, <2>1, Tallies
  <2>8. \A s \in Sides : Cardinality(Named(s)') <= batch'[s] + (IF step' = "bare" /\ s = Setup'.side THEN 1 ELSE 0)
    BY <2>2, <2>7, <2>a
  <2>9. filled' <= batch'.candle + (IF step' \in {"bare", "cover"} THEN 1 ELSE 0)
    BY <2>4, <2>7, <2>a
  <2> QED
    BY <2>2, <2>3, <2>4, <2>5, <2>6, <2>7, <2>8, <2>9 DEF Counts
<1> QED
  BY <1>10, <1>11

\* Starting a pass and reading the account keep the counts.
LEMMA BeginCounts == ASSUME Facts, CountInv, Begin \/ ReadAccount PROVE CountInv'
<1>1. /\ step' \notin Busy /\ step \notin Busy /\ saved' = saved /\ cfg' = cfg
      /\ filled' = filled /\ entries' = entries /\ suffered' = suffered
  BY DEF Begin, ReadAccount, stored, Busy, InWork
<1>2. \A c \in Coins : (BookOf(c).side)' = BookOf(c).side
  BY <1>1 DEF BookOf
<1>3. step' \notin Later /\ step \notin Later
  BY <1>1 DEF Later
<1> QED
  BY <1>1, <1>2, <1>3, CountsEarly DEF CountInv, Counts

\* The sweep keeps the counts.
LEMMA SweepCounts == ASSUME Facts, CountInv, Sweep PROVE CountInv'
<1>1. PICK act \in Acts, found \in {saved, NoRecs}, known \in BOOLEAN :
        /\ IF found = saved THEN UNCHANGED suffered ELSE Mishap("kv")
        /\ recs' = [c \in Coins |-> Swept(found[c], act[c])]
  BY DEF Sweep
<1>2. step = "orders" /\ step' = "manage" /\ UNCHANGED <<cfg, saved, entries, filled>>
  BY DEF Sweep, stored
<1> SUFFICES ASSUME suffered' = {} PROVE Counts'
  BY DEF CountInv
<1>3. found = saved /\ suffered = {}
  BY <1>1 DEF Mishap
<1>4. \A c \in Coins : recs'[c].side \in {saved[c].side, "none"}
  <2> TAKE c \in Coins
  <2>1. recs'[c] = Swept(saved[c], act[c])
    BY <1>1, <1>3
  <2>2. saved[c] \in Records /\ cfg \in Settings
    BY CoinFacts DEF Facts
  <2>3. [saved[c] EXCEPT !.state = "open"].side = saved[c].side /\ NoRec.side = "none"
    BY <2>2 DEF NoRec, Records
  <2> QED
    BY <2>1, <2>3 DEF Swept
<1>5. step \notin Busy /\ step' \in Busy
  BY <1>2 DEF Busy, InWork
<1>6. \A c \in Coins : (BookOf(c).side)' \in {BookOf(c).side, "none"}
  BY <1>4, <1>5 DEF BookOf
<1>7. step \notin Later /\ step' \notin Later
  BY <1>2, <1>5 DEF Later
<1> QED
  BY <1>2, <1>3, <1>6, <1>7, CountsEarly DEF CountInv, Counts

\* A cancel or a close keeps the counts.
LEMMA ManageCounts ==
    ASSUME Facts, CountInv, NEW c \in Coins, CancelEntry(c) \/ TimeOut(c)
    PROVE  CountInv'
<1>1. /\ step = "manage" /\ step' = "manage" /\ UNCHANGED <<cfg, stored, filled>>
      /\ recs' = recs \/ Pop(c)
      /\ suffered \subseteq suffered'
  BY DEF CancelEntry, TimeOut, Mishap
<1>2. recs \in [Coins -> Records] /\ NoRec.side = "none"
  BY TypeNow DEF NoRec
<1>3. \A d \in Coins : recs'[d].side \in {recs[d].side, "none"}
  BY <1>1, <1>2 DEF Pop
<1>4. step \in Busy /\ step' \in Busy /\ step \notin Later /\ step' \notin Later
  BY <1>1 DEF Later, Busy, InWork
<1>5. \A d \in Coins : (BookOf(d).side)' \in {BookOf(d).side, "none"}
  BY <1>3, <1>4 DEF BookOf
<1>6. suffered' = {} => suffered = {}
  BY <1>1
<1>7. filled' = filled /\ entries' = entries
  BY <1>1 DEF stored
<1> QED
  BY <1>1, <1>4, <1>5, <1>6, <1>7, CountsEarly DEF CountInv, Counts

\* the counters start with what is recorded
LEMMA BatchCounts == ASSUME Facts, CountInv, StartBatch PROVE CountInv'
<1>1. PICK n \in {entries, 0} :
        /\ IF n = entries THEN UNCHANGED suffered ELSE Mishap("kv")
        /\ batch' = [LONG |-> Count(recs, "LONG"), SHORT |-> Count(recs, "SHORT"), candle |-> n]
  BY DEF StartBatch
<1>2. step = "manage" /\ step' = "setups" /\ UNCHANGED <<cfg, stored, filled, recs>>
  BY DEF StartBatch
<1> SUFFICES ASSUME suffered' = {} PROVE Counts'
  BY DEF CountInv
<1>3. n = entries /\ suffered = {}
  BY <1>1 DEF Mishap
<1>4. Counts /\ step \notin Later /\ step \in Busy /\ step' \in Busy /\ step' \in Later
  BY <1>2, <1>3 DEF CountInv, Later, Busy, InWork
<1>5. \A s \in Sides : Named(s)' = Named(s) /\ Cardinality(Named(s)) = Count(recs, s)
  BY <1>2, <1>4, CountFacts DEF Named, BookOf
<1>6. \A s \in Sides : batch'[s] = Cardinality(Named(s)') /\ Cardinality(Named(s)) \in Nat
                       /\ Cardinality(Named(s)') = Cardinality(Named(s))
  BY <1>1, <1>5, NamedFinite DEF Sides
<1>7. batch'.LONG = Cardinality(Named("LONG")') /\ batch'.SHORT = Cardinality(Named("SHORT")')
      /\ batch'.candle = entries
  BY <1>1, <1>3, <1>6 DEF Sides
<1>8. /\ filled <= entries /\ entries' = entries /\ filled' = filled
      /\ \A s \in Sides : Cardinality(Named(s)) <= cfg.perSide
      /\ Cardinality(Named("LONG")) + Cardinality(Named("SHORT")) <= cfg.open
  BY <1>2, <1>4 DEF Counts, stored
<1>9. \A s \in Sides : /\ Cardinality(Named(s)') <= batch'[s] + (IF step' = "bare" /\ s = Setup'.side THEN 1 ELSE 0)
                       /\ batch'[s] <= cfg'.perSide /\ Cardinality(Named(s)') <= cfg'.perSide
  BY <1>2, <1>6, <1>8
<1>10. /\ Cardinality(Named("LONG")') + Cardinality(Named("SHORT")') <= cfg'.open
       /\ batch'.LONG + batch'.SHORT <= cfg'.open
  BY <1>2, <1>6, <1>7, <1>8 DEF Sides
<1>11. filled' <= batch'.candle + (IF step' \in {"bare", "cover"} THEN 1 ELSE 0)
       /\ batch'.candle >= entries' /\ batch'.candle = entries'
  BY <1>2, <1>7, <1>8, Tallies
<1> QED
  BY <1>4, <1>9, <1>10, <1>11 DEF Counts

\* A setup that enters nothing keeps the counts.
LEMMA QuietCounts ==
    ASSUME Facts, CountInv, TurnDown \/ GoMarket \/ KeepLevels \/ TightenStop \/ FlipClose \/ FlipLeft
    PROVE  CountInv'
<1>1. /\ step \in {"setups", "left"} /\ step' \in {"setups", "open", "save", "swap", "left", "reopen"}
      /\ UNCHANGED <<cfg, stored, filled, batch, suffered>>
      /\ recs' = recs \/ Pop(Setup.coin)
  BY DEF TurnDown, GoMarket, KeepLevels, TightenStop, FlipClose, FlipLeft, Considers, NextSetup,
         Enters, Updates, SameWay
<1>2. recs \in [Coins -> Records] /\ NoRec.side = "none"
  BY TypeNow DEF NoRec
<1>3. \A d \in Coins : recs'[d].side \in {recs[d].side, "none"}
  BY <1>1, <1>2 DEF Pop
<1>4. /\ step \in Busy /\ step' \in Busy /\ step \in Later /\ step' \in Later
      /\ step \notin {"bare", "cover", "count", "swap"} /\ step' \notin {"bare", "cover"}
  BY <1>1 DEF Later, Busy, InWork
<1>5. \A d \in Coins : (BookOf(d).side)' \in {BookOf(d).side, "none"}
  BY <1>3, <1>4 DEF BookOf
<1>6. filled' = filled /\ entries' = entries /\ batch' = batch /\ cfg' = cfg /\ suffered' = suffered
  BY <1>1 DEF stored
<1> QED
  BY <1>4, <1>5, <1>6, CountsQuiet DEF CountInv

\* A limit entry keeps the counts.
LEMMA PlaceLimitCounts == ASSUME Facts, CountInv, PlaceLimit PROVE CountInv'
<1> SUFFICES ASSUME suffered' = {} PROVE Counts'
  BY DEF CountInv
<1>1. /\ step = "setups" /\ queue # <<>> /\ UNCHANGED <<cfg, stored>> /\ suffered = {}
      /\ Allows(batch, Setup.side)
      /\ filled' = filled + 1 /\ batch' = Committed(batch, Setup.side) /\ step' = "count"
      /\ \E st \in {"pending", "open"} : Record(Setup.coin, Rec(Setup.side, st, FALSE))
  BY DEF PlaceLimit, Enters, Considers, Counted, NextSetup, Trade, Mishap
<1>2. PICK c \in Coins, t \in Sides, st \in {"pending", "open"} :
        c = Setup.coin /\ t = Setup.side /\ Record(c, Rec(t, st, FALSE))
  BY <1>1, SetupFacts DEF Facts, WorkTypeOK
<1>3. recs \in [Coins -> Records] /\ Rec(t, st, FALSE).side = t
  BY TypeNow, RecFacts
<1>4. recs'[c].side = t /\ \A d \in Coins : d # c => recs'[d] = recs[d]
  BY <1>2, <1>3 DEF Record
<1>5. step \in Busy /\ step' \in Busy /\ step \in Later /\ step \notin {"bare", "cover", "count", "swap"}
  BY <1>1 DEF Later, Busy, InWork
<1>6. (BookOf(c).side)' = t /\ \A d \in Coins : d # c => (BookOf(d).side)' = BookOf(d).side
  BY <1>4, <1>5 DEF BookOf
<1>7. entries' = entries /\ Counts /\ cfg' = cfg
  BY <1>1 DEF stored, CountInv
<1> QED
  BY <1>1, <1>2, <1>5, <1>6, <1>7, CountsEntered

\* A market entry keeps the counts.
LEMMA OpenMarketCounts == ASSUME Facts, CountInv, NEW flip \in BOOLEAN, OpenMarket(flip) PROVE CountInv'
<1> SUFFICES ASSUME suffered' = {} PROVE Counts'
  BY DEF CountInv
<1>1. /\ step \in {"open", "reopen"} /\ UNCHANGED <<cfg, stored>>
      /\ \/ /\ recs' = recs /\ filled' = filled /\ batch' = batch /\ step' \in {"save", "setups"}
            /\ suffered' = suffered
         \/ /\ filled' = filled + 1 /\ suffered' = suffered
            /\ \E b \in BOOLEAN : Record(Setup.coin, Rec(Setup.side, "open", b))
            /\ \/ batch' = Committed(batch, Setup.side) /\ step' = "count"
               \/ step' = "bare" /\ batch' = batch /\ queue' = queue
  BY DEF OpenMarket, Counted, NextSetup, Trade, Mishap, exchange
<1>2. queue # <<>> /\ Allows(batch, Setup.side)
  BY <1>1 DEF Facts, WorkFacts, InWork
<1>3. /\ step \in Busy /\ step \in Later /\ step \notin {"bare", "cover", "count", "swap"}
      /\ recs \in [Coins -> Records] /\ entries' = entries /\ cfg' = cfg /\ suffered = {} /\ Counts
  BY <1>1, TypeNow DEF Later, Busy, InWork, stored, CountInv
<1>4. CASE recs' = recs /\ filled' = filled /\ batch' = batch /\ step' \in {"save", "setups"}
  <2>1. step' \in Busy /\ step' \in Later \ {"bare"} /\ step' # "cover"
    BY <1>4 DEF Later, Busy, InWork
  <2>2. \A d \in Coins : (BookOf(d).side)' \in {BookOf(d).side, "none"}
    BY <1>3, <1>4, <2>1 DEF BookOf
  <2> QED
    BY <1>3, <1>4, <2>1, <2>2, CountsQuiet
<1>5. CASE /\ filled' = filled + 1
           /\ \E b \in BOOLEAN : Record(Setup.coin, Rec(Setup.side, "open", b))
           /\ \/ batch' = Committed(batch, Setup.side) /\ step' = "count"
              \/ step' = "bare" /\ batch' = batch /\ queue' = queue
  <2>1. PICK c \in Coins, t \in Sides, b \in BOOLEAN :
          c = Setup.coin /\ t = Setup.side /\ Record(c, Rec(t, "open", b))
    BY <1>2, <1>5, SetupFacts DEF Facts, WorkTypeOK
  <2>2. Rec(t, "open", b).side = t
    BY TypeNow, RecFacts
  <2>3. recs'[c].side = t /\ \A d \in Coins : d # c => recs'[d] = recs[d]
    BY <1>3, <2>1, <2>2 DEF Record
  <2>4. step' \in Busy
    BY <1>5 DEF Busy, InWork
  <2>5. (BookOf(c).side)' = t /\ \A d \in Coins : d # c => (BookOf(d).side)' = BookOf(d).side
    BY <1>3, <2>3, <2>4 DEF BookOf
  <2>6. queue' = queue => Setup'.side = t
    BY <2>1 DEF Setup
  <2>7. Allows(batch, t)
    BY <1>2, <2>1
  <2>8. \/ step' = "count" /\ batch' = Committed(batch, t)
        \/ step' = "bare" /\ batch' = batch /\ Setup'.side = t
    BY <1>5, <2>1, <2>6
  <2> QED
    BY <1>3, <1>5, <2>5, <2>7, <2>8, CountsEntered
<1> QED
  BY <1>1, <1>4, <1>5

\* a bare entry is counted however its close went; a bare flip is a mishap
LEMMA CloseBareCounts == ASSUME Facts, CountInv, NEW flip \in BOOLEAN, CloseBare(flip) PROVE CountInv'
<1> SUFFICES ASSUME suffered' = {} PROVE Counts'
  BY DEF CountInv
<1>1. suffered = {} /\ Counts /\ UNCHANGED <<cfg, stored, filled>>
  BY DEF CloseBare, CountInv
<1>2. step = "bare" /\ ~flip
  BY <1>1 DEF CloseBare, Facts, WorkFacts
<1>3. /\ batch' = Committed(batch, Setup.side) /\ step' = "count"
      /\ recs' = recs \/ Pop(Setup.coin)
  BY <1>2 DEF CloseBare, Counted, NextSetup
<1>4. queue # <<>> /\ Allows(batch, Setup.side)
  BY <1>2 DEF Facts, WorkFacts, InWork
<1>5. PICK t \in Sides : t = Setup.side
  BY <1>4, SetupFacts DEF Facts, WorkTypeOK
<1>6. step \in Busy /\ step \in Later /\ step' \in Busy /\ step' \in Later
  BY <1>2, <1>3 DEF Later, Busy, InWork
<1>7. recs \in [Coins -> Records] /\ NoRec.side = "none"
  BY TypeNow DEF NoRec
<1>8. \A d \in Coins : (BookOf(d).side)' \in {BookOf(d).side, "none"}
  BY <1>3, <1>6, <1>7 DEF BookOf, Pop
<1>9. \A s \in Sides : Cardinality(Named(s)') <= Cardinality(Named(s))
                       /\ Cardinality(Named(s)') \in Nat /\ Cardinality(Named(s)) \in Nat
  BY <1>8, NamedLess, NamedFinite
<1>10. /\ \A s \in Sides : /\ Cardinality(Named(s)) <= batch[s] + (IF s = t THEN 1 ELSE 0)
                           /\ Cardinality(Named(s)) <= cfg.perSide /\ batch[s] <= cfg.perSide
       /\ Cardinality(Named("LONG")) + Cardinality(Named("SHORT")) <= cfg.open
       /\ filled <= batch.candle + 1 /\ batch.candle >= entries
  BY <1>1, <1>2, <1>5, <1>6 DEF Counts
<1>11. batch.LONG + batch.SHORT < cfg.open /\ batch[t] < cfg.perSide
  BY <1>4, <1>5 DEF Allows
<1>12. \A s \in Sides : cfg.perSide \in Nat /\ cfg.open \in Nat /\ batch[s] \in Nat
  BY Tallies
<1>13. /\ batch'.candle = batch.candle + 1
       /\ batch'[t] = batch[t] + 1
       /\ \A s \in Sides : s # t => batch'[s] = batch[s]
  <2>1. batch \in [LONG : Nat, SHORT : Nat, candle : Nat]
    BY DEF Facts, WorkTypeOK
  <2> QED
    BY <1>3, <1>5, <2>1 DEF Committed, Sides
<1>14. \A s \in Sides : /\ Cardinality(Named(s)') <= batch'[s] /\ batch'[s] <= cfg'.perSide
                        /\ Cardinality(Named(s)') <= cfg'.perSide /\ batch'[s] \in Nat
  BY <1>1, <1>9, <1>10, <1>11, <1>12, <1>13
<1>15. Cardinality(Named("LONG")') + Cardinality(Named("SHORT")') <= cfg'.open
  BY <1>1, <1>9, <1>10, <1>12 DEF Sides
<1>16. batch'.LONG + batch'.SHORT <= cfg'.open
  <2>1. CASE t = "LONG"
    BY <1>1, <1>11, <1>12, <1>13, <2>1 DEF Sides
  <2>2. CASE t = "SHORT"
    BY <1>1, <1>11, <1>12, <1>13, <2>2 DEF Sides
  <2> QED
    BY <2>1, <2>2 DEF Sides
<1>17. filled' <= batch'.candle /\ batch'.candle >= entries' /\ batch'.candle \in Nat
  BY <1>1, <1>10, <1>13, Tallies DEF stored
<1>18. \A s \in Sides : Cardinality(Named(s)') <= batch'[s] + (IF step' = "bare" /\ s = Setup'.side THEN 1 ELSE 0)
  BY <1>3, <1>14
<1>19. filled' <= batch'.candle + (IF step' \in {"bare", "cover"} THEN 1 ELSE 0)
  BY <1>3, <1>17
<1> QED
  BY <1>3, <1>6, <1>14, <1>15, <1>16, <1>17, <1>18, <1>19 DEF Counts

\* the records stay, the counters move
LEMMA CountsSame ==
    ASSUME Facts, Counts, cfg' = cfg, step \in Later \ {"bare"}, step' \in Later \ {"bare"},
           batch'.LONG = batch.LONG, batch'.SHORT = batch.SHORT, recs' = recs \/ \A c \in Coins : recs'[c].side = recs[c].side,
           filled' <= batch'.candle + (IF step' = "cover" THEN 1 ELSE 0),
           batch'.candle >= entries', step' \in Later \ {"count", "swap"} => batch'.candle = entries'
    PROVE  Counts'
<1>1. step \in Busy /\ step' \in Busy /\ \A d \in Coins : (BookOf(d).side)' = BookOf(d).side
  BY DEF Later, BookOf
<1>2. \A s \in Sides : Named(s)' = Named(s)
  BY <1>1 DEF Named
<1>3. \A s \in Sides : batch'[s] = batch[s] /\ batch[s] \in Nat
  BY Tallies DEF Sides
<1>4. \A s \in Sides : Cardinality(Named(s)) <= batch[s]
  BY Tallies, NamedFinite DEF Counts
<1>5. \A s \in Sides : Cardinality(Named(s)') <= batch'[s] + (IF step' = "bare" /\ s = Setup'.side THEN 1 ELSE 0)
                       /\ batch'[s] <= cfg'.perSide /\ Cardinality(Named(s)') <= cfg'.perSide
  BY <1>2, <1>3, <1>4 DEF Counts
<1>6. Cardinality(Named("LONG")') + Cardinality(Named("SHORT")') <= cfg'.open
      /\ batch'.LONG + batch'.SHORT <= cfg'.open
  BY <1>2 DEF Counts, Sides
<1>7. filled' <= batch'.candle + (IF step' \in {"bare", "cover"} THEN 1 ELSE 0)
  OBVIOUS
<1> QED
  BY <1>5, <1>6, <1>7 DEF Counts

\* An add keeps the counts.
LEMMA AddCounts == ASSUME Facts, CountInv, Add PROVE CountInv'
<1> SUFFICES ASSUME suffered' = {} PROVE Counts'
  BY DEF CountInv
<1>1. /\ step = "setups" /\ step' = "cover" /\ suffered = {} /\ filled' = filled + 1
      /\ UNCHANGED <<cfg, stored, recs, batch>>
  BY DEF Add, Mishap, SameWay, Updates, Considers, Trade
<1>2. Counts /\ step \in Later \ {"bare"} /\ step' \in Later \ {"bare"} /\ entries' = entries
  BY <1>1 DEF CountInv, Later, Busy, InWork, stored
<1>3. filled <= batch.candle /\ batch.candle = entries
  BY <1>1, <1>2, Tallies DEF Counts
<1>4. /\ filled' <= batch'.candle + (IF step' = "cover" THEN 1 ELSE 0)
      /\ batch'.candle = entries' /\ batch'.candle >= entries'
  BY <1>1, <1>2, <1>3, Tallies
<1> QED
  BY <1>1, <1>2, <1>4, CountsSame

\* Covering an add keeps the counts.
LEMMA CoverCounts == ASSUME Facts, CountInv, CoverAdd PROVE CountInv'
<1> SUFFICES ASSUME suffered' = {} PROVE Counts'
  BY DEF CountInv
<1>1. /\ step = "cover" /\ step' = "swap" /\ suffered = {}
      /\ UNCHANGED <<cfg, stored, filled>> /\ batch' = CommittedAdd(batch)
      /\ Record(Setup.coin, [Mine EXCEPT !.adds = @ + 1, !.bare = FALSE])
  BY DEF CoverAdd, Mishap
<1>2. Counts /\ step \in Later \ {"bare"} /\ step' \in Later \ {"bare"} /\ entries' = entries
  BY <1>1 DEF CountInv, Later, Busy, InWork, stored
<1>3. filled <= batch.candle + 1 /\ batch.candle = entries
  BY <1>1, <1>2 DEF Counts
<1>4. batch' = [batch EXCEPT !.candle = @ + 1] /\ batch \in [LONG : Nat, SHORT : Nat, candle : Nat]
  BY <1>1 DEF CommittedAdd, Facts, WorkTypeOK
<1>5. /\ batch'.LONG = batch.LONG /\ batch'.SHORT = batch.SHORT /\ batch'.candle = batch.candle + 1
  BY <1>4
<1>6. queue # <<>> /\ Mine = recs[Setup.coin] /\ Mine.state = "open"
  BY <1>1 DEF Facts, WorkFacts, InWork, Mine
<1>7. PICK c \in Coins : c = Setup.coin
  BY <1>6, SetupFacts DEF Facts, WorkTypeOK
<1>8. recs \in [Coins -> Records] /\ recs[c] \in Records /\ cfg \in Settings
  BY TypeNow
<1>9. [recs[c] EXCEPT !.adds = @ + 1, !.bare = FALSE].side = recs[c].side
  BY <1>8 DEF Records, NoRec
<1>10. \A d \in Coins : recs'[d].side = recs[d].side
  BY <1>1, <1>6, <1>7, <1>8, <1>9 DEF Record
<1>11. /\ filled' <= batch'.candle + (IF step' = "cover" THEN 1 ELSE 0)
       /\ batch'.candle >= entries' /\ step' \in {"count", "swap"}
  BY <1>1, <1>2, <1>3, <1>5, Tallies
<1> QED
  BY <1>1, <1>2, <1>5, <1>10, <1>11, CountsSame

\* an undone add was a mishap
LEMMA UndoCounts == ASSUME Facts, CountInv, UndoAdd PROVE CountInv'
<1>1. step = "uncover" /\ UNCHANGED suffered
  BY DEF UndoAdd
<1> QED
  BY <1>1 DEF Facts, WorkFacts, CountInv

\* Dropping the old stops keeps the counts.
LEMMA DropCounts == ASSUME Facts, CountInv, DropOldStops PROVE CountInv'
<1> SUFFICES ASSUME suffered' = {} PROVE Counts'
  BY DEF CountInv
<1>1. /\ step = "swap" /\ step' = (IF batch.candle > entries THEN "count" ELSE "save") /\ suffered = {}
      /\ UNCHANGED <<cfg, stored, filled, recs, batch>>
  BY DEF DropOldStops, Mishap, NextSetup
<1>2. Counts /\ step \in Later \ {"bare"} /\ step' \in Later \ {"bare"} /\ entries' = entries
  BY <1>1 DEF CountInv, Later, Busy, InWork, stored
<1>3. filled <= batch.candle /\ batch.candle >= entries
  BY <1>1, <1>2, Tallies DEF Counts
<1>4. /\ filled' <= batch'.candle + (IF step' = "cover" THEN 1 ELSE 0)
      /\ batch'.candle >= entries' /\ (step' # "count" => batch'.candle = entries')
  BY <1>1, <1>2, <1>3, Tallies
<1> QED
  BY <1>1, <1>2, <1>4, CountsSame

\* Writing the candle's count keeps the counts.
LEMMA SaveCountCounts == ASSUME Facts, CountInv, SaveCount PROVE CountInv'
<1> SUFFICES ASSUME suffered' = {} PROVE Counts'
  BY DEF CountInv
<1>1. /\ step = "count" /\ step' = "save" /\ suffered = {} /\ entries' = batch.candle
      /\ UNCHANGED <<cfg, filled, recs, batch>>
  BY DEF SaveCount, Mishap
<1>2. Counts /\ step \in Later \ {"bare"} /\ step' \in Later \ {"bare"}
  BY <1>1 DEF CountInv, Later, Busy, InWork
<1>3. filled <= batch.candle
  BY <1>1, <1>2, Tallies DEF Counts
<1>4. /\ filled' <= batch'.candle + (IF step' = "cover" THEN 1 ELSE 0)
      /\ batch'.candle >= entries' /\ batch'.candle = entries'
  BY <1>1, <1>3, Tallies
<1> QED
  BY <1>1, <1>2, <1>4, CountsSame

\* Writing the records keeps the counts.
LEMMA SaveCounts == ASSUME Facts, CountInv, Save PROVE CountInv'
<1> SUFFICES ASSUME suffered' = {} PROVE Counts'
  BY DEF CountInv
<1>1. /\ step \in {"save", "setups"} /\ step' = (IF step = "save" THEN "setups" ELSE "done")
      /\ saved' = recs /\ suffered = {}
      /\ UNCHANGED <<cfg, entries, filled, recs, batch>>
  BY DEF Save, Mishap
<1>2. Counts /\ step \in Later \ {"bare"} /\ step \in Busy
  BY <1>1 DEF CountInv, Later, Busy, InWork
<1>3. filled <= batch.candle /\ batch.candle = entries
  BY <1>1, <1>2, Tallies DEF Counts
<1>4. CASE step = "save"
  <2>1. step' = "setups" /\ step' \in Later \ {"bare"}
    BY <1>1, <1>4 DEF Later, Busy, InWork
  <2>2. /\ filled' <= batch'.candle + (IF step' = "cover" THEN 1 ELSE 0)
        /\ batch'.candle >= entries' /\ batch'.candle = entries'
    BY <1>1, <1>3, <2>1, Tallies
  <2> QED
    BY <1>1, <1>2, <2>1, <2>2, CountsSame
<1>5. CASE step = "setups"
  <2>1. step' = "done" /\ step' \notin Busy /\ step' \notin Later
    BY <1>1, <1>5 DEF Later, Busy, InWork
  <2>2. \A d \in Coins : (BookOf(d).side)' = BookOf(d).side
    BY <1>1, <1>2, <2>1 DEF BookOf
  <2>3. filled' <= entries'
    BY <1>1, <1>3
  <2> QED
    BY <1>1, <1>2, <2>1, <2>2, <2>3, CountsEarly
<1> QED
  BY <1>1, <1>4, <1>5

\* The end of a pass and a new candle keep the counts.
LEMMA StopCounts == ASSUME Facts, CountInv, Stop \/ NewCandle PROVE CountInv'
<1> SUFFICES ASSUME suffered' = {} PROVE Counts'
  BY DEF CountInv
<1>1. /\ step \in {"done", "idle"} /\ step' = "idle" /\ suffered = {} /\ cfg' = cfg /\ saved' = saved
      /\ \/ filled' = filled /\ entries' = entries
         \/ filled' = 0 /\ entries' = 0
  BY DEF Stop, NewCandle, Idle, Mishap, stored, locals
<1>2. Counts /\ step \notin Busy /\ step' \notin Busy /\ step \notin Later /\ step' \notin Later
  BY <1>1 DEF CountInv, Later, Busy, InWork
<1>3. \A d \in Coins : (BookOf(d).side)' = BookOf(d).side
  BY <1>1, <1>2 DEF BookOf
<1>4. filled' <= entries'
  BY <1>1, <1>2 DEF Counts
<1> QED
  BY <1>1, <1>2, <1>3, <1>4, CountsEarly

\* the exchange's own steps
LEMMA MarketCounts ==
    ASSUME Facts, CountInv, (\E c \in Coins : Fill(c) \/ FillPart(c) \/ FillLoose(c) \/ Exit(c)) \/ UNCHANGED vars
    PROVE  CountInv'
<1>1. UNCHANGED <<cfg, stored, filled, locals>> /\ suffered \subseteq suffered'
  BY DEF Fill, FillPart, FillLoose, Exit, vars, Mishap
<1>2. /\ step' = step /\ recs' = recs /\ saved' = saved /\ batch' = batch /\ queue' = queue
      /\ entries' = entries /\ filled' = filled /\ cfg' = cfg
  BY <1>1 DEF locals, stored
<1>3. \A s : Named(s)' = Named(s)
  BY <1>2 DEF Named, BookOf
<1>4. Setup' = Setup
  BY <1>2 DEF Setup
<1>5. Counts => Counts'
  BY <1>2, <1>3, <1>4 DEF Counts
<1> QED
  BY <1>1, <1>5 DEF CountInv

\* The counters are within the limits at first.
LEMMA CountInit == BookInit => CountInv
<1> SUFFICES ASSUME BookInit PROVE Counts
  BY DEF CountInv
<1>1. Facts
  BY FactsInit
<1>2. step = "idle" /\ step \notin Later /\ step \notin Busy /\ filled = 0 /\ entries = 0
  BY DEF BookInit, Later, Busy, InWork
<1>3. \A s \in Sides : Named(s) = {}
  BY <1>2 DEF Named, BookInit, BookOf, NoRecs, NoRec, Sides
<1>4. \A s \in Sides : Cardinality(Named(s)) = 0
  BY <1>3, FS_EmptySet
<1>5. cfg.perSide \in Nat /\ cfg.open \in Nat
  BY <1>1, Tallies
<1> QED
  BY <1>2, <1>4, <1>5 DEF Counts, Sides

\* Every step keeps the counters within the limits, and what they count.
LEMMA CountStep == Facts /\ CountInv /\ [BookNext]_vars => CountInv'
<1> SUFFICES ASSUME Facts, CountInv, [BookNext]_vars PROVE CountInv'
  OBVIOUS
<1>1. CASE UNCHANGED vars \/ \E c \in Coins : Fill(c) \/ FillPart(c) \/ FillLoose(c) \/ Exit(c)
  BY <1>1, MarketCounts
<1>2. CASE Begin \/ Stop \/ NewCandle
  BY <1>2, BeginCounts, StopCounts
<1>3. CASE Work
  <2>1. CASE ReadAccount \/ Sweep \/ (\E c \in Coins : CancelEntry(c) \/ TimeOut(c)) \/ StartBatch
    BY <2>1, BeginCounts, SweepCounts, ManageCounts, BatchCounts
  <2>2. CASE PlaceLimit \/ \E flip \in BOOLEAN : OpenMarket(flip) \/ CloseBare(flip)
    BY <2>2, PlaceLimitCounts, OpenMarketCounts, CloseBareCounts
  <2>3. CASE FlipClose \/ FlipLeft \/ KeepLevels \/ TightenStop \/ TurnDown \/ GoMarket
    BY <2>3, QuietCounts
  <2>4. CASE Add \/ CoverAdd \/ UndoAdd \/ DropOldStops \/ SaveCount \/ Save
    BY <2>4, AddCounts, CoverCounts, UndoCounts, DropCounts, SaveCountCounts, SaveCounts
  <2> QED
    BY <1>3, <2>1, <2>2, <2>3, <2>4 DEF Work
<1> QED
  BY <1>1, <1>2, <1>3 DEF BookNext

-----------------------------------------------------------------------------
(* The theorems. *)

BookInv == Facts /\ CoinsInv /\ LooseInv /\ CountInv

\* The invariant: the types, the facts about the work, what holds of each coin, the counts.
THEOREM BookInvariant == BookSpec => []BookInv
<1>1. BookInit => BookInv
  BY FactsInit, CoinsInit, LooseInit, CountInit DEF BookInv
<1>2. BookInv /\ [BookNext]_vars => BookInv'
  BY FactsStep, CoinsStep, LooseStep, CountStep DEF BookInv
<1> QED
  BY <1>1, <1>2, PTL DEF BookSpec

\* The types hold in every state of the scalp book.
THEOREM BookTypeCorrect == BookSpec => []BookTypeOK
<1>1. BookInv => BookTypeOK
  BY DEF BookInv, Facts, LooseInv, BookTypeOK
<1> QED
  BY <1>1, BookInvariant, PTL

\* (_scalp_hl: running scalps are always managed) Every scalp on the exchange is on record between
\* passes, unless an answer, a fill, a cancel or a KV command went astray or an entry filled in part.
THEOREM OnRecordAlways == BookSpec => []EveryScalpOnRecord
<1>1. BookInv => EveryScalpOnRecord
  <2> SUFFICES ASSUME BookInv, step = "idle", Whole, NEW c \in Coins, Side(c) # "none"
               PROVE  saved[c].side = Side(c)
    BY DEF EveryScalpOnRecord, Whole
  <2>1. OnRecord(c)
    BY DEF BookInv, CoinsInv, CoinInv
  <2>2. BookOf(c) = saved[c]
    BY DEF BookOf, Busy, InWork
  <2> QED
    BY <2>1, <2>2 DEF OnRecord
<1> QED
  BY <1>1, BookInvariant, PTL

\* (_scalp_protect_add, _scalp_market) A scalp whose size no stop covers is flagged on its record.
THEOREM BareAlwaysFlagged == BookSpec => []BareIsFlagged
<1>1. BookInv => BareIsFlagged
  <2> SUFFICES ASSUME BookInv, step = "idle", Mild, NEW c \in Coins,
                      saved[c].state = "open", pos[c].side = saved[c].side, ~Covered(c)
               PROVE  saved[c].bare
    BY DEF BareIsFlagged, Mild
  <2>1. Flagged(c)
    BY DEF BookInv, CoinsInv, CoinInv, MildCoin
  <2>2. BookOf(c) = saved[c]
    BY DEF BookOf, Busy, InWork
  <2>3. saved[c].side # "none"
    BY RecordFacts, TypeNow DEF BookInv
  <2> QED
    BY <2>1, <2>2, <2>3 DEF Flagged
<1> QED
  BY <1>1, BookInvariant, PTL

\* (_scalp_hl, POSITION_EXISTS) The book holds one net position per coin, of as many adds as
\* allowed, or one entry, as long as its entries fill in full.
THEOREM OneScalpAlways == BookSpec => []OneScalpPerCoin
<1>1. BookInv => OneScalpPerCoin
  <2> SUFFICES ASSUME BookInv PROVE OneScalpPerCoin
    OBVIOUS
  <2>1. Mild => \A c \in Coins : (rest[c] = "none" \/ pos[c] = Flat) /\ loose[c] = Nothing
    BY DEF BookInv, CoinsInv, CoinInv, MildCoin, LooseInv
  <2>2. Sized => \A c \in Coins : pos[c].size <= 2 * (1 + cfg.adds)
    BY DEF BookInv, CoinsInv, CoinInv, RightSize
  <2> QED
    BY <2>1, <2>2 DEF OneScalpPerCoin, Mild, Sized
<1> QED
  BY <1>1, BookInvariant, PTL

\* (scalp_guard.Batch) The limits per candle, per direction and in all hold for what is on the
\* exchange.
THEOREM LimitsHold == BookSpec => []WithinLimits
<1>1. BookInv => WithinLimits
  <2> SUFFICES ASSUME BookInv, suffered = {}
               PROVE  /\ filled <= cfg.new
                      /\ \A s \in Sides : Cardinality(Exposed(s)) <= cfg.perSide
                      /\ Cardinality(UNION {Exposed(s) : s \in Sides}) <= cfg.open
    BY DEF WithinLimits
  <2>1. Facts /\ Counts
    BY DEF BookInv, CountInv
  <2>2. filled <= cfg.new
    <3>1. step \in {"bare", "cover"} => batch.candle < cfg.new
      BY <2>1 DEF Facts, WorkFacts, Allows, AllowsAdd
    <3>2. step \in Later => filled <= batch.candle + (IF step \in {"bare", "cover"} THEN 1 ELSE 0)
      BY <2>1 DEF Counts
    <3>3. step \notin Later => filled <= entries
      BY <2>1 DEF Counts
    <3> QED
      BY <2>1, <3>1, <3>2, <3>3, Tallies
  <2>3. Whole
    BY DEF Whole
  <2>4. \A s \in Sides : Exposed(s) \subseteq Named(s)
    <3>1. \A c \in Coins : OnRecord(c)
      BY <2>3 DEF BookInv, CoinsInv, CoinInv
    <3> QED
      BY <3>1 DEF Exposed, Named, OnRecord, Sides
  <2>5. \A s \in Sides : Cardinality(Exposed(s)) <= Cardinality(Named(s)) /\ IsFiniteSet(Named(s))
                         /\ Cardinality(Named(s)) \in Nat /\ Cardinality(Exposed(s)) \in Nat
    <3> TAKE s \in Sides
    <3>1. IsFiniteSet(Named(s)) /\ Cardinality(Named(s)) \in Nat /\ Exposed(s) \subseteq Named(s)
      BY <2>4, NamedFinite
    <3> QED
      BY <3>1, FS_Subset, FS_CardinalityType
  <2>6. cfg.perSide \in Nat /\ cfg.open \in Nat
    BY <2>1, Tallies
  <2>7. \A s \in Sides : Cardinality(Exposed(s)) <= cfg.perSide
    BY <2>1, <2>5, <2>6 DEF Counts
  <2>8. Cardinality(UNION {Exposed(s) : s \in Sides}) <= cfg.open
    <3> DEFINE L == Named("LONG")  S == Named("SHORT")  U == UNION {Exposed(s) : s \in Sides}
    <3>1. U \subseteq L \union S
      BY <2>4 DEF Sides
    <3>2. IsFiniteSet(L) /\ IsFiniteSet(S) /\ Cardinality(L) \in Nat /\ Cardinality(S) \in Nat
      BY <2>5 DEF Sides
    <3>3. Cardinality(L) + Cardinality(S) <= cfg.open
      BY <2>1 DEF Counts
    <3>4. IsFiniteSet(L \cap S) /\ Cardinality(L \cap S) \in Nat
      <4>1. L \cap S \subseteq L
        OBVIOUS
      <4> HIDE DEF L, S
      <4> QED
        BY <3>2, <4>1, FS_Subset, FS_CardinalityType
    <3> HIDE DEF L, S, U
    <3>5. IsFiniteSet(L \union S) /\ Cardinality(L \union S) = Cardinality(L) + Cardinality(S) - Cardinality(L \cap S)
      BY <3>2, FS_Union
    <3>6. IsFiniteSet(U) /\ Cardinality(U) <= Cardinality(L \union S) /\ Cardinality(U) \in Nat
      BY <3>1, <3>5, FS_Subset, FS_CardinalityType
    <3>7. Cardinality(U) <= cfg.open
      BY <2>6, <3>2, <3>3, <3>4, <3>5, <3>6
    <3> QED
      BY <3>7 DEF U
  <2> QED
    BY <2>2, <2>7, <2>8
<1> QED
  BY <1>1, BookInvariant, PTL

\* what StopKept says of one coin in one step
Stands(c) ==
    Covered(c) /\ saved[c].side = pos[c].side /\ pos'[c].side = pos[c].side
            /\ pos'[c].size \in 1..pos[c].size =>
        Covered(c)'

\* a coin whose stops stay or grow, or that is flat afterwards
LEMMA StandsOn ==
    ASSUME Facts, NEW c \in Coins, stops[c] \subseteq stops'[c] \/ pos'[c] = Flat \/ pos[c] = Flat
    PROVE  Stands(c)
<1>1. CASE stops[c] \subseteq stops'[c]
  <2>1. \A o \in stops[c] : o.size \in Nat
    BY Sizes
  <2>2. pos[c].size \in Nat
    BY Sizes
  <2> QED
    BY <1>1, <2>1, <2>2 DEF Stands, Covered
<1>2. CASE pos'[c] = Flat \/ pos[c] = Flat
  BY <1>2, FlatFacts, Sizes DEF Stands
<1> QED
  BY <1>1, <1>2

\* A fill in part adds to the stops of a position that stays on its side.
LEMMA PartStands ==
    ASSUME Facts, NEW d \in Coins, NEW s \in Sides, NEW n \in 1..2, FillsInPart(d, s, n), NEW c \in Coins
    PROVE  Stands(c)
<1>1. PICK more : stops' = [stops EXCEPT ![d] = StopsKept(d) \union more]
  BY DEF FillsInPart
<1>2. CASE c = d
  <2>1. pos'[c].side = pos[c].side => stops[c] \subseteq stops'[c]
    BY <1>1, <1>2, TypeNow DEF StopsKept
  <2> QED
    BY <2>1, StandsOn DEF Stands
<1>3. CASE c # d
  BY <1>1, <1>3, TypeNow, StandsOn
<1> QED
  BY <1>2, <1>3

\* What the exchange does keeps a recorded scalp's stop.
LEMMA MarketStands ==
    ASSUME Facts, NEW d \in Coins, Fill(d) \/ FillPart(d) \/ FillLoose(d) \/ Exit(d), NEW c \in Coins
    PROVE  Stands(c)
<1>1. CASE Exit(d)
  <2>1. pos'[c] = Flat \/ stops'[c] = stops[c]
    BY <1>1, TypeNow DEF Exit, Close
  <2> QED
    BY <2>1, StandsOn
<1>2. CASE Fill(d)
  <2>1. CASE c = d
    <3>1. pos'[c].side = pos[c].side => stops[c] \subseteq stops'[c]
      BY <1>2, <2>1, TypeNow DEF Fill, StopsKept
    <3> QED
      BY <3>1, StandsOn DEF Stands
  <2>2. CASE c # d
    BY <1>2, <2>2, TypeNow, StandsOn DEF Fill
  <2> QED
    BY <2>1, <2>2
<1>3. CASE FillPart(d)
  <2>1. rest[d] \in Sides /\ FillsInPart(d, rest[d], 1)
    BY <1>3, TypeNow DEF FillPart
  <2> QED
    BY <2>1, PartStands
<1>4. CASE FillLoose(d)
  BY <1>4, PartStands DEF FillLoose
<1> QED
  BY <1>1, <1>2, <1>3, <1>4

\* A cancel or a close keeps a recorded scalp's stop.
LEMMA ManageStands ==
    ASSUME Facts, CoinsInv, Steady, NEW d \in Coins, CancelEntry(d) \/ TimeOut(d), NEW c \in Coins
    PROVE  Stands(c)
<1>1. CASE TimeOut(d)
  <2>1. pos'[c] = Flat \/ stops'[c] = stops[c]
    BY <1>1, TypeNow DEF TimeOut, Close, CloseHalf, exchange
  <2> QED
    BY <2>1, StandsOn
<1>2. CASE CancelEntry(d)
  <2>1. CASE c = d
    <3>1. SteadyCoin(c)
      BY DEF CoinsInv, CoinInv
    <3>2. pos[c] = Flat \/ pos[c].side # saved[c].side
      BY <1>2, <2>1, <3>1 DEF SteadyCoin, CancelEntry
    <3> QED
      BY <3>2, StandsOn DEF Stands
  <2>2. CASE c # d
    BY <1>2, <2>2, TypeNow, StandsOn DEF CancelEntry
  <2> QED
    BY <2>1, <2>2
<1> QED
  BY <1>1, <1>2

\* A limit entry keeps a recorded scalp's stop.
LEMMA PlaceLimitStands ==
    ASSUME Facts, CoinsInv, Steady, PlaceLimit, NEW c \in Coins
    PROVE  Stands(c)
<1>1. CASE stops' = stops
  BY <1>1, StandsOn
<1>2. CASE stops' = [stops EXCEPT ![Setup.coin] = {StopOf(2)}]
  <2>1. /\ Enters /\ ~Engine
        /\ stops' = [stops EXCEPT ![Setup.coin] = {StopOf(2)}]
    BY <1>2 DEF PlaceLimit, Engine
  <2>2. CASE c = Setup.coin
    <3>1. /\ step = "setups" /\ queue # <<>> /\ view[c] = Flat
      BY <2>1, <2>2 DEF Enters, Considers
    <3>2. c \in Ahead /\ step \in Read
      BY <2>2, <3>1, SetupFacts DEF Facts, WorkTypeOK, Ahead, InWork, Read, Busy
    <3>3. Small(c)
      BY <2>1, <3>1, <3>2 DEF CoinsInv, CoinInv, SteadyCoin
    <3>4. StopOf(2).size = 2 /\ stops'[c] = {StopOf(2)}
      BY <2>1, <2>2, TypeNow DEF StopOf
    <3>5. pos[c].size \in Nat /\ pos[c].size <= 2
      BY <3>3, Sizes DEF Small
    <3> QED
      BY <3>4, <3>5 DEF Stands, Covered
  <2>3. CASE c # Setup.coin
    <3>1. stops'[c] = stops[c]
      BY <2>1, <2>3, TypeNow
    <3> QED
      BY <3>1, StandsOn
  <2> QED
    BY <2>2, <2>3
<1>3. CASE FillsInPart(Setup.coin, Setup.side, 1)
  <2>1. /\ Considers /\ Mine = NoRec /\ view[Setup.coin] = Flat
    BY DEF PlaceLimit, Enters
  <2>2. PICK d \in Coins, s \in Sides : d = Setup.coin /\ s = Setup.side
    BY <2>1, AtHand
  <2> QED
    BY <1>3, <2>2, PartStands
<1> QED
  BY <1>1, <1>2, <1>3 DEF PlaceLimit

\* A market entry, or the close of a bare one keeps a recorded scalp's stop.
LEMMA OpenStands ==
    ASSUME Facts, CoinsInv, Steady, NEW flip \in BOOLEAN, OpenMarket(flip) \/ CloseBare(flip), NEW c \in Coins
    PROVE  Stands(c)
<1>1. CASE OpenMarket(flip)
  <2>1. CASE c = Setup.coin
    <3>1. step \in {"open", "reopen"}
      BY <1>1 DEF OpenMarket
    <3>2. pos[c] = Flat
      BY <2>1, <3>1 DEF CoinsInv, Hands, Careful
    <3> QED
      BY <3>2, StandsOn
  <2>2. CASE c # Setup.coin
    <3>1. stops'[c] = stops[c]
      BY <1>1, <2>2, TypeNow DEF OpenMarket, exchange
    <3> QED
      BY <3>1, StandsOn
  <2> QED
    BY <2>1, <2>2
<1>2. CASE CloseBare(flip)
  <2>1. pos'[c] = Flat \/ stops'[c] = stops[c]
    BY <1>2, TypeNow DEF CloseBare, Close, CloseHalf, exchange
  <2> QED
    BY <2>1, StandsOn
<1> QED
  BY <1>1, <1>2

\* Dropping the old stops keeps a recorded scalp's stop.
LEMMA DropStands ==
    ASSUME Facts, CoinsInv, Steady, DropOldStops, NEW c \in Coins
    PROVE  Stands(c)
<1>1. PICK gone \in SUBSET Listed : stops' = [stops EXCEPT ![Setup.coin] = @ \ gone]
  BY DEF DropOldStops
<1>2. step = "swap" /\ pos' = pos
  BY DEF DropOldStops
<1>3. CASE c = Setup.coin
  <2>1. Fresh(c) \/ Overgrown(c)
    BY <1>2, <1>3 DEF CoinsInv, Hands, Careful
  <2>2. \A o \in stops[c] : ~o.listed => o \in stops'[c]
    BY <1>1, <1>3, TypeNow DEF Listed
  <2>3. CASE Fresh(c)
    BY <1>2, <2>2, <2>3 DEF Fresh, Stands, Covered
  <2>4. CASE Overgrown(c)
    <3>1. \A o \in stops[c] : o.size >= pos[c].size => ~o.listed
      BY <2>4, Sizes DEF Overgrown
    <3> QED
      BY <1>2, <2>2, <3>1 DEF Stands, Covered
  <2> QED
    BY <2>1, <2>3, <2>4
<1>4. CASE c # Setup.coin
  BY <1>1, <1>4, TypeNow, StandsOn
<1> QED
  BY <1>3, <1>4

\* Forgetting or learning which stops are listed keeps a recorded scalp's stop.
LEMMA RelistStands == ASSUME Facts, Sweep \/ Stop, NEW c \in Coins PROVE Stands(c)
<1>1. pos' = pos
  BY DEF Sweep, Stop
<1>2. \/ stops' = stops
      \/ stops' = [d \in Coins |-> {[o EXCEPT !.listed = TRUE] : o \in stops[d]}]
      \/ stops' = [d \in Coins |-> {[o EXCEPT !.listed = FALSE] : o \in stops[d]}]
  BY DEF Sweep, Stop, SeesOrders
<1>3. Covered(c)' <=> Covered(c)
  BY <1>1, <1>2, Relisted
<1> QED
  BY <1>1, <1>3 DEF Stands

\* What changes neither the exchange nor a record keeps a recorded scalp's stop.
LEMMA QuietStands ==
    ASSUME Facts, NEW c \in Coins,
           \/ Begin \/ ReadAccount \/ StartBatch \/ TurnDown \/ GoMarket \/ KeepLevels \/ FlipLeft
           \/ FlipClose \/ TightenStop \/ Add \/ CoverAdd \/ UndoAdd \/ SaveCount \/ Save \/ NewCandle
           \/ UNCHANGED vars
    PROVE  Stands(c)
<1>1. CASE FlipClose
  <2>1. pos'[c] = Flat \/ stops'[c] = stops[c]
    BY <1>1, TypeNow DEF FlipClose, Close, CloseHalf, exchange
  <2> QED
    BY <2>1, StandsOn
<1>2. CASE TightenStop \/ CoverAdd
  <2>1. stops[c] \subseteq stops'[c]
    BY <1>2, TypeNow DEF TightenStop, CoverAdd, PlaceStop, exchange
  <2> QED
    BY <2>1, StandsOn
<1>3. CASE \/ Begin \/ ReadAccount \/ StartBatch \/ TurnDown \/ GoMarket \/ KeepLevels \/ FlipLeft
           \/ Add \/ UndoAdd \/ SaveCount \/ Save \/ NewCandle \/ UNCHANGED vars
  <2>1. stops' = stops
    BY <1>3 DEF Begin, ReadAccount, StartBatch, TurnDown, GoMarket, KeepLevels, FlipLeft, Add, UndoAdd,
                SaveCount, Save, NewCandle, vars, exchange
  <2> QED
    BY <2>1, StandsOn
<1> QED
  BY <1>1, <1>2, <1>3

\* (_scalp_flip, _scalp_update, _scalp_protect_add) No step takes the last stop of a recorded
\* scalp that stays open, with limit entries as long as these fill in full and there are no adds.
THEOREM StopsAreKept == BookSpec => StopKept
<1>1. ASSUME BookInv, [BookNext]_vars, Steady' PROVE \A c \in Coins : Stands(c)
  <2>1. Facts /\ CoinsInv
    BY <1>1 DEF BookInv
  <2>2. Steady
    <3>1. suffered \subseteq suffered' /\ cfg' = cfg
      BY <1>1, <2>1, StepGrows
    <3> QED
      BY <1>1, <3>1 DEF Steady, Engine
  <2> TAKE c \in Coins
  <2>3. CASE UNCHANGED vars \/ Begin \/ NewCandle
    BY <2>1, <2>3, QuietStands
  <2>4. CASE Stop \/ \E d \in Coins : Fill(d) \/ FillPart(d) \/ FillLoose(d) \/ Exit(d)
    BY <2>1, <2>4, RelistStands, MarketStands
  <2>5. CASE Work
    BY <2>1, <2>2, <2>5, QuietStands, RelistStands, ManageStands, PlaceLimitStands, OpenStands,
       DropStands DEF Work
  <2> QED
    BY <1>1, <2>3, <2>4, <2>5 DEF BookNext
<1>2. BookInv /\ [BookNext]_vars =>
        [Steady' =>
           \A c \in Coins :
              Covered(c) /\ saved[c].side = pos[c].side /\ pos'[c].side = pos[c].side
                      /\ pos'[c].size \in 1..pos[c].size =>
                  Covered(c)']_vars
  BY <1>1 DEF Stands
<1> QED
  BY <1>2, BookInvariant, PTL DEF BookSpec, StopKept

-----------------------------------------------------------------------------
(***************************************************************************)
(* The rules of a scalp, for every read and every set of resting orders.   *)
(***************************************************************************)
SS == INSTANCE ScalpSetups
Rules == INSTANCE Rules_proofs

\* the fresh reads of a direction, each in thousandths
FreshReads == [turn : Nat, divergence : Nat, fib : Nat, level : Nat]

Structures == {"smc", "sweep", "none"}

\* Structure and reversals add at most 25 points, whatever the higher time frame
\* says.
LEMMA ContextIsBounded ==
    ASSUME NEW base \in Int, NEW structure \in Structures, NEW reads \in FreshReads
    PROVE  \E context \in 0..250 : \A h1 \in Int :
              SS!Score(base, structure, reads, h1) = base + context + h1
<1> PICK n \in Nat : n = 150 * SS!Weight(reads)
  BY DEF SS!Weight, FreshReads
<1> PICK p \in Nat : p = SS!Round(n, 1000)
  BY DEF SS!Round
<1>1. SS!ReversalPoints(reads) = SS!Lesser(p, 150)
  BY DEF SS!ReversalPoints
<1>2. SS!ReversalPoints(reads) \in 0..150
  BY <1>1 DEF SS!Lesser
<1> PICK s \in {0, 100, 200} : s = SS!StructurePoints[structure]
  BY DEF SS!StructurePoints, Structures
<1> PICK c \in 0..250 : c = SS!Lesser(s + SS!ReversalPoints(reads), 250)
  BY <1>2 DEF SS!Lesser
<1>3. \A h1 \in Int : SS!Score(base, structure, reads, h1) = base + c + h1
  BY DEF SS!Score
<1> QED
  BY <1>3

\* a read of the candles as blend takes it
ScalpReads == [fresh : BOOLEAN, dir : {"LONG", "SHORT"}, base : Int, structure : Structures,
           reads : FreshReads, h1 : {"LONG", "SHORT", "none"}, exits : SUBSET [rr : Int]]

\* blend reads the hour only when it can still matter: a setup that would miss
\* the floor even with the hour in favour is refused without asking.  What it
\* returns is what asking every time would: a scalp exactly when the read is
\* fresh, the full score reaches the floor, a reversal is there when one is
\* asked for and some exit pays enough, and with the full score.
THEOREM SkippedReadChangesNothing ==
    ASSUME NEW r \in ScalpReads, NEW floor \in Int, NEW leastRr \in Int, NEW needs \in BOOLEAN
    PROVE  LET asked == SS!Score(r.base, r.structure, r.reads, SS!H1Vote(r.h1, r.dir))
               result == SS!Blend(r, floor, leastRr, needs)
           IN  /\ result.is = "scalp" <=>
                     /\ r.fresh /\ asked >= floor
                     /\ needs => SS!Weight(r.reads) # 0
                     /\ \E e \in r.exits : e.rr >= leastRr
               /\ result.is = "scalp" => result.score = asked
<1> PICK vote \in {-50, 0, 50} : vote = SS!H1Vote(r.h1, r.dir)
  BY DEF SS!H1Vote, SS!H1_POINTS
<1>0. r.base \in Int /\ r.structure \in Structures /\ r.reads \in FreshReads
  BY DEF ScalpReads
<1>6. PICK context \in 0..250 : \A h1 \in Int :
          SS!Score(r.base, r.structure, r.reads, h1) = r.base + context + h1
  BY <1>0, ContextIsBounded
<1>7. 0 \in Int /\ vote \in Int
  OBVIOUS
<1>8. /\ SS!Score(r.base, r.structure, r.reads, 0) = r.base + context + 0
      /\ SS!Score(r.base, r.structure, r.reads, vote) = r.base + context + vote
  BY <1>6, <1>7, Zenon
<1> PICK without \in Int : without = SS!Score(r.base, r.structure, r.reads, 0)
  BY <1>0, <1>8
<1> PICK asked \in Int : asked = SS!Score(r.base, r.structure, r.reads, vote)
  BY <1>0, <1>8
<1>1. asked = without + vote
  BY <1>0, <1>8
<1> DEFINE score == IF without + 50 >= floor THEN asked ELSE without
           Refused == [is |-> IF r.base >= floor - 200 THEN "why" ELSE "quiet", score |-> 0]
<1>2. SS!Blend(r, floor, leastRr, needs) =
        IF ~r.fresh THEN [is |-> "quiet", score |-> 0]
        ELSE IF needs /\ SS!Weight(r.reads) = 0 THEN Refused
        ELSE IF score < floor THEN Refused
        ELSE IF \A e \in r.exits : e.rr < leastRr THEN [is |-> "why", score |-> 0]
        ELSE [is |-> "scalp", score |-> score]
  BY DEF SS!Blend, SS!H1_POINTS, ScalpReads
<1>3. /\ score < floor <=> asked < floor
      /\ ~(score < floor) => score = asked
  BY <1>1
<1>4. (\A e \in r.exits : e.rr < leastRr) <=> ~\E e \in r.exits : e.rr >= leastRr
  BY DEF ScalpReads
<1>5. r.fresh \in BOOLEAN /\ Refused.is # "scalp"
  BY DEF ScalpReads
<1> HIDE DEF score, Refused
<1> QED
  BY <1>2, <1>3, <1>4, <1>5

\* Of finitely many things one has the largest number.
LEMMA LargestOf ==
    ASSUME NEW S, IsFiniteSet(S), S # {}, NEW f \in [S -> Int]
    PROVE  \E m \in S : \A x \in S : f[m] >= f[x]
<1> DEFINE X == {T \in SUBSET S : T = {} \/ \E m \in T : \A x \in T : f[m] >= f[x]}
<1>1. {} \in X
  OBVIOUS
<1>2. ASSUME NEW T \in SUBSET S, NEW e \in S, T \in X PROVE T \union {e} \in X
  <2>1. CASE T = {}
    BY <2>1
  <2>2. ASSUME NEW m \in T, \A x \in T : f[m] >= f[x] PROVE T \union {e} \in X
    <3>1. CASE f[m] >= f[e]
      BY <2>2, <3>1
    <3>2. CASE f[e] >= f[m]
      BY <2>2, <3>2
    <3> QED
      BY <3>1, <3>2
  <2> QED
    BY <1>2, <2>1, <2>2
<1> HIDE DEF X
<1>3. S \in X
  BY <1>1, <1>2, Rules!SetInduction DEF IsFiniteSet, Rules!IsFiniteSet
<1> QED
  BY <1>3 DEF X

\* No resting stop is beyond the tightest one.
LEMMA TightestOf ==
    ASSUME NEW resting, IsFiniteSet(resting), \A o \in resting : o.px \in Int, NEW dir \in {"LONG", "SHORT"}
    PROVE  LET found == SS!Tightest({o.px : o \in resting}, dir) IN
           \/ resting = {} /\ found = {}
           \/ \E cur \in Int : found = {cur} /\ \A o \in resting : SS!Sign(dir) * (cur - o.px) >= 0
<1> DEFINE prices == {o.px : o \in resting}
<1>1. CASE resting = {}
  <2>1. prices = {}
    BY <1>1
  <2> QED
    BY <1>1, <2>1 DEF SS!Tightest
<1>2. CASE resting # {} /\ dir = "LONG"
  <2> DEFINE f == [o \in resting |-> o.px]
  <2>1. f \in [resting -> Int] /\ \A o \in resting : f[o] = o.px
    OBVIOUS
  <2> HIDE DEF f
  <2>2. PICK m \in resting : \A o \in resting : f[m] >= f[o]
    BY <1>2, <2>1, LargestOf
  <2>3. \E p \in prices : \A q \in prices : p >= q
    BY <2>1, <2>2
  <2>4. SS!Max(prices) \in prices /\ \A q \in prices : SS!Max(prices) >= q
    BY <2>3 DEF SS!Max
  <2> PICK cur \in Int : cur = SS!Max(prices)
    BY <2>4
  <2>5. ASSUME NEW o \in resting PROVE SS!Sign(dir) * (cur - o.px) >= 0
    <3> PICK p \in Int : p = o.px /\ p \in prices
      OBVIOUS
    <3> HIDE DEF prices
    <3>1. cur >= p
      BY <2>4
    <3>2. SS!Sign(dir) = 1
      BY <1>2 DEF SS!Sign
    <3>3. SS!Sign(dir) * (cur - p) >= 0
      BY <3>1, <3>2
    <3> QED
      BY <3>3
  <2>6. prices # {} /\ SS!Tightest(prices, dir) = {cur}
    BY <1>2, <2>4 DEF SS!Tightest
  <2> QED
    BY <1>2, <2>5, <2>6
<1>3. CASE resting # {} /\ dir = "SHORT"
  <2> DEFINE f == [o \in resting |-> -(o.px)]
  <2>1. f \in [resting -> Int] /\ \A o \in resting : f[o] = -(o.px)
    OBVIOUS
  <2> HIDE DEF f
  <2>2. PICK m \in resting : \A o \in resting : f[m] >= f[o]
    BY <1>3, <2>1, LargestOf
  <2>3. \A o \in resting : m.px <= o.px
    BY <2>1, <2>2
  <2>4. SS!Min(prices) \in prices /\ \A q \in prices : SS!Min(prices) <= q
    BY <2>3 DEF SS!Min
  <2> PICK cur \in Int : cur = SS!Min(prices)
    BY <2>4
  <2>5. ASSUME NEW o \in resting PROVE SS!Sign(dir) * (cur - o.px) >= 0
    <3> PICK p \in Int : p = o.px /\ p \in prices
      OBVIOUS
    <3> HIDE DEF prices
    <3>1. cur <= p
      BY <2>4
    <3>2. SS!Sign(dir) = -1
      BY <1>3 DEF SS!Sign
    <3>3. SS!Sign(dir) * (cur - p) >= 0
      BY <3>1, <3>2
    <3> QED
      BY <3>3
  <2>6. prices # {} /\ SS!Tightest(prices, dir) = {cur}
    BY <1>3, <2>4 DEF SS!Tightest
  <2> QED
    BY <1>3, <2>5, <2>6
<1> QED
  BY <1>1, <1>2, <1>3

\* The stop of an open scalp only tightens: the one NewStop proposes is tighter
\* than every stop resting on the exchange, the one an add comes with is at
\* least as tight, and both are behind the market price, whatever orders the
\* exchange reports.
THEOREM StopsOnlyTighten ==
    ASSUME NEW orders, IsFiniteSet(orders), \A o \in orders : o.px \in Int,
           NEW dir \in {"LONG", "SHORT"}, NEW mark \in Int, NEW setup, setup.sl \in Int,
           NEW st, st = SS!ExitState(orders, dir, mark),
           NEW mode, NEW entry \in Int, NEW adds, NEW most
    PROVE  /\ \A new \in SS!NewStop(setup.sl, st, dir, mark) :
                 /\ SS!Ahead(dir, mark, new)
                 /\ \A o \in st.stops : SS!Ahead(dir, new, o.px)
           /\ \A new \in SS!PlanAdd(mode, setup, st, entry, dir, mark, adds, most) :
                 /\ SS!Ahead(dir, mark, new)
                 /\ \A o \in st.stops : new = o.px \/ SS!Ahead(dir, new, o.px)
<1> DEFINE resting == {o \in orders : SS!IsStop(o, dir, mark)}
<1>1. st.stops = resting /\ st.stop = SS!Tightest({o.px : o \in resting}, dir)
  BY DEF SS!ExitState
<1>2. IsFiniteSet(resting) /\ \A o \in resting : o.px \in Int
  BY FS_Subset
<1> PICK side \in {1, -1} : side = SS!Sign(dir)
  BY DEF SS!Sign
<1> HIDE DEF resting
<1>3. \A o \in st.stops : o.px \in Int
  BY <1>1, <1>2
<1>4. \/ st.stops = {} /\ st.stop = {}
      \/ \E cur \in Int : st.stop = {cur} /\ \A o \in st.stops : side * (cur - o.px) >= 0
  <2>1. LET found == SS!Tightest({o.px : o \in resting}, dir) IN
        \/ resting = {} /\ found = {}
        \/ \E cur \in Int : found = {cur} /\ \A o \in resting : SS!Sign(dir) * (cur - o.px) >= 0
    BY <1>2, TightestOf
  <2> QED
    BY <1>1, <2>1
<1>5. ASSUME NEW new \in SS!NewStop(setup.sl, st, dir, mark)
      PROVE  /\ new = setup.sl /\ SS!Ahead(dir, mark, new)
             /\ \A o \in st.stops : SS!Ahead(dir, new, o.px)
  <2>1. new = setup.sl /\ SS!Ahead(dir, mark, new) /\ \A cur \in st.stop : SS!Ahead(dir, new, cur)
    BY DEF SS!NewStop
  <2>2. ASSUME NEW o \in st.stops PROVE SS!Ahead(dir, new, o.px)
    <3>1. PICK cur \in Int : st.stop = {cur} /\ \A q \in st.stops : side * (cur - q.px) >= 0
      BY <1>4, <2>2
    <3> PICK p \in Int : p = o.px
      BY <1>3, <2>2
    <3>2. cur \in Int /\ new \in Int /\ side * (cur - p) >= 0 /\ side * (new - cur) > 0
      BY <2>1, <2>2, <3>1 DEF SS!Ahead
    <3>3. side * (new - p) > 0
      <4>1. CASE side = 1
        BY <3>2, <4>1
      <4>2. CASE side = -1
        BY <3>2, <4>2
      <4> QED
        BY <4>1, <4>2
    <3> QED
      BY <3>3 DEF SS!Ahead
  <2> QED
    BY <2>1, <2>2
<1>6. ASSUME NEW new \in SS!PlanAdd(mode, setup, st, entry, dir, mark, adds, most)
      PROVE  /\ SS!Ahead(dir, mark, new)
             /\ \A o \in st.stops : new = o.px \/ SS!Ahead(dir, new, o.px)
  <2>1. /\ SS!Ahead(dir, mark, new)
        /\ new \in IF SS!NewStop(setup.sl, st, dir, mark) # {} THEN {setup.sl} ELSE st.stop
    BY DEF SS!PlanAdd
  <2>2. CASE SS!NewStop(setup.sl, st, dir, mark) # {}
    <3>1. PICK n : n \in SS!NewStop(setup.sl, st, dir, mark)
      BY <2>2
    <3> QED
      BY <1>5, <2>1, <2>2, <3>1
  <2>3. CASE SS!NewStop(setup.sl, st, dir, mark) = {}
    <3> SUFFICES ASSUME NEW o \in st.stops PROVE new = o.px \/ SS!Ahead(dir, new, o.px)
      BY <2>1
    <3>1. PICK cur \in Int : st.stop = {cur} /\ \A q \in st.stops : side * (cur - q.px) >= 0
      BY <1>4
    <3> PICK p \in Int : p = o.px
      BY <1>3
    <3>2. new = cur /\ new \in Int /\ side * (new - p) >= 0
      BY <2>1, <2>3, <3>1
    <3>3. new = p \/ side * (new - p) > 0
      <4>1. CASE side = 1
        BY <3>2, <4>1
      <4>2. CASE side = -1
        BY <3>2, <4>2
      <4> QED
        BY <4>1, <4>2
    <3> QED
      BY <3>3 DEF SS!Ahead
  <2> QED
    BY <2>2, <2>3
<1> QED
  BY <1>5, <1>6

-----------------------------------------------------------------------------
(***************************************************************************)
(* The guard, over everything a pass wants and whatever is remembered.     *)
(***************************************************************************)

\* A batch with numbers in its places, and what its scalps add up to.
IsBatch(b) ==
    b \in [open : Int, candle : Int, side : [SS!Directions -> Int], risk : Int]
Adds(b) == b.open = b.side["LONG"] + b.side["SHORT"]

\* No count of b is above its limit but one that it has from before.
Within(b, before, settings) ==
    /\ b.candle <= settings.newPerCandle \/ b.candle = before.candle
    /\ b.open <= settings.maxOpen \/ b.open = before.open
    /\ \A d \in SS!Directions : b.side[d] <= settings.perSide[d] \/ b.side[d] = before.side[d]
    /\ b.risk <= settings.maxRisk \/ b.risk = before.risk

\* A committed entry that was checked keeps the limits.
LEMMA CommitStaysWithin ==
    ASSUME NEW settings, settings.newPerCandle \in Int, settings.maxOpen \in Int, settings.maxRisk \in Int,
           settings.perSide \in [SS!Directions -> Int],
           NEW before, NEW b, IsBatch(b), Adds(b), Within(b, before, settings),
           NEW dir \in SS!Directions, NEW risk \in Int, NEW add \in BOOLEAN,
           SS!Check(b, dir, risk, add, settings) = "none"
    PROVE  LET c == SS!Commit(b, dir, risk, add) IN IsBatch(c) /\ Adds(c) /\ Within(c, before, settings)
<1> DEFINE c == SS!Commit(b, dir, risk, add)
           n == IF add THEN 0 ELSE 1
<1>1. /\ b.candle < settings.newPerCandle /\ b.risk + risk <= settings.maxRisk
      /\ ~add => b.open < settings.maxOpen /\ b.side[dir] < settings.perSide[dir]
  <2>1. b.candle \in Int /\ b.open \in Int /\ b.risk \in Int /\ b.side \in [SS!Directions -> Int]
    BY DEF IsBatch
  <2> QED
    BY <2>1 DEF SS!Check
<1> PICK side : side = [b.side EXCEPT ![dir] = IF add THEN @ ELSE @ + 1]
  OBVIOUS
<1>2. /\ b = [open |-> b.open, candle |-> b.candle, side |-> b.side, risk |-> b.risk]
      /\ b.candle \in Int /\ b.open \in Int /\ b.risk \in Int /\ b.side \in [SS!Directions -> Int]
  BY DEF IsBatch
<1>3. c = [open |-> b.open + n, candle |-> b.candle + 1, side |-> side, risk |-> b.risk + risk]
  <2> PICK open : open = IF add THEN b.open ELSE b.open + 1
    OBVIOUS
  <2>1. c = [b EXCEPT !.candle = b.candle + 1, !.risk = b.risk + risk, !.open = open, !.side = side]
    BY DEF SS!Commit
  <2>2. open = b.open + n
    BY <1>2
  <2> HIDE DEF c, n
  <2> QED
    BY <1>2, <2>1, <2>2
<1>4. /\ side \in [SS!Directions -> Int] /\ side[dir] = b.side[dir] + n
      /\ \A d \in SS!Directions \ {dir} : side[d] = b.side[d]
  BY <1>2
<1> HIDE DEF c
<1>5. c.open = b.open + n /\ c.candle = b.candle + 1 /\ c.side = side /\ c.risk = b.risk + risk
  BY <1>3
<1>6. IsBatch(c)
  BY <1>2, <1>3, <1>4 DEF IsBatch
<1>7. Adds(c)
  BY <1>2, <1>4, <1>5 DEF Adds, SS!Directions
<1>8. Within(c, before, settings)
  BY <1>1, <1>2, <1>4, <1>5 DEF Within
<1> QED
  BY <1>6, <1>7, <1>8 DEF c

\* Counting is the same there as here.
LEMMA SameCount == \A set : SS!Cardinality(set) = Cardinality(set)
BY DEF SS!Cardinality, Cardinality

\* The batch at the start of a pass has the records of the book in its counts.
LEMMA BookAddsUp ==
    ASSUME NEW book, IsFiniteSet(book), \A r \in book : r.dir \in SS!Directions,
           NEW b, b.open = Cardinality(book),
           b.side = [d \in SS!Directions |-> Cardinality({r \in book : r.dir = d})]
    PROVE  Adds(b)
<1> DEFINE Of(d) == {r \in book : r.dir = d}
<1>1. IsFiniteSet(Of("LONG")) /\ IsFiniteSet(Of("SHORT"))
  BY FS_Subset
<1>2. Of("LONG") \cap Of("SHORT") = {}
  OBVIOUS
<1>3. Of("LONG") \cup Of("SHORT") = book
  BY DEF SS!Directions
<1> HIDE DEF Of
<1> PICK L, S : L = Of("LONG") /\ S = Of("SHORT")
  OBVIOUS
<1>4. Cardinality(book) = Cardinality(Of("LONG")) + Cardinality(Of("SHORT"))
  <2>1. IsFiniteSet(L) /\ IsFiniteSet(S) /\ L \cap S = {} /\ L \cup S = book
    BY <1>1, <1>2, <1>3
  <2>2. Cardinality(L \cup S) = Cardinality(L) + Cardinality(S) - Cardinality(L \cap S)
    BY <2>1, FS_Union
  <2>3. Cardinality({}) = 0 /\ Cardinality(L) \in Nat /\ Cardinality(S) \in Nat
    BY <2>1, FS_EmptySet, FS_CardinalityType
  <2>4. Cardinality(book) = Cardinality(L) + Cardinality(S)
    <3>1. Cardinality(L \cup S) = Cardinality(book)
      BY <2>1, Zenon
    <3>2. Cardinality(L \cap S) = 0
      BY <2>1, <2>3, Zenon
    <3>3. Cardinality(book) = Cardinality(L) + Cardinality(S) - 0
      BY <2>2, <3>1, <3>2, Zenon
    <3> QED
      BY <2>3, <3>3
  <2> QED
    BY <2>4
<1> QED
  BY <1>4 DEF Adds, SS!Directions, Of

\* Whatever entries and adds a pass wants, in whatever order, what it commits
\* takes no count of the book above its limit: scalps, scalps in a direction,
\* entries of the candle, dollars at risk (scalp_guard.Batch).  A count that was
\* above already, because a setting was lowered, grows no further.  And the
\* scalps stay those of the two directions.
THEOREM BatchStaysWithin ==
    ASSUME NEW settings, settings.newPerCandle \in Int, settings.maxOpen \in Int, settings.maxRisk \in Int,
           settings.perSide \in [SS!Directions -> Int],
           NEW book, IsFiniteSet(book), \A r \in book : r.dir \in SS!Directions,
           NEW entered \in Int, NEW n \in Nat, NEW run,
           SS!BookRisk(book) \in Int, run[0] = SS!BatchOf(book, entered),
           \A i \in 0..(n - 1) :
              \/ run[i + 1] = run[i]
              \/ \E dir \in SS!Directions, risk \in Int, add \in BOOLEAN :
                    /\ SS!Check(run[i], dir, risk, add, settings) = "none"
                    /\ run[i + 1] = SS!Commit(run[i], dir, risk, add)
    PROVE  \A i \in 0..n : Within(run[i], run[0], settings) /\ Adds(run[i])
<1> DEFINE Good == {i \in 0..n : IsBatch(run[i]) /\ Adds(run[i]) /\ Within(run[i], run[0], settings)}
<1>1. 0 \in Good
  <2> PICK sides : sides = [d \in SS!Directions |-> Cardinality({r \in book : r.dir = d})]
    OBVIOUS
  <2>0. run[0] = [open |-> Cardinality(book), candle |-> entered, side |-> sides, risk |-> SS!BookRisk(book)]
    <3>1. SS!BatchOf(book, entered)
            = [open |-> Cardinality(book), candle |-> entered,
               side |-> [d \in SS!Directions |-> Cardinality({r \in book : r.dir = d})],
               risk |-> SS!BookRisk(book)]
      BY SameCount, Zenon DEF SS!BatchOf
    <3> QED
      BY <3>1, Zenon
  <2>1. /\ run[0].risk = SS!BookRisk(book)
        /\ run[0].open = Cardinality(book) /\ run[0].side = sides /\ run[0].candle = entered
        /\ run[0] = [open |-> run[0].open, candle |-> run[0].candle, side |-> run[0].side,
                     risk |-> run[0].risk]
    BY <2>0
  <2>2. Adds(run[0])
    BY <2>1, BookAddsUp
  <2>3. Cardinality(book) \in Int /\ \A d : Cardinality({r \in book : r.dir = d}) \in Int
    BY FS_Subset, FS_CardinalityType
  <2>4. IsBatch(run[0])
    <3>1. sides \in [SS!Directions -> Int]
      BY <2>3
    <3> QED
      BY <2>1, <2>3, <3>1 DEF IsBatch
  <2>5. Within(run[0], run[0], settings)
    BY DEF Within
  <2> QED
    BY <2>2, <2>4, <2>5
<1>2. ASSUME NEW i \in 0..(n - 1), i \in Good PROVE i + 1 \in Good
  <2>1. CASE run[i + 1] = run[i]
    BY <1>2, <2>1
  <2>2. ASSUME NEW dir \in SS!Directions, NEW risk \in Int, NEW add \in BOOLEAN,
               SS!Check(run[i], dir, risk, add, settings) = "none", run[i + 1] = SS!Commit(run[i], dir, risk, add)
        PROVE  i + 1 \in Good
    <3>1. IsBatch(run[i + 1]) /\ Adds(run[i + 1]) /\ Within(run[i + 1], run[0], settings)
      BY <1>2, <2>2, CommitStaysWithin
    <3> QED
      BY <3>1
  <2> QED
    BY <1>2, <2>1, <2>2
<1> HIDE DEF Good
<1>3. \A i \in 0..n : i \in Good
  BY <1>1, <1>2, Rules!UpTo
<1> QED
  BY <1>3 DEF Good

-----------------------------------------------------------------------------

\* The memory holds a stop-out of the key, no older than since; it is reset only
\* if there was a blank.
Holds(memory, key, since, blank) ==
    /\ memory = [k \in DOMAIN memory |-> memory[k]] /\ key \in DOMAIN memory
    /\ memory[key] \in [reason : {"stop"}, at : Int, reset : BOOLEAN] /\ memory[key].at >= since
    /\ memory[key].reset => blank

\* What happens to the memory while the key's stop-out is not too old to be kept:
\* exits, of the key only by its stop and later; candles; and a pruning.  A blank
\* is a candle of the coin that could be read and had no setup in its direction.
Remembers(memory, next, key, since, blank) ==
    \/ \E k, reason : \E at \in Int :
          /\ k = key => reason = "stop" /\ at >= since
          /\ next = SS!RecordExit(memory, k, reason, at)
    \/ \E coin, reads, slot :
          /\ coin = key[1] /\ key[2] \in DOMAIN reads /\ ~reads[key[2]] => blank
          /\ next = SS!Observe(memory, coin, reads, slot)
    \/ \E now \in Int : now - since < SS!EXIT_MEMORY /\ next = SS!Prune(memory, now)

\* After a stop-out a coin is not entered the same way before the cooldown is
\* over, whatever else ends, is seen or is forgotten meanwhile; and not after it
\* either until there was a candle without a setup (record_exit, observe,
\* reentry_block).
THEOREM StopOutHolds ==
    ASSUME NEW settings, settings.cooldown \in Int, NEW memory, NEW key, NEW since \in Int, NEW blank \in BOOLEAN,
           NEW n \in Nat, NEW run, run[0] = SS!RecordExit(memory, key, "stop", since),
           \A i \in 0..(n - 1) : Remembers(run[i], run[i + 1], key, since, blank)
    PROVE  \A i \in 0..n, now \in Int :
               /\ now < since + settings.cooldown =>
                     SS!ReentryBlock(run[i], key, now, settings) = "STOPOUT_COOLDOWN"
               /\ ~blank => SS!ReentryBlock(run[i], key, now, settings) # "none"
<1> DEFINE Good == {i \in 0..n : Holds(run[i], key, since, blank)}
<1>1. 0 \in Good
  <2>1. /\ DOMAIN run[0] = DOMAIN memory \union {key}
        /\ run[0][key] = [reason |-> "stop", at |-> since, reset |-> FALSE]
        /\ run[0] = [k \in DOMAIN run[0] |-> run[0][k]]
    BY DEF SS!RecordExit
  <2>2. run[0][key] \in [reason : {"stop"}, at : Int, reset : BOOLEAN]
    <3>1. [reason |-> "stop", at |-> since, reset |-> FALSE]
             \in [reason : {"stop"}, at : Int, reset : BOOLEAN]
      OBVIOUS
    <3> QED
      BY <2>1, <3>1, Zenon
  <2>3. run[0][key].at = since /\ ~run[0][key].reset
    BY <2>1
  <2>4. Holds(run[0], key, since, blank)
    BY <2>1, <2>2, <2>3 DEF Holds
  <2> QED
    BY <2>4
<1>2. ASSUME NEW m, Holds(m, key, since, blank), NEW next, Remembers(m, next, key, since, blank)
      PROVE  Holds(next, key, since, blank)
  <2>1. ASSUME NEW k, NEW reason, NEW at \in Int, k = key => reason = "stop" /\ at >= since,
               next = SS!RecordExit(m, k, reason, at)
        PROVE  Holds(next, key, since, blank)
    BY <1>2, <2>1 DEF SS!RecordExit, Holds
  <2>2. ASSUME NEW coin, NEW reads, NEW slot,
               coin = key[1] /\ key[2] \in DOMAIN reads /\ ~reads[key[2]] => blank,
               next = SS!Observe(m, coin, reads, slot)
        PROVE  Holds(next, key, since, blank)
    <3>1. /\ next[key] = m[key] \/ (blank /\ next[key] = [m[key] EXCEPT !.reset = TRUE])
          /\ DOMAIN next = DOMAIN m
      BY <1>2, <2>2 DEF SS!Observe, Holds
    <3>2. next = [k \in DOMAIN next |-> next[k]]
      BY <2>2 DEF SS!Observe
    <3> QED
      BY <1>2, <3>1, <3>2 DEF Holds
  <2>3. ASSUME NEW now \in Int, now - since < SS!EXIT_MEMORY, next = SS!Prune(m, now)
        PROVE  Holds(next, key, since, blank)
    BY <1>2, <2>3 DEF SS!Prune, SS!EXIT_MEMORY, Holds
  <2> QED
    BY <1>2, <2>1, <2>2, <2>3 DEF Remembers
<1>3. ASSUME NEW i \in 0..(n - 1), i \in Good PROVE i + 1 \in Good
  <2>1. Holds(run[i + 1], key, since, blank)
    BY <1>2, <1>3
  <2> QED
    BY <2>1
<1> HIDE DEF Good
<1>4. \A i \in 0..n : i \in Good
  BY <1>1, <1>3, Rules!UpTo
<1>5. ASSUME NEW i \in 0..n, NEW now \in Int
      PROVE  /\ now < since + settings.cooldown =>
                   SS!ReentryBlock(run[i], key, now, settings) = "STOPOUT_COOLDOWN"
             /\ ~blank => SS!ReentryBlock(run[i], key, now, settings) # "none"
  <2>1. Holds(run[i], key, since, blank)
    BY <1>4 DEF Good
  <2> QED
    BY <2>1 DEF Holds, SS!ReentryBlock
<1> QED
  BY <1>5

=============================================================================
