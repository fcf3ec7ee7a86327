------------------------ MODULE ClaimLedger_proofs --------------------------
(***************************************************************************)
(* Proofs about the claim ledger. Type correctness holds whatever the      *)
(* environment does. At-most-once and the refinement of OncePerKey hold    *)
(* until Redis or a reply fails: instances may be stopped anywhere, which  *)
(* is the case the comments of the code speak of. With an unreachable      *)
(* Redis besides, effects are counted against the stores holding a claim.  *)
(***************************************************************************)
EXTENDS ClaimLedger, FiniteSetTheorems, TLAPS

\* One step of any kind keeps the types.
LEMMA StepTypeOK == TypeOK /\ [Next]_vars => TypeOK'
<1> SUFFICES ASSUME TypeOK, [Next]_vars PROVE TypeOK'
  OBVIOUS
<1> USE ClaimLedgerAssumption DEF TypeOK, Steps, Goto, Suffer, SufferBoth, Won, ledger, worker
<1>1. ASSUME NEW w \in Workers, NEW k \in Keys,
             Claim(w, k)
      PROVE  TypeOK'
  BY <1>1 DEF Claim, ClaimShared, ClaimFile, ClaimNoFile, ClaimRefused
<1>2. ASSUME NEW w \in Workers, Perform(w) PROVE TypeOK'
  BY <1>2 DEF Perform, ActSucceeds, ActFails
<1>3. ASSUME NEW w \in Workers, GiveBack(w) PROVE TypeOK'
  BY <1>3 DEF GiveBack, ReleaseShared, ReleaseFile, ReleaseNoFile
<1>4. ASSUME NEW w \in Workers, Crash(w) PROVE TypeOK'
  BY <1>4 DEF Crash
<1>5. ASSUME NEW k \in Keys, Expire(k) PROVE TypeOK'
  BY <1>5 DEF Expire
<1>6. CASE UNCHANGED vars
  BY <1>6 DEF vars
<1> QED
  BY <1>1, <1>2, <1>3, <1>4, <1>5, <1>6 DEF Next

(* Every variable of the ledger keeps its type, whatever the environment   *)
(* does (kv.py never raises to its callers and has no other states).       *)
THEOREM TypeCorrect == Spec => []TypeOK
<1>1. Init => TypeOK
  BY ClaimLedgerAssumption DEF Init, TypeOK, Steps
<1> QED
  BY <1>1, StepTypeOK, PTL DEF Spec

-----------------------------------------------------------------------------
(* The inductive invariant: besides what ClaimGuardsEffect says, a working *)
(* instance's key is claimed in Redis and has had no effect yet.           *)
Owns == Sound => \A w \in Workers :
            pc[w] # "idle" => job[w] \in redis /\ effect[job[w]] = 0

IInv == TypeOK /\ AtMostOnce /\ ClaimGuardsEffect /\ Owns

\* The invariant holds initially.
LEMMA InitIInv == Init => IInv
BY ClaimLedgerAssumption
   DEF Init, IInv, TypeOK, Steps, AtMostOnce, ClaimGuardsEffect, Owns

\* What has happened stays happened: a sound history was sound before.
LEMMA SoundBefore == ASSUME [Next]_vars, Sound' PROVE Sound
<1> USE DEF Sound, Suffer, SufferBoth
<1>1. ASSUME NEW w \in Workers, NEW k \in Keys,
             Claim(w, k)
      PROVE  Sound
  BY <1>1 DEF Claim, ClaimShared, ClaimFile, ClaimNoFile, ClaimRefused
<1>2. ASSUME NEW w \in Workers, Perform(w) \/ GiveBack(w) \/ Crash(w) PROVE Sound
  BY <1>2 DEF Perform, ActSucceeds, ActFails, GiveBack, ReleaseShared, ReleaseFile, ReleaseNoFile, Crash
<1>3. ASSUME NEW k \in Keys, Expire(k) PROVE Sound
  BY <1>3 DEF Expire
<1>4. CASE UNCHANGED vars
  BY <1>4 DEF vars
<1> QED
  BY <1>1, <1>2, <1>3, <1>4 DEF Next

\* Each step after which the history is still sound preserves the rest of IInv.
LEMMA StepIInv ==
    ASSUME IInv, [Next]_vars, Sound'
    PROVE  (AtMostOnce /\ ClaimGuardsEffect /\ Owns)'
<1> DEFINE Inv == AtMostOnce /\ ClaimGuardsEffect /\ Owns
<1>0. Sound
  BY SoundBefore
<1> USE <1>0, ClaimLedgerAssumption
    DEF IInv, TypeOK, Steps, Goto, Won, Suffer, SufferBoth, ledger, worker, AtMostOnce, ClaimGuardsEffect, Owns
<1>1. ASSUME NEW w \in Workers, NEW k \in Keys, ClaimShared(w, k)
      PROVE  Inv'
  BY <1>1 DEF ClaimShared
<1>2. ASSUME NEW w \in Workers, NEW k \in Keys, ClaimFile(w, k) \/ ClaimNoFile(w, k) \/ ClaimRefused(w, k)
      PROVE  Inv'
  BY <1>2 DEF ClaimFile, ClaimNoFile, ClaimRefused, Sound
<1>3. ASSUME NEW w \in Workers, ActSucceeds(w) PROVE Inv'
  <2>2. effect[job[w]] = 0 /\ effect'[job[w]] = 1 /\ job[w] \in redis
    BY <1>3 DEF ActSucceeds
  <2>3. \A v \in Workers \ {w} : pc[v] # "idle" => job[v] # job[w]
    BY <1>3 DEF ActSucceeds
  <2> QED
    BY <1>3, <2>2, <2>3 DEF ActSucceeds
<1>4. ASSUME NEW w \in Workers, ActFails(w) PROVE Inv'
  BY <1>4 DEF ActFails, Sound
<1>5. ASSUME NEW w \in Workers, GiveBack(w) PROVE Inv'
  BY <1>5 DEF GiveBack, ReleaseShared, ReleaseFile, ReleaseNoFile, Sound
<1>6. ASSUME NEW w \in Workers, Crash(w) PROVE Inv'
  BY <1>6 DEF Crash
<1>7. ASSUME NEW k \in Keys, Expire(k) PROVE Inv'
  BY <1>7 DEF Expire, Sound
<1>8. CASE UNCHANGED vars
  BY <1>8 DEF vars
<1> QED
  BY <1>1, <1>2, <1>3, <1>4, <1>5, <1>6, <1>7, <1>8 DEF Next, Claim, Perform

\* The invariant is inductive.
LEMMA NextIInv == IInv /\ [Next]_vars => IInv'
<1> SUFFICES ASSUME IInv, [Next]_vars PROVE IInv'
  OBVIOUS
<1>1. TypeOK'
  BY StepTypeOK DEF IInv
<1>2. CASE Sound'
  BY <1>1, <1>2, StepIInv DEF IInv
<1>3. CASE ~Sound'
  BY <1>1, <1>3 DEF IInv, AtMostOnce, ClaimGuardsEffect, Owns
<1> QED
  BY <1>2, <1>3

(* At most once: while Redis answers, no number of instances, retries and  *)
(* crashes makes one key's act take effect twice (app._dispatch_once).     *)
THEOREM ActsAtMostOnce == Spec => []AtMostOnce
<1>1. IInv => AtMostOnce
  BY DEF IInv
<1> QED
  BY InitIInv, NextIInv, <1>1, PTL DEF Spec

(* A key that took effect stays claimed and a key in hand has one owner,   *)
(* so a retry in any other instance finds it taken (kv.claim).             *)
THEOREM ClaimGuards == Spec => []ClaimGuardsEffect
<1>1. IInv => ClaimGuardsEffect
  BY DEF IInv
<1> QED
  BY InitIInv, NextIInv, <1>1, PTL DEF Spec

(* The claim protocol implements the abstract promise: until Redis or a    *)
(* reply fails, every step is Act(k) for one key or leaves the effects     *)
(* alone (kv.claim, app._dispatch_once).                                   *)
THEOREM ClaimImplementsOncePerKey == Spec => ImplementsOncePerKey
<1>1. Init => Once!Init
  BY DEF Init, Once!Init
<1>2. IInv /\ [Next]_vars => [Sound' => Once!Next]_effect
  <2> SUFFICES ASSUME IInv, [Next]_vars, Sound' PROVE [Once!Next]_effect
    OBVIOUS
  <2>0. Sound
    BY SoundBefore
  <2>1. ASSUME NEW w \in Workers, ActSucceeds(w) PROVE Once!Act(job[w])
    <3>1. effect[job[w]] = 0
      BY <2>0, <2>1 DEF ActSucceeds, IInv, Owns
    <3>2. effect' = [effect EXCEPT ![job[w]] = effect[job[w]] + 1]
      BY <2>1 DEF ActSucceeds
    <3>3. effect[job[w]] + 1 = 1
      BY <3>1
    <3> QED
      BY <3>1, <3>2, <3>3, Zenon DEF Once!Act
  <2>2. ASSUME NEW w \in Workers, ActFails(w) PROVE effect' = effect
    BY <2>2 DEF ActFails, Suffer, Sound
  <2>3. ASSUME NEW w \in Workers, GiveBack(w) \/ Crash(w) PROVE effect' = effect
    BY <2>3 DEF GiveBack, ReleaseShared, ReleaseFile, ReleaseNoFile, Crash
  <2>4. ASSUME NEW w \in Workers, NEW k \in Keys,
               Claim(w, k)
        PROVE  effect' = effect
    BY <2>4 DEF Claim, ClaimShared, ClaimFile, ClaimNoFile, ClaimRefused
  <2>5. ASSUME NEW k \in Keys, Expire(k) PROVE effect' = effect
    BY <2>5 DEF Expire
  <2>6. CASE UNCHANGED vars
    BY <2>6 DEF vars
  <2>7. \A w \in Workers : job[w] \in Keys
    BY DEF IInv, TypeOK
  <2> QED
    BY <2>1, <2>2, <2>3, <2>4, <2>5, <2>6, <2>7 DEF Next, Perform, Once!Next
<1> QED
  BY InitIInv, NextIInv, <1>1, <1>2, PTL DEF Spec, ImplementsOncePerKey

-----------------------------------------------------------------------------
(* While Redis may be unreachable, effects are counted against the stores  *)
(* that hold a claim: every effect and every worker with the key in hand   *)
(* has a claim of its own in Redis or in some instance's file.             *)

Degraded == suffered \subseteq {"kv_down"}

Holders(k) == {w \in Workers : pc[w] # "idle" /\ job[w] = k}

Filed(k) == {w \in Workers : k \in file[w]}

Shared(k) == IF k \in redis THEN 1 ELSE 0

Counted(k) == effect[k] + Cardinality(Holders(k)) <= Shared(k) + Cardinality(Filed(k))

CountInv == Degraded => \A k \in Keys : Counted(k)

\* The sets that are counted are finite.
LEMMA Countable ==
    ASSUME IsFiniteSet(Workers), NEW k
    PROVE  /\ Cardinality(Workers) \in Nat
           /\ IsFiniteSet(Holders(k)) /\ Cardinality(Holders(k)) \in Nat
           /\ IsFiniteSet(Filed(k)) /\ Cardinality(Filed(k)) \in Nat
           /\ Cardinality(Filed(k)) <= Cardinality(Workers)
           /\ IsFiniteSet(Holders(k)') /\ Cardinality(Holders(k)') \in Nat
           /\ IsFiniteSet(Filed(k)') /\ Cardinality(Filed(k)') \in Nat
<1>1. /\ Holders(k) \subseteq Workers /\ Filed(k) \subseteq Workers
      /\ Holders(k)' \subseteq Workers /\ Filed(k)' \subseteq Workers
  BY DEF Holders, Filed
<1>2. IsFiniteSet(Holders(k)) /\ IsFiniteSet(Filed(k)) /\ Cardinality(Filed(k)) <= Cardinality(Workers)
  BY <1>1, FS_Subset
<1>3. IsFiniteSet(Holders(k)') /\ IsFiniteSet(Filed(k)')
  BY <1>1, FS_Subset
<1> QED
  BY <1>2, <1>3, FS_CardinalityType

\* One more element makes a set larger by one.
LEMMA OneMore ==
    ASSUME NEW S, NEW T, NEW e, IsFiniteSet(S), e \notin S, T = S \union {e}
    PROVE  Cardinality(T) = Cardinality(S) + 1
BY FS_AddElement

\* One element less makes it smaller by at most one.
LEMMA OneLess ==
    ASSUME NEW S, NEW T, NEW e, IsFiniteSet(S), T = S \ {e}
    PROVE  /\ Cardinality(S) - 1 <= Cardinality(T) /\ Cardinality(T) <= Cardinality(S)
           /\ e \in S => Cardinality(T) = Cardinality(S) - 1
<1>1. Cardinality(S) \in Nat
  BY FS_CardinalityType
<1>2. CASE e \in S
  <2>1. Cardinality(T) = Cardinality(S) - 1
    BY <1>2, FS_RemoveElement
  <2> QED
    BY <1>1, <1>2, <2>1
<1>3. CASE e \notin S
  <2>1. T = S
    BY <1>3
  <2>2. Cardinality(T) = Cardinality(S)
    BY <2>1, Zenon
  <2> QED
    BY <1>1, <1>3, <2>2
<1> QED
  BY <1>2, <1>3

\* What degraded is now was degraded before, and nothing worse happened.
LEMMA DegradedBefore == ASSUME [Next]_vars, Degraded' PROVE Degraded
<1> USE DEF Degraded, Suffer, SufferBoth
<1>1. ASSUME NEW w \in Workers, NEW k \in Keys,
             Claim(w, k)
      PROVE  Degraded
  BY <1>1 DEF Claim, ClaimShared, ClaimFile, ClaimNoFile, ClaimRefused
<1>2. ASSUME NEW w \in Workers, Perform(w) \/ GiveBack(w) \/ Crash(w) PROVE Degraded
  BY <1>2 DEF Perform, ActSucceeds, ActFails, GiveBack, ReleaseShared, ReleaseFile, ReleaseNoFile, Crash
<1>3. ASSUME NEW k \in Keys, Expire(k) PROVE Degraded
  BY <1>3 DEF Expire
<1>4. CASE UNCHANGED vars
  BY <1>4 DEF vars
<1> QED
  BY <1>1, <1>2, <1>3, <1>4 DEF Next

\* A claim that is won, from Redis or from the file, is one of its own.
LEMMA ClaimCounts ==
    ASSUME IsFiniteSet(Workers), TypeOK, NEW k \in Keys, Counted(k),
           NEW w \in Workers, NEW j \in Keys, ClaimShared(w, j) \/ ClaimFile(w, j), Degraded'
    PROVE  Counted(k)'
<1>1. pc[w] = "idle" /\ Won(w, j) /\ effect' = effect
  BY DEF ClaimShared, ClaimFile
<1>2. \A v \in Workers : /\ pc'[v] = (IF v = w THEN "act" ELSE pc[v])
                         /\ job'[v] = (IF v = w THEN j ELSE job[v])
  BY <1>1 DEF Won, Goto, TypeOK
<1>3. Holders(k)' = IF k = j THEN Holders(k) \union {w} ELSE Holders(k)
  BY <1>1, <1>2 DEF Holders
<1>4. w \notin Holders(k)
  BY <1>1 DEF Holders
<1>5. effect[k] \in Nat
  BY ClaimLedgerAssumption DEF TypeOK
<1>6. CASE ClaimShared(w, j)
  <2>1. Filed(k)' = Filed(k) /\ Shared(k)' = (IF k = j THEN 1 ELSE Shared(k)) /\ (k = j => Shared(k) = 0)
    BY <1>6 DEF ClaimShared, Filed, Shared
  <2>2. Shared(k) \in Nat
    BY DEF Shared
  <2>3. k = j => Cardinality(Holders(k)') = Cardinality(Holders(k)) + 1
    BY <1>3, <1>4, Countable, OneMore
  <2> QED
    BY <1>1, <1>3, <1>5, <2>1, <2>2, <2>3, Countable DEF Counted
<1>7. CASE ClaimFile(w, j)
  <2>1. redis' = redis /\ w \notin Filed(j) /\ file' = [file EXCEPT ![w] = @ \union {j}]
    BY <1>7 DEF ClaimFile, Suffer, Degraded, Filed
  <2>2. Filed(k)' = IF k = j THEN Filed(k) \union {w} ELSE Filed(k)
    BY <2>1 DEF Filed, TypeOK
  <2>3. Shared(k)' = Shared(k) /\ Shared(k) \in Nat
    BY <2>1 DEF Shared
  <2>4. k = j => Cardinality(Holders(k)') = Cardinality(Holders(k)) + 1
    BY <1>3, <1>4, Countable, OneMore
  <2>5. k = j => Cardinality(Filed(k)') = Cardinality(Filed(k)) + 1
    BY <2>1, <2>2, Countable, OneMore
  <2> QED
    BY <1>1, <1>3, <1>5, <2>2, <2>3, <2>4, <2>5, Countable DEF Counted
<1> QED
  BY <1>6, <1>7

\* An act that works uses up its claim, one that fails keeps it.
LEMMA ActCounts ==
    ASSUME IsFiniteSet(Workers), TypeOK, NEW k \in Keys, Counted(k),
           NEW w \in Workers, Perform(w), Degraded'
    PROVE  Counted(k)'
<1>1. redis' = redis /\ file' = file /\ job' = job /\ pc[w] = "act" /\ job[w] \in Keys
  BY DEF Perform, ActSucceeds, ActFails, ledger, TypeOK
<1>2. Filed(k)' = Filed(k) /\ Shared(k)' = Shared(k) /\ Shared(k) \in Nat /\ effect[k] \in Nat
  BY <1>1, ClaimLedgerAssumption DEF Filed, Shared, TypeOK
<1>3. CASE ActSucceeds(w)
  <2>1. \A v \in Workers : pc'[v] = (IF v = w THEN "idle" ELSE pc[v])
    BY <1>3 DEF ActSucceeds, Goto, TypeOK
  <2>2. Holders(k)' = (IF k = job[w] THEN Holders(k) \ {w} ELSE Holders(k)) /\ (k = job[w] => w \in Holders(k))
    BY <1>1, <2>1 DEF Holders
  <2>3. effect'[k] = IF k = job[w] THEN effect[k] + 1 ELSE effect[k]
    BY <1>1, <1>3 DEF ActSucceeds, TypeOK
  <2>4. k = job[w] => Cardinality(Holders(k)') = Cardinality(Holders(k)) - 1
    BY <2>2, Countable, OneLess
  <2> QED
    BY <1>2, <2>2, <2>3, <2>4, Countable DEF Counted
<1>4. CASE ActFails(w)
  <2>1. effect' = effect
    BY <1>4 DEF ActFails, Suffer, Degraded
  <2>2. \A v \in Workers : pc'[v] = (IF v = w THEN "release" ELSE pc[v])
    BY <1>4 DEF ActFails, Goto, TypeOK
  <2>3. Holders(k)' = Holders(k)
    BY <1>1, <2>2 DEF Holders
  <2> QED
    BY <1>2, <2>1, <2>3 DEF Counted
<1> QED
  BY <1>3, <1>4 DEF Perform

\* A release takes back at most the claim of the act that failed.
LEMMA ReleaseCounts ==
    ASSUME IsFiniteSet(Workers), TypeOK, NEW k \in Keys, Counted(k),
           NEW w \in Workers, GiveBack(w), Degraded'
    PROVE  Counted(k)'
<1>1. effect' = effect /\ job' = job /\ pc[w] = "release" /\ job[w] \in Keys /\ effect[k] \in Nat
  BY ClaimLedgerAssumption DEF GiveBack, ReleaseShared, ReleaseFile, ReleaseNoFile, TypeOK
<1>2. \A v \in Workers : pc'[v] = (IF v = w THEN "idle" ELSE pc[v])
  BY DEF GiveBack, ReleaseShared, ReleaseFile, ReleaseNoFile, Goto, TypeOK
<1>3. Holders(k)' = (IF k = job[w] THEN Holders(k) \ {w} ELSE Holders(k)) /\ (k = job[w] => w \in Holders(k))
  BY <1>1, <1>2 DEF Holders
<1>9. k = job[w] => Cardinality(Holders(k)') = Cardinality(Holders(k)) - 1
  BY <1>3, Countable, OneLess
<1>4. CASE ReleaseShared(w)
  <2>1. Filed(k)' = Filed(k) /\ Shared(k)' = (IF k = job[w] THEN 0 ELSE Shared(k)) /\ Shared(k) \in {0, 1}
    BY <1>4 DEF ReleaseShared, Filed, Shared
  <2> QED
    BY <1>1, <1>3, <1>9, <2>1, Countable DEF Counted
<1>5. CASE ReleaseFile(w)
  <2>1. redis' = redis /\ file' = [file EXCEPT ![w] = @ \ {job[w]}]
    BY <1>5 DEF ReleaseFile, Suffer, Degraded
  <2>2. Filed(k)' = IF k = job[w] THEN Filed(k) \ {w} ELSE Filed(k)
    BY <2>1 DEF Filed, TypeOK
  <2>3. Shared(k)' = Shared(k) /\ Shared(k) \in Nat
    BY <2>1 DEF Shared
  <2>4. k = job[w] => Cardinality(Filed(k)) - 1 <= Cardinality(Filed(k)')
    BY <2>2, Countable, OneLess
  <2>5. CASE k = job[w]
    BY <1>1, <1>9, <2>3, <2>4, <2>5, Countable DEF Counted
  <2>6. CASE k # job[w]
    BY <1>1, <1>3, <2>2, <2>3, <2>6 DEF Counted
  <2> QED
    BY <2>5, <2>6
<1>6. ~ReleaseNoFile(w)
  BY DEF ReleaseNoFile, SufferBoth, Degraded
<1> QED
  BY <1>4, <1>5, <1>6 DEF GiveBack

\* Every step keeps the count.
LEMMA CountStep ==
    ASSUME IsFiniteSet(Workers)
    PROVE  TypeOK /\ CountInv /\ [Next]_vars => CountInv'
<1> SUFFICES ASSUME TypeOK, CountInv, [Next]_vars, Degraded', NEW k \in Keys
             PROVE  Counted(k)'
  BY DEF CountInv
<1>1. Counted(k)
  BY DegradedBefore DEF CountInv
<1>2. ASSUME NEW w \in Workers, NEW j \in Keys, Claim(w, j)
      PROVE  Counted(k)'
  BY <1>1, <1>2, ClaimCounts DEF Claim, ClaimNoFile, ClaimRefused, Suffer, SufferBoth, Degraded
<1>3. ASSUME NEW w \in Workers, Perform(w) \/ GiveBack(w) \/ Crash(w)
      PROVE  Counted(k)'
  BY <1>1, <1>3, ActCounts, ReleaseCounts DEF Crash, Suffer, Degraded
<1>4. ASSUME NEW j \in Keys, Expire(j)
      PROVE  Counted(k)'
  BY <1>4 DEF Expire, Suffer, Degraded
<1>5. CASE UNCHANGED vars
  BY <1>1, <1>5 DEF vars, ledger, worker, Counted, Holders, Filed, Shared
<1> QED
  BY <1>2, <1>3, <1>4, <1>5 DEF Next

(* While Redis is unreachable for some commands, a key takes effect at     *)
(* most once through Redis and once more for every instance, also when a   *)
(* claim and its release reach different stores (kv.claim, kv.release).    *)
THEOREM DegradesGracefully ==
    ASSUME IsFiniteSet(Workers)
    PROVE  Spec => []DegradedBound
<1>1. Init => TypeOK
  BY ClaimLedgerAssumption DEF Init, TypeOK, Steps
<1>2. Init => CountInv
  <2> SUFFICES ASSUME Init, NEW k \in Keys PROVE Counted(k)
    BY DEF CountInv
  <2>1. Holders(k) = {} /\ Filed(k) = {} /\ Shared(k) = 0 /\ effect[k] = 0
    BY DEF Init, Holders, Filed, Shared
  <2> QED
    BY <2>1, FS_EmptySet DEF Counted
<1>3. TypeOK /\ CountInv => DegradedBound
  <2> SUFFICES ASSUME TypeOK, CountInv, Degraded, NEW k \in Keys
               PROVE  effect[k] <= 1 + Cardinality(Workers)
    BY DEF DegradedBound, Degraded
  <2>1. Counted(k) /\ effect[k] \in Nat /\ Shared(k) \in {0, 1}
    BY ClaimLedgerAssumption DEF CountInv, TypeOK, Shared
  <2> QED
    BY <2>1, Countable DEF Counted
<1> QED
  BY <1>1, <1>2, <1>3, StepTypeOK, CountStep, PTL DEF Spec
=============================================================================
