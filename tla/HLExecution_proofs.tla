------------------------- MODULE HLExecution_proofs -------------------------
(***************************************************************************)
(* Proofs about opening positions.  In one instance the account never      *)
(* holds two positions on a coin, whatever the KV, the network and the     *)
(* platform do: the lock admits one pass at a time, and during a pass      *)
(* every held coin is in the pass's snapshot or is of no more interest to  *)
(* the pass, because its signals are on distinct coins (IInv).  The same   *)
(* invariant carries the exposure cap (CapInv).  A signal is filled once   *)
(* by the claim alone (ClaimInv), by the exchange's memory (ExchangeInv)   *)
(* or by the lookup under the lock (LookInv).  Over several instances,     *)
(* with the scalp book, what can stack is counted by the instances that    *)
(* may still open a coin and the passes that still wait (StackInv).        *)
(***************************************************************************)
EXTENDS HLExecution, FiniteSetTheorems, TLAPS

Rules == INSTANCE Rules_proofs

(* All requests run in one instance, and the scalp book is switched off.   *)
OneInstanceOnly ==
    /\ \A q, r \in Requests : InstanceOf[q] = InstanceOf[r]
    /\ Scalps = {}

Active(r) == pc[r] \notin {"idle", "wait"}

InHand(r) == pc[r] \in {"lookup", "claim", "send"}

\* the signals whose orders request r may still send
Pending(r) == todo[r] \union {s \in Signals : InHand(r) /\ s = cur[r]}

TypeLocal ==
    /\ held \in [Coins -> Nat]
    /\ scalp = {}
    /\ lock \in [Instances -> Requests \union {NoRequest}]
    /\ pc \in [Requests -> Steps \ {"record"}]
    /\ todo \in [Requests -> SUBSET Signals]
    /\ cur \in [Requests -> Signals \union {NoSignal}]
    /\ snap \in [Requests -> [Coins -> Nat]]
    /\ placed \in [Requests -> Nat]

LockInv == \A r \in Requests : Active(r) => lock[InstanceOf[r]] = r

CurInv ==
    \A r \in Requests : InHand(r) =>
        /\ cur[r] \in Signals \ todo[r]
        /\ snap[r][CoinOf[cur[r]]] = 0

DistinctInv ==
    \A r \in Requests : \A s, t \in Pending(r) : CoinOf[s] = CoinOf[t] => s = t

SnapInv ==
    \A r \in Requests : Active(r) =>
        \A s \in Pending(r) : held[CoinOf[s]] > 0 => snap[r][CoinOf[s]] > 0

IInv == TypeLocal /\ LockInv /\ CurInv /\ DistinctInv /\ SnapInv /\ OnePositionPerCoin

-----------------------------------------------------------------------------

\* The invariant of the lock and the snapshots holds at first.
LEMMA InitIInv == Init => IInv
BY HLExecutionAssumption
   DEF Init, NoAccount, IInv, TypeLocal, Steps, LockInv, Active, CurInv, InHand,
       DistinctInv, Pending, SnapInv, OnePositionPerCoin

(* Steps that keep the exchange and r's account snapshot and only move one *)
(* active request on, with fewer or the same signals pending.              *)
LEMMA MovesOn ==
    ASSUME IInv, NEW r \in Requests, NEW step \in Steps \ {"idle", "wait", "record"},
           Active(r), Goto(r, step),
           UNCHANGED <<held, scalp, lock, snap>>,
           placed' \in [Requests -> Nat],
           todo' \in [Requests -> SUBSET Signals],
           cur' \in [Requests -> Signals \union {NoSignal}],
           \A q \in Requests \ {r} : todo'[q] = todo[q] /\ cur'[q] = cur[q],
           Pending(r)' \subseteq Pending(r),
           InHand(r)' => /\ cur'[r] \in Signals \ todo'[r]
                         /\ snap[r][CoinOf[cur'[r]]] = 0
    PROVE  IInv'
<1>1. \A q \in Requests : pc'[q] = IF q = r THEN step ELSE pc[q]
  BY DEF Goto, IInv, TypeLocal
<1>2. TypeLocal'
  BY DEF IInv, TypeLocal, Goto
<1>3. \A q \in Requests : Active(q)' <=> Active(q)
  BY <1>1 DEF Active
<1>4. \A q \in Requests : Pending(q)' \subseteq Pending(q)
  BY <1>1 DEF Pending, InHand
<1>5. LockInv'
  BY <1>3 DEF IInv, LockInv
<1>6. CurInv'
  <2> SUFFICES ASSUME NEW q \in Requests, InHand(q)'
               PROVE  cur'[q] \in Signals \ todo'[q] /\ snap[q][CoinOf[cur'[q]]] = 0
    BY DEF CurInv
  <2>1. CASE q = r
    BY <2>1
  <2>2. CASE q # r
    BY <1>1, <2>2 DEF IInv, CurInv, InHand
  <2> QED
    BY <2>1, <2>2
<1>7. DistinctInv'
  BY <1>4 DEF IInv, DistinctInv
<1>8. SnapInv'
  BY <1>3, <1>4 DEF IInv, SnapInv
<1>9. OnePositionPerCoin'
  BY DEF IInv, OnePositionPerCoin
<1> QED
  BY <1>2, <1>5, <1>6, <1>7, <1>8, <1>9 DEF IInv

(* At most one request is active.                                          *)
LEMMA OneActive ==
    ASSUME OneInstanceOnly, IInv, NEW q \in Requests, NEW r \in Requests,
           Active(q), Active(r)
    PROVE  q = r
BY DEF OneInstanceOnly, IInv, LockInv

(* A request that is not active yet chooses its signals.                   *)
LEMMA SelectStep ==
    ASSUME IInv, OneInstanceOnly, NEW r \in Requests, Select(r)
    PROVE  IInv'
<1> USE HLExecutionAssumption
<1>1. \E S \in SUBSET Signals :
        /\ \A s, t \in S : CoinOf[s] = CoinOf[t] => s = t
        /\ todo' = [todo EXCEPT ![r] = S]
        /\ pc[r] = "idle" /\ Goto(r, "wait")
        /\ UNCHANGED <<exchange, ledger, scalp, lock, cur, snapshot>>
  <2>1. CASE SelectAuto(r)
    BY <2>1 DEF SelectAuto
  <2>2. CASE SelectManual(r)
    <3>1. PICK s \in Signals : todo' = [todo EXCEPT ![r] = {s}]
      BY <2>2 DEF SelectManual
    <3>2. {s} \in SUBSET Signals /\ \A t, u \in {s} : CoinOf[t] = CoinOf[u] => t = u
      OBVIOUS
    <3> QED
      BY <2>2, <3>1, <3>2 DEF SelectManual
  <2> QED
    BY <2>1, <2>2 DEF Select, SelectScalp, OneInstanceOnly
<1>2. PICK S \in SUBSET Signals :
        /\ \A s, t \in S : CoinOf[s] = CoinOf[t] => s = t
        /\ todo' = [todo EXCEPT ![r] = S]
        /\ pc[r] = "idle" /\ Goto(r, "wait")
        /\ UNCHANGED <<exchange, ledger, scalp, lock, cur, snapshot>>
  BY <1>1
<1>3. TypeLocal'
  BY <1>2 DEF IInv, TypeLocal, Goto, Steps, exchange, snapshot
<1>4. \A q \in Requests :
        /\ pc'[q] = IF q = r THEN "wait" ELSE pc[q]
        /\ todo'[q] = IF q = r THEN S ELSE todo[q]
        /\ Active(q)' <=> Active(q)
        /\ InHand(q)' <=> InHand(q)
        /\ cur'[q] = cur[q] /\ snap'[q] = snap[q]
  BY <1>2 DEF IInv, TypeLocal, Goto, Active, InHand, snapshot
<1>5. ~Active(r) /\ ~InHand(r) /\ Pending(r)' = S
  BY <1>2, <1>4 DEF Active, InHand, Pending
<1>6. \A q \in Requests \ {r} : Pending(q)' = Pending(q)
  BY <1>4 DEF Pending
<1>7. held' = held /\ lock' = lock
  BY <1>2 DEF exchange
<1>8. DistinctInv'
  BY <1>2, <1>5, <1>6 DEF IInv, DistinctInv
<1>9. LockInv' /\ CurInv' /\ SnapInv' /\ OnePositionPerCoin'
  BY <1>4, <1>5, <1>6, <1>7
     DEF IInv, LockInv, CurInv, SnapInv, OnePositionPerCoin
<1> QED
  BY <1>3, <1>8, <1>9 DEF IInv

(* Taking the lock: the snapshot is the account, and no other pass runs.   *)
LEMMA ReadStep ==
    ASSUME IInv, OneInstanceOnly, NEW r \in Requests, ReadAccount(r)
    PROVE  IInv'
<1> USE HLExecutionAssumption
<1> DEFINE step == IF r \in Autos THEN "filter" ELSE "next"
<1>1. \A q \in Requests : ~Active(q)
  BY DEF ReadAccount, OneInstanceOnly, IInv, LockInv
<1>2. TypeLocal'
  BY DEF ReadAccount, IInv, TypeLocal, Goto, Steps, exchange, plan
<1>3. \A q \in Requests :
        /\ pc'[q] = IF q = r THEN step ELSE pc[q]
        /\ Pending(q)' = Pending(q)
        /\ ~InHand(q)'
        /\ Active(q)' => q = r
  <2>1. \A q \in Requests : pc'[q] = IF q = r THEN step ELSE pc[q]
    BY DEF ReadAccount, IInv, TypeLocal, Goto
  <2>2. \A q \in Requests : ~InHand(q) /\ ~InHand(q)'
    BY <1>1, <2>1 DEF InHand, Active
  <2> QED
    BY <1>1, <2>1, <2>2 DEF Active, Pending, ReadAccount, plan
<1>4. snap'[r] = held /\ held' = held /\ lock'[InstanceOf[r]] = r
  BY DEF ReadAccount, IInv, TypeLocal, exchange
<1>5. LockInv' /\ CurInv' /\ SnapInv' /\ DistinctInv' /\ OnePositionPerCoin'
  BY <1>3, <1>4 DEF IInv, LockInv, CurInv, SnapInv, DistinctInv, OnePositionPerCoin
<1> QED
  BY <1>2, <1>5 DEF IInv

(* With no scalp record the filter changes nothing.                        *)
LEMMA FilterStep ==
    ASSUME IInv, NEW r \in Requests, DropScalpCoins(r)
    PROVE  IInv'
<1>1. snap' = snap
  BY DEF DropScalpCoins, IInv, TypeLocal
<1>2. Active(r) /\ Pending(r)' \subseteq Pending(r) /\ ~InHand(r)'
  BY DEF DropScalpCoins, Active, Pending, InHand, Goto, IInv, TypeLocal, plan
<1> QED
  BY <1>1, <1>2, MovesOn
     DEF DropScalpCoins, Steps, exchange, plan, IInv, TypeLocal

(* Refusing a signal, or taking one in hand that the snapshot shows free.  *)
LEMMA ConsiderStep ==
    ASSUME IInv, NEW r \in Requests, Refuse(r) \/ Consider(r)
    PROVE  IInv'
<1> USE HLExecutionAssumption
<1>1. CASE Refuse(r)
  <2>1. PICK s \in todo[r] : todo' = [todo EXCEPT ![r] = @ \ {s}]
    BY <1>1 DEF Refuse
  <2>2. pc[r] = "next" /\ pc' = pc
    BY <1>1 DEF Refuse
  <2>3. Goto(r, "next")
    BY <2>2 DEF Goto, IInv, TypeLocal
  <2>4. Active(r) /\ ~InHand(r)' /\ Pending(r)' \subseteq Pending(r)
    BY <2>1, <2>2 DEF Active, InHand, Pending, IInv, TypeLocal
  <2> QED
    BY <1>1, <2>1, <2>3, <2>4, MovesOn
       DEF Refuse, Steps, exchange, snapshot, IInv, TypeLocal
<1>2. CASE Consider(r)
  <2>1. PICK s \in todo[r] : /\ snap[r][CoinOf[s]] = 0
                            /\ todo' = [todo EXCEPT ![r] = @ \ {s}]
                            /\ cur' = [cur EXCEPT ![r] = s]
    BY <1>2 DEF Consider
  <2>2. s \in Signals /\ cur'[r] = s /\ s \notin todo'[r] /\ todo'[r] \subseteq todo[r]
    BY <2>1 DEF IInv, TypeLocal
  <2>3. Active(r) /\ Pending(r)' \subseteq Pending(r)
    BY <1>2, <2>2, <2>1 DEF Consider, Active, Pending
  <2>4. snap[r][CoinOf[cur'[r]]] = 0
    BY <2>1, <2>2
  <2> QED
    BY <1>2, <2>1, <2>2, <2>3, <2>4, MovesOn
       DEF Consider, Steps, exchange, snapshot, IInv, TypeLocal
<1> QED
  BY <1>1, <1>2

(* The lookup, the claim and the release touch neither the account nor the *)
(* snapshot.                                                               *)
LEMMA LedgerStep ==
    ASSUME IInv, NEW r \in Requests,
           \/ LookupStops(r) \/ LookupPasses(r) \/ Claim(r)
           \/ ReleaseShared(r) \/ ReleaseFile(r)
    PROVE  IInv'
<1> USE DEF NextSignal
<1>1. CASE LookupPasses(r) \/ ClaimShared(r) \/ ClaimFile(r)
  <2>1. PICK step \in {"claim", "send"} : Goto(r, step)
    BY <1>1 DEF LookupPasses, ClaimShared, ClaimFile
  <2>2. Active(r) /\ InHand(r)
    BY <1>1 DEF LookupPasses, ClaimShared, ClaimFile, Active, InHand
  <2>3. todo' = todo /\ cur' = cur
    BY <1>1 DEF LookupPasses, ClaimShared, ClaimFile, plan
  <2>4. UNCHANGED <<held, scalp, lock, snap, placed>>
    BY <1>1 DEF LookupPasses, ClaimShared, ClaimFile, exchange, snapshot
  <2>5. Pending(r)' \subseteq Pending(r)
    BY <2>2, <2>3 DEF Pending
  <2>6. cur[r] \in Signals \ todo[r] /\ snap[r][CoinOf[cur[r]]] = 0
    BY <2>2 DEF IInv, CurInv
  <2> QED
    BY <2>1, <2>2, <2>3, <2>4, <2>5, <2>6, MovesOn DEF Steps, IInv, TypeLocal
<1>2. CASE LookupStops(r)
  <2>1. Active(r) /\ ~InHand(r)' /\ Pending(r)' \subseteq Pending(r)
    BY <1>2 DEF LookupStops, Active, InHand, Pending, Goto, IInv, TypeLocal
  <2> QED
    BY <1>2, <2>1, MovesOn
       DEF LookupStops, Steps, exchange, snapshot, IInv, TypeLocal
<1>3. CASE ClaimLost(r) \/ ReleaseShared(r) \/ ReleaseFile(r)
  <2>1. Goto(r, "next") /\ cur' = [cur EXCEPT ![r] = NoSignal] /\ todo' = todo
    BY <1>3 DEF ClaimLost, ReleaseShared, ReleaseFile
  <2>2. UNCHANGED <<held, scalp, lock, snap, placed>>
    BY <1>3 DEF ClaimLost, ReleaseShared, ReleaseFile, exchange, snapshot
  <2>3. Active(r)
    BY <1>3 DEF ClaimLost, ReleaseShared, ReleaseFile, Active
  <2>4. ~InHand(r)' /\ Pending(r)' \subseteq Pending(r)
    BY <2>1 DEF InHand, Pending, Goto, IInv, TypeLocal
  <2> QED
    BY <2>1, <2>2, <2>3, <2>4, MovesOn DEF Steps, IInv, TypeLocal
<1> QED
  BY <1>1, <1>2, <1>3 DEF Claim

(* A fill, reported or lost: the coin was free in the snapshot, hence free *)
(* on the exchange, and no other request can have it in mind.              *)
LEMMA SendStep ==
    ASSUME IInv, OneInstanceOnly, NEW r \in Requests, Send(r)
    PROVE  IInv'
<1> USE HLExecutionAssumption DEF NextSignal
<1>1. pc[r] = "send" /\ Active(r) /\ InHand(r)
  BY DEF Send, SendAccepted, SendRejected, SendRaises, Active, InHand
<1>2. cur[r] \in Signals \ todo[r] /\ snap[r][CoinOf[cur[r]]] = 0
  BY <1>1 DEF IInv, CurInv
<1>3. CASE UNCHANGED <<held, snap, placed, todo, cur>> /\ Goto(r, "release")
  <2>1. ~InHand(r)' /\ Pending(r)' \subseteq Pending(r)
    BY <1>3 DEF InHand, Pending, Goto, IInv, TypeLocal
  <2>2. UNCHANGED <<scalp, lock>>
    BY DEF Send, SendAccepted, SendRejected, SendRaises
  <2> QED
    BY <1>1, <1>3, <2>1, <2>2, MovesOn DEF Steps, IInv, TypeLocal
<1>4. ASSUME Execute(cur[r]),
             UNCHANGED <<scalp, lock, todo>>,
             pc' = [pc EXCEPT ![r] = "release"] \/ pc' = [pc EXCEPT ![r] = "next"],
             cur' = cur \/ cur' = [cur EXCEPT ![r] = NoSignal],
             snap' = snap \/ snap' = [snap EXCEPT ![r][CoinOf[cur[r]]] = @ + 1],
             placed' \in [Requests -> Nat]
      PROVE  IInv'
  <2> DEFINE c == CoinOf[cur[r]]
  <2>1. c \in Coins /\ cur[r] \in Pending(r)
    BY <1>1, <1>2 DEF Pending
  <2>2. held[c] = 0
    BY <1>1, <1>2, <2>1 DEF IInv, SnapInv, TypeLocal
  <2>3. /\ held' = [held EXCEPT ![c] = 1]
        /\ held' \in [Coins -> Nat]
    BY <1>4, <2>1, <2>2 DEF Execute, IInv, TypeLocal
  <2>4. \A q \in Requests : Active(q) => q = r
    BY <1>1, OneActive
  <2>5. \A q \in Requests : (Active(q)' <=> Active(q)) /\ ~InHand(q)'
    BY <1>4, <2>4, <1>1 DEF Active, InHand, IInv, TypeLocal
  <2>6. \A q \in Requests : Pending(q)' \subseteq Pending(q) /\ cur[r] \notin Pending(r)'
    BY <1>4, <2>5, <1>2 DEF Pending
  <2>7. TypeLocal'
    <3>1. snap' \in [Requests -> [Coins -> Nat]]
      <4>1. CASE snap' = snap
        BY <4>1 DEF IInv, TypeLocal
      <4>2. CASE snap' = [snap EXCEPT ![r][c] = @ + 1]
        <5>1. [snap[r] EXCEPT ![c] = @ + 1] \in [Coins -> Nat]
          BY <2>1 DEF IInv, TypeLocal
        <5> QED
          BY <4>2, <5>1 DEF IInv, TypeLocal
      <4> QED
        BY <1>4, <4>1, <4>2
    <3> QED
      BY <1>4, <2>3, <3>1 DEF IInv, TypeLocal, Steps
  <2>8. SnapInv'
    <3> SUFFICES ASSUME NEW q \in Requests, Active(q)', NEW s \in Pending(q)',
                        held'[CoinOf[s]] > 0
                 PROVE  snap'[q][CoinOf[s]] > 0
      BY DEF SnapInv
    <3>1. q = r /\ s \in Pending(r) /\ s # cur[r]
      BY <2>4, <2>5, <2>6
    <3>2. CoinOf[s] # c /\ s \in Signals
      BY <3>1, <2>1 DEF IInv, DistinctInv, Pending, TypeLocal
    <3>3. held[CoinOf[s]] > 0
      BY <3>2, <2>3 DEF IInv, TypeLocal
    <3>4. snap[r][CoinOf[s]] > 0
      BY <3>1, <3>3, <1>1 DEF IInv, SnapInv
    <3> QED
      BY <1>4, <3>1, <3>2, <3>4 DEF IInv, TypeLocal
  <2>9. OnePositionPerCoin'
    BY <2>3 DEF IInv, OnePositionPerCoin, TypeLocal
  <2>10. LockInv' /\ CurInv' /\ DistinctInv'
    BY <1>4, <2>5, <2>6 DEF IInv, LockInv, CurInv, DistinctInv
  <2> QED
    BY <2>7, <2>8, <2>9, <2>10 DEF IInv
<1>5. CASE SendAccepted(r)
  BY <1>4, <1>5 DEF SendAccepted, Goto, IInv, TypeLocal
<1>6. CASE SendRejected(r)
  BY <1>3, <1>6 DEF SendRejected, plan, snapshot
<1>7. CASE SendRaises(r)
  BY <1>3, <1>4, <1>7 DEF SendRaises, Goto, exchange, plan, snapshot, IInv, TypeLocal
<1> QED
  BY <1>5, <1>6, <1>7 DEF Send

(* Requests that end have nothing pending and free their lock; meanwhile   *)
(* positions may be closed, never opened.                                  *)
LEMMA ReturnStep ==
    ASSUME IInv, NEW R \in SUBSET Requests, Return(R),
           \A q \in Requests \ R : Active(q) => lock'[InstanceOf[q]] = q,
           lock' \in [Instances -> Requests \union {NoRequest}],
           held' \in [Coins -> Nat], scalp' = scalp,
           \A c \in Coins : held'[c] <= held[c]
    PROVE  IInv'
<1> USE HLExecutionAssumption
<1>1. TypeLocal'
  BY DEF Return, IInv, TypeLocal, Steps, NoAccount
<1>2. ASSUME NEW q \in R
      PROVE  pc'[q] = "idle" /\ todo'[q] = {} /\ ~Active(q)' /\ ~InHand(q)'
  BY <1>2 DEF Return, Active, InHand
<1>3. ASSUME NEW q \in Requests \ R
      PROVE  /\ pc'[q] = pc[q] /\ todo'[q] = todo[q]
             /\ cur'[q] = cur[q] /\ snap'[q] = snap[q]
             /\ Active(q)' = Active(q) /\ InHand(q)' = InHand(q)
  BY <1>3 DEF Return, Active, InHand
<1>4. LockInv'
  <2> SUFFICES ASSUME NEW q \in Requests, Active(q)'
               PROVE  lock'[InstanceOf[q]] = q
    BY DEF LockInv
  <2> QED
    BY <1>2, <1>3
<1>5. CurInv'
  <2> SUFFICES ASSUME NEW q \in Requests, InHand(q)'
               PROVE  cur'[q] \in Signals \ todo'[q] /\ snap'[q][CoinOf[cur'[q]]] = 0
    BY DEF CurInv
  <2> QED
    BY <1>2, <1>3 DEF IInv, CurInv
<1>6. \A q \in Requests : Pending(q)' \subseteq Pending(q)
  <2> TAKE q \in Requests
  <2>1. CASE q \in R
    BY <2>1, <1>2 DEF Pending
  <2>2. CASE q \notin R
    BY <2>2, <1>3 DEF Pending
  <2> QED
    BY <2>1, <2>2
<1>7. DistinctInv'
  BY <1>6 DEF IInv, DistinctInv
<1>8. SnapInv'
  <2> SUFFICES ASSUME NEW q \in Requests, Active(q)', NEW s \in Pending(q)',
                      held'[CoinOf[s]] > 0
               PROVE  snap'[q][CoinOf[s]] > 0
    BY DEF SnapInv
  <2>1. q \notin R /\ Active(q) /\ s \in Pending(q) /\ snap'[q] = snap[q]
    BY <1>2, <1>3, <1>6
  <2>2. CoinOf[s] \in Coins
    BY <2>1 DEF Pending, IInv, TypeLocal
  <2>3. held[CoinOf[s]] > 0
    BY <2>2 DEF IInv, TypeLocal
  <2> QED
    BY <2>1, <2>3 DEF IInv, SnapInv
<1>9. OnePositionPerCoin'
  BY DEF IInv, OnePositionPerCoin, TypeLocal
<1> QED
  BY <1>1, <1>4, <1>5, <1>7, <1>8, <1>9 DEF IInv

(* The pass that finishes is the only active one.                          *)
LEMMA FinishStep ==
    ASSUME IInv, OneInstanceOnly, NEW r \in Requests, Finish(r)
    PROVE  IInv'
<1>1. Active(r)
  BY DEF Finish, Active
<1>2. \A q \in Requests \ {r} : ~Active(q)
  BY <1>1, OneActive
<1>3. lock' \in [Instances -> Requests \union {NoRequest}]
  BY HLExecutionAssumption DEF Finish, IInv, TypeLocal
<1> QED
  BY <1>2, <1>3, ReturnStep DEF Finish, exchange, IInv, TypeLocal

(* A crash ends every request of the instance that holds the lock.         *)
LEMMA CrashStep ==
    ASSUME IInv, OneInstanceOnly, NEW i \in Instances, Crash(i)
    PROVE  IInv'
<1> DEFINE R == {r \in Requests : InstanceOf[r] = i}
<1>1. \A q \in Requests : q \in R
  BY DEF Crash, OneInstanceOnly
<1>2. lock' \in [Instances -> Requests \union {NoRequest}]
  BY DEF Crash, IInv, TypeLocal
<1>3. Return(R) /\ held' = held /\ scalp' = scalp
  BY DEF Crash, exchange
<1> QED
  BY <1>1, <1>2, <1>3, ReturnStep DEF IInv, TypeLocal

(* The environment closes a position.                                      *)
LEMMA CloseStep ==
    ASSUME IInv, NEW c \in Coins, Close(c)
    PROVE  IInv'
<1>1. Return({})
  BY DEF Close, Return, plan, snapshot, IInv, TypeLocal
<1>2. held' \in [Coins -> Nat] /\ \A d \in Coins : held'[d] <= held[d]
  BY DEF Close, IInv, TypeLocal
<1>3. lock' = lock /\ scalp' = scalp
  BY DEF Close
<1>4. \A q \in Requests \ {} : Active(q) => lock'[InstanceOf[q]] = q
  BY <1>3 DEF IInv, LockInv
<1> QED
  BY <1>1, <1>2, <1>3, <1>4, ReturnStep DEF IInv, TypeLocal

\* Every step keeps it, given one instance.
LEMMA StepIInv ==
    ASSUME OneInstanceOnly
    PROVE  IInv /\ [Next]_vars => IInv'
<1> SUFFICES ASSUME IInv, [Next]_vars
             PROVE  IInv'
  OBVIOUS
<1>1. ASSUME NEW r \in Requests, Select(r)
      PROVE  IInv'
  BY <1>1, SelectStep
<1>2. ASSUME NEW r \in Requests, Guard(r)
      PROVE  IInv'
  BY <1>2, ReadStep, FilterStep, ConsiderStep, LedgerStep DEF Guard
<1>3. ASSUME NEW r \in Requests, Claim(r)
      PROVE  IInv'
  BY <1>3, LedgerStep
<1>4. ASSUME NEW r \in Requests, Send(r)
      PROVE  IInv'
  BY <1>4, SendStep
<1>5. ASSUME NEW r \in Requests, Conclude(r)
      PROVE  IInv'
  BY <1>5, LedgerStep, FinishStep DEF Conclude
<1>6. ASSUME NEW r \in Requests, Scalp(r)
      PROVE  IInv'
  <2>1. CASE ScalpOpen(r)
    BY <2>1 DEF ScalpOpen, OneInstanceOnly
  <2>2. CASE ScalpRecord(r)
    BY <2>2 DEF ScalpRecord, IInv, TypeLocal
  <2> QED
    BY <1>6, <2>1, <2>2 DEF Scalp
<1>7. ASSUME NEW c \in Coins, ScalpForget(c)
      PROVE  IInv'
  BY <1>7 DEF ScalpForget, IInv, TypeLocal
<1>8. ASSUME NEW c \in Coins, Close(c)
      PROVE  IInv'
  BY <1>8, CloseStep
<1>9. ASSUME NEW i \in Instances, Crash(i)
      PROVE  IInv'
  BY <1>9, CrashStep
<1>10. CASE UNCHANGED vars
  BY <1>10 DEF vars, exchange, ledger, plan, snapshot, IInv, TypeLocal, LockInv,
               Active, CurInv, InHand, DistinctInv, Pending, SnapInv, OnePositionPerCoin
<1> QED
  BY <1>1, <1>2, <1>3, <1>4, <1>5, <1>6, <1>7, <1>8, <1>9, <1>10 DEF Next

(* hl_exchange's "never opens a second position on a coin we already hold" *)
(* for one instance, with any fault of the KV, the network or the platform.*)
THEOREM NeverASecondPosition ==
    ASSUME OneInstanceOnly
    PROVE  Spec => []OnePositionPerCoin
<1>1. IInv => OnePositionPerCoin
  BY DEF IInv
<1> QED
  BY InitIInv, StepIInv, <1>1, PTL DEF Spec
-----------------------------------------------------------------------------
(* Every variable keeps its type, for any instances, books and faults.     *)

Working(r) == pc[r] \in {"lookup", "claim", "send", "release"}

TypeInv == TypeOK /\ \A r \in Requests : Working(r) => cur[r] \in Signals

\* The types hold at first.
LEMMA InitTypeInv == Init => TypeInv
BY HLExecutionAssumption DEF Init, NoAccount, TypeInv, TypeOK, Steps, Working

\* An order that is executed stays within the bounds of the model.
LEMMA ExecuteType ==
    ASSUME TypeInv, NEW s \in Signals, Execute(s)
    PROVE  /\ held' \in [Coins -> 0..MaxHeld] /\ fills' \in [Signals -> 0..MaxFills]
           /\ known' \subseteq Signals
<1>1. CoinOf[s] \in Coins /\ MaxHeld \in Nat /\ MaxFills \in Nat
  BY HLExecutionAssumption
<1>2. held[CoinOf[s]] + 1 \in 0..MaxHeld /\ fills[s] + 1 \in 0..MaxFills
  BY <1>1 DEF Execute, TypeInv, TypeOK
<1> QED
  BY <1>1, <1>2 DEF Execute, TypeInv, TypeOK

\* Every step keeps the types.
LEMMA TypeStep == TypeInv /\ [Next]_vars => TypeInv'
<1> SUFFICES ASSUME TypeInv, [Next]_vars
             PROVE  TypeInv'
  OBVIOUS
<1> USE HLExecutionAssumption
        DEF Goto, NextSignal, Steps, Working, exchange, ledger, plan, snapshot
<1>1. ASSUME NEW r \in Requests, Select(r)
      PROVE  TypeInv'
  <2>1. CASE SelectAuto(r)
    BY <2>1 DEF SelectAuto, TypeInv, TypeOK
  <2>2. CASE SelectManual(r)
    BY <2>2 DEF SelectManual, TypeInv, TypeOK
  <2>3. CASE SelectScalp(r)
    BY <2>3 DEF SelectScalp, TypeInv, TypeOK
  <2> QED
    BY <1>1, <2>1, <2>2, <2>3 DEF Select
<1>2. ASSUME NEW r \in Requests, ReadAccount(r) \/ DropScalpCoins(r)
      PROVE  TypeInv'
  <2>1. CASE ReadAccount(r)
    <3>1. held \in [Coins -> Nat]
      BY DEF TypeInv, TypeOK
    <3> QED
      BY <2>1, <3>1 DEF ReadAccount, TypeInv, TypeOK
  <2>2. CASE DropScalpCoins(r)
    BY <2>2 DEF DropScalpCoins, TypeInv, TypeOK
  <2> QED
    BY <1>2, <2>1, <2>2
<1>3. ASSUME NEW r \in Requests, Refuse(r) \/ Consider(r)
      PROVE  TypeInv'
  <2>1. CASE Refuse(r)
    BY <2>1 DEF Refuse, TypeInv, TypeOK
  <2>2. CASE Consider(r)
    BY <2>2 DEF Consider, TypeInv, TypeOK
  <2> QED
    BY <1>3, <2>1, <2>2
<1>4. ASSUME NEW r \in Requests, LookupStops(r) \/ LookupPasses(r)
      PROVE  TypeInv'
  BY <1>4 DEF LookupStops, LookupPasses, TypeInv, TypeOK
<1>5. ASSUME NEW r \in Requests, Claim(r)
      PROVE  TypeInv'
  <2>1. CASE ClaimShared(r)
    BY <2>1 DEF ClaimShared, TypeInv, TypeOK
  <2>2. CASE ClaimFile(r)
    <3>1. cur[r] \in Signals
      BY <2>2 DEF ClaimFile, TypeInv
    <3>2. redis' \subseteq Signals /\ file' \in [Instances -> SUBSET Signals]
      BY <2>2, <3>1 DEF ClaimFile, TypeInv, TypeOK
    <3> QED
      BY <2>2, <3>1, <3>2 DEF ClaimFile, TypeInv, TypeOK
  <2>3. CASE ClaimLost(r)
    BY <2>3 DEF ClaimLost, TypeInv, TypeOK
  <2> QED
    BY <1>5, <2>1, <2>2, <2>3 DEF Claim
<1>6. ASSUME NEW r \in Requests, Send(r)
      PROVE  TypeInv'
  <2>1. cur[r] \in Signals
    BY <1>6 DEF Send, SendAccepted, SendRejected, SendRaises, TypeInv
  <2>2. CASE SendAccepted(r)
    <3>1. CoinOf[cur[r]] \in Coins
      BY <2>1
    <3>2. [snap[r] EXCEPT ![CoinOf[cur[r]]] = @ + 1] \in [Coins -> Nat]
      BY <3>1 DEF TypeInv, TypeOK
    <3>3. snap' \in [Requests -> [Coins -> Nat]] /\ placed' \in [Requests -> Nat]
      BY <2>2, <3>2 DEF SendAccepted, TypeInv, TypeOK
    <3> QED
      BY <2>1, <2>2, <3>3, ExecuteType DEF SendAccepted, TypeInv, TypeOK
  <2>3. CASE SendRejected(r)
    BY <2>1, <2>3 DEF SendRejected, TypeInv, TypeOK
  <2>4. CASE SendRaises(r)
    BY <2>1, <2>4, ExecuteType DEF SendRaises, TypeInv, TypeOK
  <2> QED
    BY <1>6, <2>2, <2>3, <2>4 DEF Send
<1>7. ASSUME NEW r \in Requests, Conclude(r)
      PROVE  TypeInv'
  <2>1. CASE ReleaseShared(r)
    BY <2>1 DEF ReleaseShared, TypeInv, TypeOK
  <2>2. CASE ReleaseFile(r)
    BY <2>2 DEF ReleaseFile, TypeInv, TypeOK
  <2>3. CASE Finish(r)
    BY <2>3 DEF Finish, Return, NoAccount, TypeInv, TypeOK
  <2> QED
    BY <1>7, <2>1, <2>2, <2>3 DEF Conclude
<1>8. ASSUME NEW r \in Requests, Scalp(r)
      PROVE  TypeInv'
  <2>1. CASE ScalpOpen(r)
    BY <2>1 DEF ScalpOpen, TypeInv, TypeOK
  <2>2. CASE ScalpRecord(r)
    BY <2>2 DEF ScalpRecord, Return, NoAccount, TypeInv, TypeOK
  <2> QED
    BY <1>8, <2>1, <2>2 DEF Scalp
<1>9. ASSUME NEW c \in Coins, ScalpForget(c) \/ Close(c)
      PROVE  TypeInv'
  BY <1>9 DEF ScalpForget, Close, TypeInv, TypeOK
<1>10. ASSUME NEW i \in Instances, Crash(i)
       PROVE  TypeInv'
  BY <1>10 DEF Crash, Return, NoAccount, TypeInv, TypeOK
<1>11. CASE UNCHANGED vars
  BY <1>11 DEF vars, TypeInv, TypeOK
<1> QED
  BY <1>1, <1>2, <1>3, <1>4, <1>5, <1>6, <1>7, <1>8, <1>9, <1>10, <1>11
     DEF Next, Guard

(* Type correctness of opening positions.                                  *)
THEOREM TypeCorrect == Spec => []TypeOK
<1>1. TypeInv => TypeOK
  BY DEF TypeInv
<1> QED
  BY InitTypeInv, TypeStep, <1>1, PTL DEF Spec

-----------------------------------------------------------------------------
(* With the KV up and replies reliable, the claim alone makes a placement  *)
(* happen at most once, also for an exchange that accepts a client order   *)
(* id twice: whoever is about to send or to release holds the only claim.  *)

Owns(r, s) == pc[r] \in {"send", "release"} /\ cur[r] = s

ClaimInv ==
    \A s \in Signals :
        /\ fills[s] <= 1
        /\ fills[s] = 1 => s \in redis
        /\ \A r \in Requests : Owns(r, s) =>
              /\ s \in redis /\ fills[s] = 0
              /\ \A q \in Requests : Owns(q, s) => q = r

\* Nobody owns a signal at first.
LEMMA InitClaimInv == Init => ClaimInv
BY DEF Init, ClaimInv, Owns

(* Steps after which nobody owns more than before.                         *)
LEMMA OwnsNoMore ==
    ASSUME ClaimInv, UNCHANGED <<fills, redis>>,
           \A r \in Requests : \A s \in Signals : Owns(r, s)' => Owns(r, s)
    PROVE  ClaimInv'
BY DEF ClaimInv

\* Every step keeps one owner per signal, as long as nothing but a crash
\* happens.
LEMMA ClaimInvStep ==
    ASSUME Faults \subseteq {"crash"}
    PROVE  TypeInv /\ ClaimInv /\ [Next]_vars => ClaimInv'
<1> SUFFICES ASSUME TypeInv, ClaimInv, [Next]_vars
             PROVE  ClaimInv'
  OBVIOUS
<1> USE DEF Goto, NextSignal, exchange, ledger, plan, snapshot
<1>1. ASSUME NEW r \in Requests, Select(r) \/ Guard(r) \/ ClaimLost(r)
      PROVE  ClaimInv'
  <2>1. UNCHANGED <<fills, redis>>
    BY <1>1 DEF Select, SelectAuto, SelectManual, SelectScalp, Guard, ReadAccount,
                DropScalpCoins, Refuse, Consider, LookupStops, LookupPasses, ClaimLost, May
  <2>2. ASSUME NEW q \in Requests, NEW s \in Signals, Owns(q, s)'
        PROVE  Owns(q, s)
    BY <1>1, <2>2 DEF Owns, Select, SelectAuto, SelectManual, SelectScalp, Guard, ReadAccount,
                DropScalpCoins, Refuse, Consider, LookupStops, LookupPasses, ClaimLost,
                TypeInv, TypeOK
  <2> QED
    BY <2>1, <2>2, OwnsNoMore
<1>2. ASSUME NEW r \in Requests, ClaimShared(r)
      PROVE  ClaimInv'
  <2>1. cur[r] \in Signals /\ cur[r] \notin redis
    BY <1>2 DEF ClaimShared, Working, TypeInv
  <2>2. \A q \in Requests : \A s \in Signals :
           Owns(q, s)' => Owns(q, s) \/ (q = r /\ s = cur[r])
    BY <1>2 DEF ClaimShared, Owns, TypeInv, TypeOK
  <2>3. \A q \in Requests : ~Owns(q, cur[r])
    BY <2>1 DEF ClaimInv
  <2>5. fills[cur[r]] = 0
    <3>1. fills[cur[r]] # 1 /\ fills[cur[r]] <= 1
      BY <2>1 DEF ClaimInv
    <3>2. fills[cur[r]] \in Nat
      BY <2>1, HLExecutionAssumption DEF TypeInv, TypeOK
    <3> QED
      BY <3>1, <3>2
  <2>4. fills' = fills /\ redis' = redis \union {cur[r]}
    BY <1>2 DEF ClaimShared
  <2> QED
    BY <2>1, <2>2, <2>3, <2>4, <2>5 DEF ClaimInv
<1>3. ASSUME NEW r \in Requests, ClaimFile(r) \/ ReleaseFile(r)
      PROVE  ClaimInv'
  BY <1>3 DEF ClaimFile, ReleaseFile, May
<1>4. ASSUME NEW r \in Requests, SendAccepted(r)
      PROVE  ClaimInv'
  <2>1. PICK t \in Signals : t = cur[r] /\ Owns(r, t)
    BY <1>4 DEF SendAccepted, Working, TypeInv, Owns
  <2>2. fills[t] = 0 /\ t \in redis
    BY <2>1 DEF ClaimInv
  <2>3. fills' = [fills EXCEPT ![t] = 1] /\ redis' = redis
    BY <1>4, <2>1, <2>2 DEF SendAccepted, Execute
  <2>4. \A q \in Requests : \A s \in Signals :
           Owns(q, s)' => Owns(q, s) /\ q # r
    BY <1>4 DEF SendAccepted, Owns, TypeInv, TypeOK
  <2>5. \A q \in Requests : ~Owns(q, t)'
    BY <2>1, <2>4 DEF ClaimInv
  <2> QED
    BY <2>1, <2>2, <2>3, <2>4, <2>5 DEF ClaimInv, TypeInv, TypeOK
<1>5. ASSUME NEW r \in Requests, SendRejected(r) \/ SendRaises(r)
      PROVE  ClaimInv'
  <2>1. UNCHANGED <<fills, redis>>
    BY <1>5 DEF SendRejected, SendRaises, May
  <2>2. \A q \in Requests : \A s \in Signals : Owns(q, s)' => Owns(q, s)
    BY <1>5 DEF SendRejected, SendRaises, Owns, TypeInv, TypeOK
  <2> QED
    BY <2>1, <2>2, OwnsNoMore
<1>6. ASSUME NEW r \in Requests, ReleaseShared(r)
      PROVE  ClaimInv'
  <2>1. PICK t \in Signals : t = cur[r] /\ Owns(r, t) /\ fills[t] = 0
    BY <1>6 DEF ReleaseShared, Working, TypeInv, Owns, ClaimInv
  <2>2. \A q \in Requests : \A s \in Signals :
           Owns(q, s)' => Owns(q, s) /\ q # r
    BY <1>6 DEF ReleaseShared, Owns, TypeInv, TypeOK
  <2>3. \A q \in Requests : ~Owns(q, t)'
    BY <2>1, <2>2 DEF ClaimInv
  <2>4. fills' = fills /\ redis' = redis \ {t}
    BY <1>6, <2>1 DEF ReleaseShared
  <2> QED
    BY <2>1, <2>2, <2>3, <2>4 DEF ClaimInv
<1>7. ASSUME NEW R \in SUBSET Requests, Return(R), UNCHANGED <<fills, redis>>
      PROVE  ClaimInv'
  <2>1. ASSUME NEW q \in Requests, NEW s \in Signals, Owns(q, s)'
        PROVE  Owns(q, s)
    BY <1>7, <2>1 DEF Return, Owns
  <2> QED
    BY <1>7, <2>1, OwnsNoMore
<1>8. ASSUME NEW r \in Requests, Finish(r) \/ Scalp(r)
      PROVE  ClaimInv'
  <2>1. CASE ScalpOpen(r)
    <3>1. \A q \in Requests : \A s \in Signals : Owns(q, s)' => Owns(q, s)
      BY <2>1 DEF ScalpOpen, Owns, TypeInv, TypeOK
    <3> QED
      BY <2>1, <3>1, OwnsNoMore DEF ScalpOpen
  <2>2. CASE Finish(r) \/ ScalpRecord(r)
    BY <2>2, <1>7 DEF Finish, ScalpRecord
  <2> QED
    BY <1>8, <2>1, <2>2 DEF Scalp
<1>9. ASSUME NEW c \in Coins, ScalpForget(c) \/ Close(c)
      PROVE  ClaimInv'
  BY <1>9, OwnsNoMore DEF ScalpForget, Close, Owns
<1>10. ASSUME NEW i \in Instances, Crash(i)
       PROVE  ClaimInv'
  BY <1>10, <1>7 DEF Crash
<1>11. CASE UNCHANGED vars
  BY <1>11, OwnsNoMore DEF vars, Owns
<1> QED
  BY <1>1, <1>2, <1>3, <1>4, <1>5, <1>6, <1>8, <1>9, <1>10, <1>11
     DEF Next, Claim, Send, Conclude

(* "Placement is exactly-once per cause" without the exchange's help.      *)
THEOREM OnceByClaim ==
    ASSUME Faults \subseteq {"crash"}
    PROVE  Spec => []OneFillPerCause
<1>1. ClaimInv => OneFillPerCause
  BY DEF ClaimInv, OneFillPerCause
<1> QED
  BY InitTypeInv, TypeStep, InitClaimInv, ClaimInvStep, <1>1, PTL DEF Spec

-----------------------------------------------------------------------------
(* Opening orders implements OncePerKey, with either of the two guards.    *)

\* what an exchange that refuses a known client order id has filled, it knows
ExchangeInv == \A s \in Signals : fills[s] # 0 => s \in known /\ fills[s] = 1

\* a pass that goes on to the claim, or has won it
Ordering(r) == pc[r] \in {"claim", "send"}

\* the exchange was asked about the order a pass is about to send
LookInv == \A r \in Requests : Ordering(r) => cur[r] \notin known

OnceInv ==
    /\ TypeInv
    /\ ExchangeDedups => ExchangeInv
    /\ OneInstanceOnly => IInv /\ ExchangeInv /\ LookInv
    /\ Faults \subseteq {"crash"} => ClaimInv

\* A step fills one order of the signal a request has claimed, or none.
LEMMA FillsOneByOne ==
    ASSUME TypeInv, [Next]_vars
    PROVE  \/ fills' = fills /\ known \subseteq known'
           \/ \E r \in Requests : pc[r] = "send" /\ cur[r] \in Signals /\ Execute(cur[r])
<1> DEFINE Goal == \/ fills' = fills /\ known \subseteq known'
                   \/ \E r \in Requests : pc[r] = "send" /\ cur[r] \in Signals /\ Execute(cur[r])
<1>1. ASSUME NEW r \in Requests, Select(r) \/ Guard(r) \/ Claim(r)
      PROVE  Goal
  BY <1>1 DEF Select, SelectAuto, SelectManual, SelectScalp, Guard, ReadAccount, DropScalpCoins,
              Refuse, Consider, LookupStops, LookupPasses, Claim, ClaimShared, ClaimFile,
              ClaimLost, exchange
<1>2. ASSUME NEW r \in Requests, Send(r)
      PROVE  Goal
  <2>1. pc[r] = "send" /\ cur[r] \in Signals
    BY <1>2 DEF Send, SendAccepted, SendRejected, SendRaises, Working, TypeInv
  <2> QED
    BY <1>2, <2>1 DEF Send, SendAccepted, SendRejected, SendRaises, exchange
<1>3. ASSUME NEW r \in Requests, Conclude(r) \/ Scalp(r)
      PROVE  Goal
  BY <1>3 DEF Conclude, ReleaseShared, ReleaseFile, Finish, Scalp, ScalpOpen, ScalpRecord, exchange
<1>4. ASSUME NEW c \in Coins, ScalpForget(c) \/ Close(c)
      PROVE  Goal
  BY <1>4 DEF ScalpForget, Close, exchange
<1>5. ASSUME NEW i \in Instances, Crash(i)
      PROVE  Goal
  BY <1>5 DEF Crash, exchange
<1>6. CASE UNCHANGED vars
  BY <1>6 DEF vars, exchange
<1> QED
  BY <1>1, <1>2, <1>3, <1>4, <1>5, <1>6 DEF Next

\* The exchange keeps knowing what it filled, if it refuses what it knows
\* or is asked first.
LEMMA ExchangeStep ==
    ASSUME ExchangeDedups \/ LookInv, TypeInv, ExchangeInv, [Next]_vars
    PROVE  ExchangeInv'
<1>1. CASE fills' = fills /\ known \subseteq known'
  BY <1>1 DEF ExchangeInv
<1>2. ASSUME NEW s \in Signals, Execute(s), ExchangeDedups \/ s \notin known
      PROVE  ExchangeInv'
  <2>1. s \notin known /\ fills[s] = 0
    BY <1>2 DEF Execute, ExchangeInv
  <2>2. fills' = [fills EXCEPT ![s] = 1] /\ known' = known \union {s}
    BY <1>2, <2>1 DEF Execute
  <2> QED
    BY <2>2 DEF ExchangeInv, TypeInv, TypeOK
<1>3. CASE \E r \in Requests : pc[r] = "send" /\ cur[r] \in Signals /\ Execute(cur[r])
  BY <1>2, <1>3 DEF LookInv, Ordering
<1> QED
  BY <1>1, <1>3, FillsOneByOne

\* Within one instance nobody sends between a lookup and its order.
LEMMA LookStep ==
    ASSUME OneInstanceOnly, IInv, LookInv, [Next]_vars
    PROVE  LookInv'
<1> USE DEF Goto, NextSignal, exchange, ledger, plan, snapshot
<1> SUFFICES ASSUME NEW q \in Requests, Ordering(q)'
             PROVE  cur'[q] \notin known'
  BY DEF LookInv
<1>1. CASE known' = known /\ cur'[q] = cur[q] /\ Ordering(q)
  BY <1>1 DEF LookInv
<1>2. ASSUME NEW r \in Requests, Select(r) \/ Refuse(r) \/ Consider(r) \/ LookupStops(r) \/ Claim(r)
      PROVE  known' = known /\ cur'[q] = cur[q] /\ Ordering(q)
  BY <1>2 DEF Select, SelectAuto, SelectManual, SelectScalp, Refuse, Consider, LookupStops, Claim,
              ClaimShared, ClaimFile, ClaimLost, Ordering, IInv, TypeLocal
<1>3. ASSUME NEW r \in Requests, ReadAccount(r) \/ DropScalpCoins(r)
      PROVE  known' = known /\ cur'[q] = cur[q] /\ Ordering(q)
  BY <1>3 DEF ReadAccount, DropScalpCoins, Ordering, IInv, TypeLocal
<1>4. ASSUME NEW r \in Requests, LookupPasses(r)
      PROVE  known' = known /\ cur'[q] = cur[q] /\ (Ordering(q) \/ cur[q] \notin known)
  BY <1>4 DEF LookupPasses, Ordering, IInv, TypeLocal
<1>5. ASSUME NEW r \in Requests, Send(r)
      PROVE  FALSE
  <2>1. pc[r] = "send" /\ Active(r)
    BY <1>5 DEF Send, SendAccepted, SendRejected, SendRaises, Active
  <2>2. \A u \in Requests : Active(u) => u = r
    BY <2>1, OneActive
  <2>3. Goto(r, "next") \/ Goto(r, "release")
    BY <1>5 DEF Send, SendAccepted, SendRejected, SendRaises
  <2>4. ~Ordering(r)' /\ \A u \in Requests \ {r} : Ordering(u)' => Active(u)
    BY <2>3 DEF Ordering, Active, IInv, TypeLocal
  <2> QED
    BY <2>2, <2>4
<1>6. ASSUME NEW r \in Requests, ReleaseShared(r) \/ ReleaseFile(r)
      PROVE  known' = known /\ cur'[q] = cur[q] /\ Ordering(q)
  BY <1>6 DEF ReleaseShared, ReleaseFile, Ordering, IInv, TypeLocal
<1>7. ASSUME NEW R \in SUBSET Requests, Return(R), known' = known
      PROVE  known' = known /\ cur'[q] = cur[q] /\ Ordering(q)
  BY <1>7 DEF Return, Ordering
<1>8. ASSUME NEW r \in Requests, Finish(r) \/ Scalp(r)
      PROVE  known' = known /\ cur'[q] = cur[q] /\ Ordering(q)
  <2>1. Finish(r)
    BY <1>8 DEF Scalp, ScalpOpen, ScalpRecord, OneInstanceOnly, IInv, TypeLocal
  <2> QED
    BY <1>7, <2>1 DEF Finish
<1>9. ASSUME NEW c \in Coins, ScalpForget(c) \/ Close(c)
      PROVE  known' = known /\ cur'[q] = cur[q] /\ Ordering(q)
  BY <1>9 DEF ScalpForget, Close, Ordering
<1>10. ASSUME NEW i \in Instances, Crash(i)
       PROVE  known' = known /\ cur'[q] = cur[q] /\ Ordering(q)
  BY <1>7, <1>10 DEF Crash
<1>11. CASE UNCHANGED vars
  BY <1>1, <1>11 DEF vars, Ordering
<1> QED
  BY <1>1, <1>2, <1>3, <1>4, <1>5, <1>6, <1>8, <1>9, <1>10, <1>11 DEF Next, Guard, Conclude

\* Every step keeps each of the guards.
LEMMA OnceStep == OnceInv /\ [Next]_vars => OnceInv'
BY TypeStep, StepIInv, ClaimInvStep, ExchangeStep, LookStep DEF OnceInv

\* The guards hold at first.
LEMMA OnceInit == Init => OnceInv
BY InitTypeInv, InitIInv, InitClaimInv DEF OnceInv, ExchangeInv, LookInv, Ordering, Init

(* Each of three guards makes placement exactly-once per cause: an         *)
(* exchange that refuses a client order id twice, whatever else fails      *)
(* (hl_execution's cloid); the claim, while the KV answers; the lookup     *)
(* under the lock, in one instance, with the KV and the replies failing.   *)
THEOREM OpeningImplementsOncePerKey ==
    ASSUME ExchangeDedups \/ OneInstanceOnly \/ Faults \subseteq {"crash"}
    PROVE  Spec => ImplementsOncePerKey
<1>1. Init => Once!Init
  BY DEF Init, Once!Init
<1>2. OnceInv /\ [Next]_vars => [Once!Next]_fills
  <2> SUFFICES ASSUME OnceInv, [Next]_vars, fills' # fills
               PROVE  Once!Next
    OBVIOUS
  <2>1. PICK r \in Requests : pc[r] = "send" /\ cur[r] \in Signals /\ Execute(cur[r])
    BY FillsOneByOne DEF OnceInv
  <2>2. fills[cur[r]] = 0
    <3>1. CASE ExchangeDedups
      BY <2>1, <3>1 DEF OnceInv, ExchangeInv, Execute
    <3>2. CASE Faults \subseteq {"crash"}
      BY <2>1, <3>2 DEF OnceInv, ClaimInv, Owns
    <3>3. CASE OneInstanceOnly
      BY <2>1, <3>3 DEF OnceInv, ExchangeInv, LookInv, Ordering
    <3> QED
      BY <3>1, <3>2, <3>3
  <2>3. fills' = [fills EXCEPT ![cur[r]] = 1]
    BY <2>1, <2>2 DEF Execute
  <2> QED
    BY <2>1, <2>2, <2>3 DEF Once!Next, Once!Act
<1> QED
  BY <1>1, <1>2, OnceInit, OnceStep, PTL DEF Spec, ImplementsOncePerKey, Once!Spec

(* The count of fills that these guards keep at one (hl_execution.cloid,   *)
(* open_position's order-status lookup).                                   *)
THEOREM OnceByExchangeOrLookup ==
    ASSUME ExchangeDedups \/ OneInstanceOnly
    PROVE  Spec => []OneFillPerCause
<1>1. ExchangeInv => OneFillPerCause
  <2> SUFFICES ASSUME ExchangeInv, NEW s \in Signals PROVE fills[s] <= 1
    BY DEF OneFillPerCause
  <2> QED
    BY DEF ExchangeInv
<1>2. OnceInv => OneFillPerCause
  BY <1>1 DEF OnceInv
<1> QED
  BY <1>2, OnceInit, OnceStep, PTL DEF Spec

-----------------------------------------------------------------------------
(* Several instances and the scalp book beside them.                       *)

\* request r may still open coin c: its snapshot shows it free
MayOpen(r, c) ==
    /\ Active(r) /\ snap[r][c] = 0
    /\ \/ r \in Scalps /\ pc[r] = "next"
       \/ r \notin Scalps /\ \E s \in Pending(r) : CoinOf[s] = c

\* the instances in which a request may still open coin c
Openers(c) == {i \in Instances : \E r \in Requests : InstanceOf[r] = i /\ MayOpen(r, c)}

\* the passes that chose a signal on coin c and have not dropped the scalp
\* book's coins from their snapshot yet
Waiting(c) ==
    {r \in Autos : /\ pc[r] = "wait" \/ (pc[r] = "filter" /\ snap[r][c] > 0)
                   /\ \E s \in todo[r] : CoinOf[s] = c}

CoinBound(c) ==
    /\ c \notin scalp => held[c] + Cardinality(Openers(c)) <= Cardinality(Instances)
    /\ held[c] + Cardinality(Openers(c)) + Cardinality(Waiting(c)) <=
          Cardinality(Instances) + Cardinality(Autos)

\* there are finitely many instances and passes
Finitely == IsFiniteSet(Instances) /\ IsFiniteSet(Autos)

PassInv ==
    /\ LockInv /\ CurInv /\ DistinctInv
    /\ \A r \in Scalps : pc[r] \in {"idle", "wait", "next", "record"}
    /\ \A r \in Requests : pc[r] = "filter" => r \in Autos
    /\ \A r \in Requests : pc[r] = "record" => r \in Scalps

StackInv ==
    /\ TypeInv /\ PassInv
    /\ Scalps = {} => scalp = {}
    /\ \A c \in Coins : CoinBound(c)

\* The openers and the waiting passes can be counted.
LEMMA Countable ==
    ASSUME Finitely, NEW c \in Coins
    PROVE  /\ Cardinality(Instances) \in Nat /\ Cardinality(Autos) \in Nat
           /\ IsFiniteSet(Openers(c)) /\ IsFiniteSet(Waiting(c))
           /\ Cardinality(Openers(c)) \in Nat /\ Cardinality(Waiting(c)) \in Nat
           /\ Cardinality(Openers(c)) <= Cardinality(Instances)
           /\ Cardinality(Waiting(c)) <= Cardinality(Autos)
           /\ Cardinality(Openers(c)') \in Nat /\ Cardinality(Waiting(c)') \in Nat
           /\ IsFiniteSet(Openers(c)') /\ IsFiniteSet(Waiting(c)')
           /\ Cardinality(Openers(c)') <= Cardinality(Instances)
           /\ Cardinality(Waiting(c)') <= Cardinality(Autos)
<1>1. Openers(c) \subseteq Instances /\ Waiting(c) \subseteq Autos
      /\ Openers(c)' \subseteq Instances /\ Waiting(c)' \subseteq Autos
  BY DEF Openers, Waiting
<1>2. IsFiniteSet(Instances) /\ IsFiniteSet(Autos)
  BY DEF Finitely
<1>3. IsFiniteSet(Openers(c)) /\ Cardinality(Openers(c)) <= Cardinality(Instances)
  BY <1>1, <1>2, FS_Subset
<1>4. IsFiniteSet(Waiting(c)) /\ Cardinality(Waiting(c)) <= Cardinality(Autos)
  BY <1>1, <1>2, FS_Subset
<1>5. IsFiniteSet(Openers(c)') /\ Cardinality(Openers(c)') <= Cardinality(Instances)
  BY <1>1, <1>2, FS_Subset
<1>6. IsFiniteSet(Waiting(c)') /\ Cardinality(Waiting(c)') <= Cardinality(Autos)
  BY <1>1, <1>2, FS_Subset
<1> QED
  BY <1>2, <1>3, <1>4, <1>5, <1>6, FS_CardinalityType

\* Fewer openers and fewer passes that wait.
LEMMA FewerOpen ==
    ASSUME Finitely, NEW c \in Coins, CoinBound(c), held[c] \in Nat, held'[c] = held[c],
           c \in scalp => c \in scalp',
           Openers(c)' \subseteq Openers(c),
           c \in scalp' => Waiting(c)' \subseteq Waiting(c)
    PROVE  CoinBound(c)'
<1>1. Cardinality(Openers(c)') <= Cardinality(Openers(c))
  BY Countable, FS_Subset
<1>2. c \in scalp' => Cardinality(Waiting(c)') <= Cardinality(Waiting(c))
  BY Countable, FS_Subset
<1> QED
  BY <1>1, <1>2, Countable DEF CoinBound

\* The coin is closed.
LEMMA NoneHeld ==
    ASSUME Finitely, NEW c \in Coins, held'[c] = 0
    PROVE  CoinBound(c)'
BY Countable DEF CoinBound

\* An opener has opened the coin.
LEMMA OneOpened ==
    ASSUME Finitely, NEW c \in Coins, CoinBound(c), held[c] \in Nat, held'[c] = held[c] + 1,
           scalp' = scalp, NEW i \in Openers(c), Openers(c)' \subseteq Openers(c) \ {i},
           Waiting(c)' \subseteq Waiting(c)
    PROVE  CoinBound(c)'
<1>1. Cardinality(Openers(c) \ {i}) = Cardinality(Openers(c)) - 1 /\ IsFiniteSet(Openers(c) \ {i})
  BY Countable, FS_RemoveElement
<1>2. Cardinality(Openers(c)') <= Cardinality(Openers(c)) - 1
  BY <1>1, FS_Subset
<1>3. Cardinality(Waiting(c)') <= Cardinality(Waiting(c))
  BY Countable, FS_Subset
<1> QED
  BY <1>2, <1>3, Countable DEF CoinBound

\* A pass that waited becomes an opener of a coin of the scalp book.
LEMMA OneJoins ==
    ASSUME Finitely, NEW c \in Coins, CoinBound(c), held[c] \in Nat, held'[c] = held[c],
           c \in scalp', NEW i \in Instances, Openers(c)' \subseteq Openers(c) \union {i},
           NEW r \in Waiting(c), Waiting(c)' \subseteq Waiting(c) \ {r}
    PROVE  CoinBound(c)'
<1>1. Cardinality(Waiting(c) \ {r}) = Cardinality(Waiting(c)) - 1 /\ IsFiniteSet(Waiting(c) \ {r})
  BY Countable, FS_RemoveElement
<1>2. Cardinality(Waiting(c)') <= Cardinality(Waiting(c)) - 1
  BY <1>1, FS_Subset
<1>3. /\ IsFiniteSet(Openers(c) \union {i})
      /\ Cardinality(Openers(c) \union {i}) <= Cardinality(Openers(c)) + 1
  <2>1. /\ IsFiniteSet(Openers(c) \union {i})
        /\ Cardinality(Openers(c) \union {i}) =
              IF i \in Openers(c) THEN Cardinality(Openers(c)) ELSE Cardinality(Openers(c)) + 1
    BY Countable, FS_AddElement
  <2> QED
    BY <2>1, Countable
<1>4. Cardinality(Openers(c)') <= Cardinality(Openers(c)) + 1
  <2>1. Cardinality(Openers(c)') <= Cardinality(Openers(c) \union {i})
        /\ Cardinality(Openers(c) \union {i}) \in Nat
    BY <1>3, FS_Subset, FS_CardinalityType
  <2> QED
    BY <1>3, <2>1, Countable
<1> QED
  BY <1>2, <1>4, Countable DEF CoinBound

\* One request moves on: what it has chosen stays on distinct coins and free.
LEMMA PassMoves ==
    ASSUME TypeInv, PassInv, NEW r \in Requests, NEW step \in Steps, Goto(r, step),
           \A q \in Requests \ {r} : todo'[q] = todo[q] /\ cur'[q] = cur[q] /\ snap'[q] = snap[q],
           \A q \in Requests \ {r} : Active(q) => lock'[InstanceOf[q]] = q,
           step \notin {"idle", "wait"} => lock'[InstanceOf[r]] = r,
           \A s, t \in Pending(r)' : CoinOf[s] = CoinOf[t] => s = t,
           step \in {"lookup", "claim", "send"} =>
              cur'[r] \in Signals \ todo'[r] /\ snap'[r][CoinOf[cur'[r]]] = 0,
           r \in Scalps => step \in {"wait", "next", "record"},
           step = "filter" => r \in Autos,
           step = "record" => r \in Scalps
    PROVE  PassInv'
<1>1. \A q \in Requests : pc'[q] = IF q = r THEN step ELSE pc[q]
  BY DEF Goto, TypeInv, TypeOK
<1>2. LockInv'
  BY <1>1 DEF PassInv, LockInv, Active
<1>3. CurInv'
  <2> SUFFICES ASSUME NEW q \in Requests, InHand(q)'
               PROVE  cur'[q] \in Signals \ todo'[q] /\ snap'[q][CoinOf[cur'[q]]] = 0
    BY DEF CurInv
  <2>1. CASE q = r
    BY <1>1, <2>1 DEF InHand
  <2>2. CASE q # r
    BY <1>1, <2>2 DEF InHand, PassInv, CurInv
  <2> QED
    BY <2>1, <2>2
<1>4. DistinctInv'
  <2> SUFFICES ASSUME NEW q \in Requests, NEW s \in Pending(q)', NEW t \in Pending(q)', CoinOf[s] = CoinOf[t]
               PROVE  s = t
    BY DEF DistinctInv
  <2>1. CASE q = r
    BY <2>1
  <2>2. CASE q # r
    <3>1. Pending(q)' = Pending(q)
      BY <1>1, <2>2 DEF Pending, InHand
    <3> QED
      BY <3>1 DEF PassInv, DistinctInv
  <2> QED
    BY <2>1, <2>2
<1>5. (\A q \in Scalps : pc'[q] \in {"idle", "wait", "next", "record"})
      /\ (\A q \in Requests : pc'[q] = "filter" => q \in Autos)
      /\ (\A q \in Requests : pc'[q] = "record" => q \in Scalps)
  BY <1>1 DEF PassInv, Requests
<1> QED
  BY <1>2, <1>3, <1>4, <1>5 DEF PassInv

\* Requests that end have nothing pending.
LEMMA PassReturn ==
    ASSUME TypeInv, PassInv, NEW R \in SUBSET Requests, Return(R),
           \A q \in Requests \ R : Active(q) => lock'[InstanceOf[q]] = q
    PROVE  PassInv'
<1>1. \A q \in Requests : q \in R => pc'[q] = "idle" /\ todo'[q] = {}
  BY DEF Return
<1>2. \A q \in Requests : q \notin R =>
        pc'[q] = pc[q] /\ todo'[q] = todo[q] /\ cur'[q] = cur[q] /\ snap'[q] = snap[q]
  BY DEF Return
<1>3. LockInv' /\ CurInv'
  BY <1>1, <1>2 DEF PassInv, LockInv, CurInv, Active, InHand
<1>4. DistinctInv'
  BY <1>1, <1>2 DEF PassInv, DistinctInv, Pending, InHand
<1>5. (\A q \in Scalps : pc'[q] \in {"idle", "wait", "next", "record"})
      /\ (\A q \in Requests : pc'[q] = "filter" => q \in Autos)
      /\ (\A q \in Requests : pc'[q] = "record" => q \in Scalps)
  BY <1>1, <1>2 DEF PassInv, Requests
<1> QED
  BY <1>3, <1>4, <1>5 DEF PassInv

\* One request works at a time in an instance.
LEMMA OnePerInstance ==
    ASSUME PassInv, NEW q \in Requests, NEW r \in Requests, Active(q), Active(r),
           InstanceOf[q] = InstanceOf[r]
    PROVE  q = r
BY DEF PassInv, LockInv

\* Choosing signals.
LEMMA PassSelect ==
    ASSUME TypeInv, PassInv, NEW r \in Requests, Select(r)
    PROVE  PassInv'
<1>1. /\ pc[r] = "idle" /\ Goto(r, "wait") /\ UNCHANGED <<lock, cur, snap>>
      /\ \E S \in SUBSET Signals : /\ \A s, t \in S : CoinOf[s] = CoinOf[t] => s = t
                                  /\ todo' = [todo EXCEPT ![r] = S]
  <2>1. CASE SelectAuto(r)
    BY <2>1 DEF SelectAuto, snapshot
  <2>2. CASE SelectManual(r)
    <3>1. PICK s \in Signals : todo' = [todo EXCEPT ![r] = {s}]
      BY <2>2 DEF SelectManual
    <3>2. {s} \in SUBSET Signals /\ \A t, u \in {s} : CoinOf[t] = CoinOf[u] => t = u
      OBVIOUS
    <3> QED
      BY <2>2, <3>1, <3>2 DEF SelectManual, snapshot
  <2>3. CASE SelectScalp(r)
    <3>1. todo' = [todo EXCEPT ![r] = todo[r]] /\ todo[r] \in SUBSET Signals
      BY <2>3 DEF SelectScalp, plan, TypeInv, TypeOK
    <3>2. \A s, t \in todo[r] : CoinOf[s] = CoinOf[t] => s = t
      BY DEF PassInv, DistinctInv, Pending
    <3> QED
      BY <2>3, <3>1, <3>2 DEF SelectScalp, plan, snapshot
  <2> QED
    BY <2>1, <2>2, <2>3 DEF Select
<1>2. PICK S \in SUBSET Signals : /\ \A s, t \in S : CoinOf[s] = CoinOf[t] => s = t
                                 /\ todo' = [todo EXCEPT ![r] = S]
  BY <1>1
<1>3. pc'[r] = "wait"
  BY <1>1 DEF Goto, TypeInv, TypeOK
<1>4. Pending(r)' = S
  BY <1>2, <1>3 DEF Pending, InHand, TypeInv, TypeOK
<1>5. \A q \in Requests \ {r} : todo'[q] = todo[q] /\ cur'[q] = cur[q] /\ snap'[q] = snap[q]
  BY <1>1, <1>2 DEF TypeInv, TypeOK
<1>6. \A q \in Requests : Active(q) => lock'[InstanceOf[q]] = q
  BY <1>1 DEF PassInv, LockInv
<1> QED
  BY <1>1, <1>2, <1>4, <1>5, <1>6, PassMoves DEF Steps

\* Taking the lock, reading the account, leaving the book's coins out.
LEMMA PassRead ==
    ASSUME TypeInv, PassInv, NEW r \in Requests, ReadAccount(r) \/ DropScalpCoins(r)
    PROVE  PassInv'
<1>1. PICK step \in {"filter", "next"} : /\ Goto(r, step) /\ todo' = todo /\ cur' = cur
                                         /\ step = "filter" => r \in Autos
  BY DEF ReadAccount, DropScalpCoins, plan
<1>2. \A q \in Requests \ {r} : snap'[q] = snap[q]
  BY DEF ReadAccount, DropScalpCoins, TypeInv, TypeOK
<1>3. lock'[InstanceOf[r]] = r /\ \A q \in Requests \ {r} : Active(q) => lock'[InstanceOf[q]] = q
  <2>1. CASE ReadAccount(r)
    <3>1. InstanceOf[r] \in Instances /\ r # NoRequest
      BY HLExecutionAssumption
    <3>2. \A q \in Requests : Active(q) => InstanceOf[q] # InstanceOf[r]
      BY <2>1, HLExecutionAssumption DEF ReadAccount, PassInv, LockInv
    <3> QED
      BY <2>1, <3>1, <3>2 DEF ReadAccount, PassInv, LockInv, TypeInv, TypeOK
  <2>2. CASE DropScalpCoins(r)
    BY <2>2 DEF DropScalpCoins, PassInv, LockInv, Active
  <2> QED
    BY <2>1, <2>2
<1>4. pc[r] \in {"wait", "filter"} /\ pc'[r] = step
  BY <1>1 DEF ReadAccount, DropScalpCoins, Goto, TypeInv, TypeOK
<1>5. Pending(r)' = Pending(r)
  BY <1>1, <1>4 DEF Pending, InHand
<1>6. \A s, t \in Pending(r)' : CoinOf[s] = CoinOf[t] => s = t
  BY <1>5 DEF PassInv, DistinctInv
<1>7. r \in Scalps => step = "next"
  BY <1>1, HLExecutionAssumption
<1> QED
  BY <1>1, <1>2, <1>3, <1>6, <1>7, PassMoves DEF Steps

\* A signal is refused or taken in hand.
LEMMA PassConsider ==
    ASSUME TypeInv, PassInv, NEW r \in Requests, Refuse(r) \/ Consider(r)
    PROVE  PassInv'
<1>1. pc[r] = "next" /\ r \notin Scalps /\ Active(r) /\ UNCHANGED <<lock, snap>>
  BY DEF Refuse, Consider, Active, snapshot
<1>2. lock[InstanceOf[r]] = r /\ \A q \in Requests : Active(q) => lock[InstanceOf[q]] = q
  BY <1>1 DEF PassInv, LockInv
<1>3. PICK s \in todo[r] :
        /\ todo' = [todo EXCEPT ![r] = @ \ {s}]
        /\ \/ Goto(r, "next") /\ cur' = cur
           \/ Goto(r, "lookup") /\ cur' = [cur EXCEPT ![r] = s] /\ snap[r][CoinOf[s]] = 0
  BY <1>1 DEF Refuse, Consider, Goto, TypeInv, TypeOK
<1>4. /\ s \in Signals /\ todo'[r] = todo[r] \ {s}
      /\ \A q \in Requests \ {r} : todo'[q] = todo[q] /\ cur'[q] = cur[q] /\ snap'[q] = snap[q]
  BY <1>1, <1>3 DEF TypeInv, TypeOK
<1>5. CASE Goto(r, "next") /\ cur' = cur
  <2>1. pc'[r] = "next"
    BY <1>5 DEF Goto, TypeInv, TypeOK
  <2>2. Pending(r)' \subseteq Pending(r)
    BY <1>4, <2>1 DEF Pending, InHand
  <2>3. \A u, t \in Pending(r)' : CoinOf[u] = CoinOf[t] => u = t
    BY <2>2 DEF PassInv, DistinctInv
  <2> QED
    BY <1>1, <1>2, <1>4, <1>5, <2>3, PassMoves DEF Steps
<1>6. CASE Goto(r, "lookup") /\ cur' = [cur EXCEPT ![r] = s] /\ snap[r][CoinOf[s]] = 0
  <2>1. pc'[r] = "lookup" /\ cur'[r] = s
    BY <1>6 DEF Goto, TypeInv, TypeOK
  <2>2. Pending(r)' \subseteq Pending(r)
    BY <1>3, <1>4, <2>1 DEF Pending, InHand
  <2>3. \A u, t \in Pending(r)' : CoinOf[u] = CoinOf[t] => u = t
    BY <2>2 DEF PassInv, DistinctInv
  <2>4. cur'[r] \in Signals \ todo'[r] /\ snap'[r][CoinOf[cur'[r]]] = 0
    BY <1>1, <1>4, <1>6, <2>1
  <2> QED
    BY <1>1, <1>2, <1>4, <1>6, <2>3, <2>4, PassMoves DEF Steps
<1> QED
  BY <1>3, <1>5, <1>6

\* From the lookup to the release: the signal in hand is kept or dropped.
LEMMA PassWorks ==
    ASSUME TypeInv, PassInv, NEW r \in Requests,
           \/ LookupStops(r) \/ LookupPasses(r) \/ Claim(r) \/ Send(r)
           \/ ReleaseShared(r) \/ ReleaseFile(r)
    PROVE  PassInv'
<1>1. /\ Working(r) /\ lock' = lock /\ todo' = todo
      /\ \/ pc[r] \in {"lookup", "claim"} /\ Goto(r, "claim") /\ cur' = cur /\ snap' = snap
         \/ pc[r] = "claim" /\ Goto(r, "send") /\ cur' = cur /\ snap' = snap
         \/ Goto(r, "release") /\ cur' = cur /\ snap' = snap
         \/ /\ Goto(r, "next") /\ cur' = [cur EXCEPT ![r] = NoSignal]
            /\ snap' = snap \/ snap' = [snap EXCEPT ![r][CoinOf[cur[r]]] = @ + 1]
  BY DEF LookupStops, LookupPasses, Claim, ClaimShared, ClaimFile, ClaimLost, Send, SendAccepted,
         SendRejected, SendRaises, ReleaseShared, ReleaseFile, NextSignal, Working, plan, snapshot
<1>2. PICK step \in {"claim", "send", "release", "next"} :
        /\ Goto(r, step)
        /\ step \in {"claim", "send"} => pc[r] \in {"lookup", "claim"} /\ cur' = cur /\ snap' = snap
        /\ cur' = cur \/ cur' = [cur EXCEPT ![r] = NoSignal]
        /\ snap' = snap \/ snap' = [snap EXCEPT ![r][CoinOf[cur[r]]] = @ + 1]
  BY <1>1
<1>3. Active(r) /\ r \notin Scalps /\ \A q \in Requests : Active(q) => lock'[InstanceOf[q]] = q
  BY <1>1 DEF Active, Working, PassInv, LockInv
<1>4. \A q \in Requests \ {r} : todo'[q] = todo[q] /\ cur'[q] = cur[q] /\ snap'[q] = snap[q]
  BY <1>1, <1>2 DEF TypeInv, TypeOK
<1>5. pc'[r] = step
  BY <1>2 DEF Goto, TypeInv, TypeOK
<1>6. Pending(r)' \subseteq Pending(r)
  BY <1>1, <1>2, <1>5 DEF Pending, InHand
<1>7. \A u, t \in Pending(r)' : CoinOf[u] = CoinOf[t] => u = t
  BY <1>6 DEF PassInv, DistinctInv
<1>8. step \in {"claim", "send"} => cur'[r] \in Signals \ todo'[r] /\ snap'[r][CoinOf[cur'[r]]] = 0
  BY <1>1, <1>2 DEF PassInv, CurInv, InHand
<1>9. step \notin {"lookup", "filter", "record"} /\ step \in Steps
  BY <1>2 DEF Steps
<1> QED
  BY <1>2, <1>3, <1>4, <1>7, <1>8, <1>9, PassMoves

\* The scalp pass, and requests that end.
LEMMA PassEnds ==
    ASSUME TypeInv, PassInv,
           \/ \E r \in Requests : Finish(r) \/ Scalp(r)
           \/ \E i \in Instances : Crash(i)
    PROVE  PassInv'
<1>1. ASSUME NEW r \in Requests, Finish(r) \/ ScalpRecord(r)
      PROVE  PassInv'
  <2>1. Active(r) /\ Return({r}) /\ lock' = [lock EXCEPT ![InstanceOf[r]] = NoRequest]
    BY <1>1 DEF Finish, ScalpRecord, Active
  <2>2. \A q \in Requests \ {r} : Active(q) => lock'[InstanceOf[q]] = q
    <3>1. \A q \in Requests \ {r} : Active(q) => InstanceOf[q] # InstanceOf[r]
      BY <2>1, OnePerInstance
    <3> QED
      BY <2>1, <3>1 DEF PassInv, LockInv, TypeInv, TypeOK
  <2> QED
    BY <2>1, <2>2, PassReturn
<1>2. ASSUME NEW r \in Requests, ScalpOpen(r)
      PROVE  PassInv'
  <2>1. /\ r \in Scalps /\ Active(r) /\ Goto(r, "record") /\ UNCHANGED <<lock, todo, cur>>
        /\ \A q \in Requests \ {r} : snap'[q] = snap[q]
    BY <1>2 DEF ScalpOpen, Active, plan, TypeInv, TypeOK
  <2>2. pc[r] = "next" /\ pc'[r] = "record"
    BY <1>2, <2>1 DEF ScalpOpen, Goto, TypeInv, TypeOK
  <2>3. Pending(r)' = Pending(r)
    BY <2>1, <2>2 DEF Pending, InHand
  <2>4. \A u, t \in Pending(r)' : CoinOf[u] = CoinOf[t] => u = t
    BY <2>3 DEF PassInv, DistinctInv
  <2>5. \A q \in Requests : Active(q) => lock'[InstanceOf[q]] = q
    BY <2>1 DEF PassInv, LockInv
  <2> QED
    BY <2>1, <2>4, <2>5, PassMoves DEF Steps
<1>3. ASSUME NEW i \in Instances, Crash(i)
      PROVE  PassInv'
  <2> DEFINE R == {r \in Requests : InstanceOf[r] = i}
  <2>1. Return(R) /\ lock' = [lock EXCEPT ![i] = NoRequest]
    BY <1>3 DEF Crash
  <2>2. \A q \in Requests \ R : Active(q) => lock'[InstanceOf[q]] = q
    BY <2>1, HLExecutionAssumption DEF PassInv, LockInv, TypeInv, TypeOK
  <2> HIDE DEF R
  <2>3. R \in SUBSET Requests
    BY DEF R
  <2> QED
    BY <2>1, <2>2, <2>3, PassReturn
<1> QED
  BY <1>1, <1>2, <1>3 DEF Scalp

\* Every step keeps the passes in order.
LEMMA PassStep == TypeInv /\ PassInv /\ [Next]_vars => PassInv'
<1> SUFFICES ASSUME TypeInv, PassInv, [Next]_vars
             PROVE  PassInv'
  OBVIOUS
<1>1. ASSUME NEW r \in Requests,
             Select(r) \/ Guard(r) \/ Claim(r) \/ Send(r) \/ Conclude(r) \/ Scalp(r)
      PROVE  PassInv'
  BY <1>1, PassSelect, PassRead, PassConsider, PassWorks, PassEnds DEF Guard, Conclude
<1>2. CASE UNCHANGED <<lock, pc, plan, snapshot>>
  BY <1>2 DEF plan, snapshot, PassInv, LockInv, CurInv, DistinctInv, Active, InHand, Pending
<1>3. ASSUME NEW c \in Coins, ScalpForget(c) \/ Close(c)
      PROVE  PassInv'
  BY <1>2, <1>3 DEF ScalpForget, Close
<1>4. CASE UNCHANGED vars
  BY <1>2, <1>4 DEF vars
<1> QED
  BY <1>1, <1>3, <1>4, PassEnds DEF Next

-----------------------------------------------------------------------------
(* The bound on stacked positions. *)

\* At first nothing is held.
LEMMA StackInit == Finitely /\ Init => StackInv
<1> SUFFICES ASSUME Finitely, Init PROVE StackInv
  OBVIOUS
<1>1. TypeInv
  BY InitTypeInv
<1>2. PassInv
  BY DEF Init, PassInv, LockInv, Active, CurInv, DistinctInv, InHand, Pending, Requests
<1>3. \A c \in Coins : CoinBound(c)
  <2> TAKE c \in Coins
  <2>1. held[c] = 0
    BY DEF Init
  <2> QED
    BY <2>1, Countable DEF CoinBound
<1> QED
  BY <1>1, <1>2, <1>3 DEF Init, StackInv

\* What a step of one request leaves of the others.
LEMMA Others ==
    ASSUME TypeInv, NEW r \in Requests, NEW step \in Steps, Goto(r, step), NEW c \in Coins,
           \A q \in Requests \ {r} : todo'[q] = todo[q] /\ cur'[q] = cur[q] /\ snap'[q] = snap[q]
    PROVE  /\ \A q \in Requests \ {r} : MayOpen(q, c)' <=> MayOpen(q, c)
           /\ \A q \in Autos \ {r} : q \in Waiting(c)' <=> q \in Waiting(c)
           /\ pc'[r] = step
           /\ (MayOpen(r, c)' => MayOpen(r, c)) => Openers(c)' \subseteq Openers(c)
           /\ Openers(c)' \subseteq Openers(c) \union {InstanceOf[r]}
           /\ r \in Waiting(c)' \/ Waiting(c)' \subseteq Waiting(c) \ {r}
<1>1. \A q \in Requests : pc'[q] = IF q = r THEN step ELSE pc[q]
  BY DEF Goto, TypeInv, TypeOK
<1>2. \A q \in Requests \ {r} : (MayOpen(q, c)' <=> MayOpen(q, c))
  BY <1>1 DEF MayOpen, Active, Pending, InHand
<1>3. \A q \in Autos \ {r} : (q \in Waiting(c)' <=> q \in Waiting(c))
  BY <1>1 DEF Waiting, Requests
<1>4. (MayOpen(r, c)' => MayOpen(r, c)) => Openers(c)' \subseteq Openers(c)
  BY <1>2 DEF Openers
<1>5. Openers(c)' \subseteq Openers(c) \union {InstanceOf[r]}
  BY <1>2 DEF Openers
<1>6. r \in Waiting(c)' \/ Waiting(c)' \subseteq Waiting(c) \ {r}
  BY <1>3 DEF Waiting
<1> QED
  BY <1>1, <1>2, <1>3, <1>4, <1>5, <1>6

\* Choosing signals: a pass waits for free coins only.
LEMMA StackSelect ==
    ASSUME Finitely, StackInv, NEW r \in Requests, Select(r), NEW c \in Coins
    PROVE  CoinBound(c)'
<1>1. /\ pc[r] = "idle" /\ Goto(r, "wait") /\ UNCHANGED <<held, scalp, lock, cur, snap>>
      /\ \A q \in Requests \ {r} : todo'[q] = todo[q]
      /\ r \in Autos => \A s \in todo'[r] : CoinOf[s] \notin scalp
  <2>1. CASE SelectAuto(r)
    BY <2>1 DEF SelectAuto, exchange, snapshot, StackInv, TypeInv, TypeOK
  <2>2. CASE SelectManual(r)
    BY <2>2, HLExecutionAssumption DEF SelectManual, exchange, snapshot, StackInv, TypeInv, TypeOK
  <2>3. CASE SelectScalp(r)
    BY <2>3, HLExecutionAssumption DEF SelectScalp, exchange, plan, snapshot
  <2> QED
    BY <2>1, <2>2, <2>3 DEF Select
<1>2. TypeInv /\ CoinBound(c) /\ held[c] \in Nat
  BY HLExecutionAssumption DEF StackInv, TypeInv, TypeOK
<1>3. "wait" \in Steps /\ \A q \in Requests \ {r} : cur'[q] = cur[q] /\ snap'[q] = snap[q]
  BY <1>1 DEF Steps
<1>4. Openers(c)' \subseteq Openers(c)
  <2>1. pc'[r] = "wait"
    BY <1>1, <1>2, <1>3, Others
  <2>2. ~MayOpen(r, c)'
    BY <2>1 DEF MayOpen, Active
  <2> QED
    BY <1>1, <1>2, <1>3, <2>2, Others
<1>5. c \in scalp => Waiting(c)' \subseteq Waiting(c)
  <2>1. c \in scalp => r \notin Waiting(c)'
    BY <1>1 DEF Waiting
  <2> QED
    BY <1>1, <1>2, <1>3, <2>1, Others
<1>6. held'[c] = held[c] /\ scalp' = scalp
  BY <1>1
<1> QED
  BY <1>2, <1>4, <1>5, <1>6, FewerOpen

\* Reading the account: who finds the coin held does not become an opener.
LEMMA StackRead ==
    ASSUME Finitely, StackInv, NEW r \in Requests, ReadAccount(r), NEW c \in Coins
    PROVE  CoinBound(c)'
<1>1. TypeInv /\ CoinBound(c) /\ held[c] \in Nat
  BY HLExecutionAssumption DEF StackInv, TypeInv, TypeOK
<1>2. /\ UNCHANGED <<held, scalp, todo, cur>> /\ pc[r] = "wait"
      /\ snap'[r] = held /\ \A q \in Requests \ {r} : snap'[q] = snap[q]
  BY <1>1 DEF ReadAccount, exchange, plan, TypeInv, TypeOK
<1>3. PICK step \in {"filter", "next"} : Goto(r, step) /\ (r \in Autos <=> step = "filter")
  BY DEF ReadAccount
<1>4. step \in Steps
  BY DEF Steps
<1>5. CASE held[c] = 0
  BY <1>2, <1>5, NoneHeld
<1>6. CASE held[c] # 0
  <2>1. ~MayOpen(r, c)'
    BY <1>2, <1>6 DEF MayOpen
  <2>2. Openers(c)' \subseteq Openers(c)
    BY <1>1, <1>2, <1>3, <1>4, <2>1, Others
  <2>3. r \in Waiting(c)' => r \in Waiting(c)
    BY <1>2 DEF Waiting
  <2>4. Waiting(c)' \subseteq Waiting(c)
    BY <1>1, <1>2, <1>3, <1>4, <2>3, Others DEF Waiting, Requests
  <2> QED
    BY <1>1, <1>2, <2>2, <2>4, FewerOpen
<1> QED
  BY <1>5, <1>6

\* Leaving the book's coins out: a pass that waited for one may open it.
LEMMA StackFilter ==
    ASSUME Finitely, StackInv, NEW r \in Requests, DropScalpCoins(r), NEW c \in Coins
    PROVE  CoinBound(c)'
<1>1. TypeInv /\ CoinBound(c) /\ held[c] \in Nat
  BY HLExecutionAssumption DEF StackInv, TypeInv, TypeOK
<1>2. /\ UNCHANGED <<held, scalp, todo, cur>> /\ pc[r] = "filter" /\ Goto(r, "next")
      /\ snap'[r][c] = (IF c \in scalp THEN 0 ELSE snap[r][c])
      /\ \A q \in Requests \ {r} : snap'[q] = snap[q]
  BY <1>1 DEF DropScalpCoins, exchange, plan, TypeInv, TypeOK
<1>3. r \in Autos /\ r \notin Scalps /\ "next" \in Steps /\ InstanceOf[r] \in Instances
  BY <1>2, HLExecutionAssumption DEF StackInv, PassInv, Steps
<1>4. pc'[r] = "next"
  BY <1>1, <1>2, <1>3, Others
<1>5. Pending(r)' = todo[r] /\ Pending(r) = todo[r] /\ Active(r)
  BY <1>2, <1>4 DEF Pending, InHand, Active
<1>6. r \notin Waiting(c)'
  BY <1>4 DEF Waiting
<1>7. Waiting(c)' \subseteq Waiting(c) \ {r}
  BY <1>1, <1>2, <1>3, <1>6, Others
<1>8. CASE MayOpen(r, c)' => MayOpen(r, c)
  <2>1. Openers(c)' \subseteq Openers(c)
    BY <1>1, <1>2, <1>3, <1>8, Others
  <2> QED
    BY <1>1, <1>2, <1>7, <2>1, FewerOpen
<1>9. CASE MayOpen(r, c)' /\ ~MayOpen(r, c)
  <2>1. \E s \in todo[r] : CoinOf[s] = c
    BY <1>3, <1>5, <1>9 DEF MayOpen
  <2>2. c \in scalp /\ snap[r][c] # 0
    BY <1>2, <1>3, <1>5, <1>9, <2>1 DEF MayOpen
  <2>3. snap[r][c] \in Nat
    BY <1>1 DEF TypeInv, TypeOK
  <2>4. r \in Waiting(c)
    BY <1>2, <1>3, <2>1, <2>2, <2>3 DEF Waiting
  <2>5. Openers(c)' \subseteq Openers(c) \union {InstanceOf[r]}
    BY <1>1, <1>2, <1>3, Others
  <2> QED
    BY <1>1, <1>2, <1>3, <1>7, <2>2, <2>4, <2>5, OneJoins
<1> QED
  BY <1>8, <1>9

\* Between the account and the order: no request becomes an opener.
LEMMA StackWork ==
    ASSUME Finitely, StackInv, NEW r \in Requests, NEW c \in Coins,
           \/ Refuse(r) \/ Consider(r) \/ LookupStops(r) \/ LookupPasses(r) \/ Claim(r)
           \/ SendRejected(r) \/ ReleaseShared(r) \/ ReleaseFile(r)
           \/ SendRaises(r) /\ UNCHANGED exchange
    PROVE  CoinBound(c)'
<1>1. TypeInv /\ CoinBound(c) /\ held[c] \in Nat
  BY HLExecutionAssumption DEF StackInv, TypeInv, TypeOK
<1>2. /\ UNCHANGED <<held, scalp, snap>>
      /\ r \notin Scalps
      /\ \A q \in Requests \ {r} : todo'[q] = todo[q] /\ cur'[q] = cur[q]
      /\ \/ pc[r] = "next" /\ (Goto(r, "next") \/ Goto(r, "lookup")) /\ todo'[r] \subseteq todo[r]
            /\ (cur'[r] \in todo[r] \/ Goto(r, "next"))
         \/ Working(r) /\ pc[r] # "release" /\ (Goto(r, "claim") \/ Goto(r, "send") \/ Goto(r, "release")) /\ UNCHANGED plan
         \/ Working(r) /\ Goto(r, "next") /\ todo'[r] = todo[r]
  <2>1. CASE Refuse(r) \/ Consider(r)
    BY <1>1, <2>1 DEF Refuse, Consider, Goto, exchange, snapshot, TypeInv, TypeOK
  <2>2. CASE LookupPasses(r) \/ ClaimShared(r) \/ ClaimFile(r) \/ SendRejected(r)
             \/ (SendRaises(r) /\ UNCHANGED exchange)
    <3>1. Working(r) /\ r \notin Scalps
      BY <2>2 DEF LookupPasses, ClaimShared, ClaimFile, SendRejected, SendRaises, Working, StackInv, PassInv
    <3> QED
      BY <2>2, <3>1 DEF LookupPasses, ClaimShared, ClaimFile, SendRejected, SendRaises, exchange, snapshot, plan
  <2>3. CASE LookupStops(r) \/ ClaimLost(r) \/ ReleaseShared(r) \/ ReleaseFile(r)
    <3>1. Working(r) /\ r \notin Scalps
      BY <2>3 DEF LookupStops, ClaimLost, ReleaseShared, ReleaseFile, Working, StackInv, PassInv
    <3> QED
      BY <1>1, <2>3, <3>1 DEF LookupStops, ClaimLost, ReleaseShared, ReleaseFile, NextSignal, exchange,
                              snapshot, TypeInv, TypeOK
  <2> QED
    BY <2>1, <2>2, <2>3 DEF Claim
<1>3. PICK step \in {"next", "lookup", "claim", "send", "release"} : Goto(r, step)
  BY <1>2
<1>4. step \in Steps /\ \A q \in Requests \ {r} : todo'[q] = todo[q] /\ cur'[q] = cur[q] /\ snap'[q] = snap[q]
  BY <1>2 DEF Steps
<1>5. pc'[r] = step /\ Active(r) /\ pc[r] \notin {"wait", "filter"}
  BY <1>1, <1>2, <1>3 DEF Active, Working, Goto, TypeInv, TypeOK
<1>6. Pending(r)' \subseteq Pending(r)
  <2>1. pc' = [pc EXCEPT ![r] = pc'[r]] /\ \A step2 \in Steps : Goto(r, step2) => pc'[r] = step2
    BY <1>1, <1>3 DEF Goto, TypeInv, TypeOK
  <2>2. CASE /\ pc[r] = "next" /\ (Goto(r, "next") \/ Goto(r, "lookup")) /\ todo'[r] \subseteq todo[r]
             /\ (cur'[r] \in todo[r] \/ Goto(r, "next"))
    BY <2>1, <2>2 DEF Pending, InHand, Steps
  <2>3. CASE Working(r) /\ pc[r] # "release" /\ (Goto(r, "claim") \/ Goto(r, "send") \/ Goto(r, "release")) /\ UNCHANGED plan
    BY <2>1, <2>3 DEF Pending, InHand, Working, plan
  <2>4. CASE Working(r) /\ Goto(r, "next") /\ todo'[r] = todo[r]
    BY <2>1, <2>4 DEF Pending, InHand, Steps
  <2> QED
    BY <1>2, <2>2, <2>3, <2>4
<1>7. MayOpen(r, c)' => MayOpen(r, c)
  BY <1>2, <1>5, <1>6 DEF MayOpen
<1>8. r \notin Waiting(c)'
  BY <1>3, <1>5 DEF Waiting
<1>9. Openers(c)' \subseteq Openers(c) /\ Waiting(c)' \subseteq Waiting(c)
  BY <1>1, <1>3, <1>4, <1>7, <1>8, Others
<1> QED
  BY <1>1, <1>2, <1>9, FewerOpen

\* A request that opens a coin was an opener, the only one of its instance.
LEMMA OpenerGoes ==
    ASSUME TypeInv, PassInv, NEW r \in Requests, NEW c \in Coins, MayOpen(r, c), ~MayOpen(r, c)',
           Active(r), NEW step \in Steps, Goto(r, step),
           \A q \in Requests \ {r} : todo'[q] = todo[q] /\ cur'[q] = cur[q] /\ snap'[q] = snap[q]
    PROVE  InstanceOf[r] \in Openers(c) /\ Openers(c)' \subseteq Openers(c) \ {InstanceOf[r]}
<1>1. InstanceOf[r] \in Openers(c)
  BY HLExecutionAssumption DEF Openers
<1>2. \A q \in Requests \ {r} : MayOpen(q, c)' <=> MayOpen(q, c)
  BY Others
<1>3. \A q \in Requests : MayOpen(q, c)' => q # r /\ MayOpen(q, c) /\ InstanceOf[q] # InstanceOf[r]
  BY <1>2, OnePerInstance DEF MayOpen
<1> QED
  BY <1>1, <1>3 DEF Openers

\* An order that fills, reported or lost.
LEMMA StackFill ==
    ASSUME Finitely, StackInv, NEW r \in Requests, SendAccepted(r) \/ (SendRaises(r) /\ Execute(cur[r])),
           NEW c \in Coins
    PROVE  CoinBound(c)'
<1>1. TypeInv /\ PassInv /\ CoinBound(c) /\ held[c] \in Nat
  BY HLExecutionAssumption DEF StackInv, TypeInv, TypeOK
<1>2. /\ pc[r] = "send" /\ Active(r) /\ InHand(r) /\ r \notin Scalps
      /\ Execute(cur[r]) /\ scalp' = scalp /\ todo' = todo
  BY <1>1 DEF SendAccepted, SendRaises, Active, InHand, PassInv, plan
<1>3. PICK s \in Signals : s = cur[r] /\ s \notin todo[r] /\ snap[r][CoinOf[s]] = 0 /\ s \in Pending(r)
  BY <1>1, <1>2 DEF PassInv, CurInv, Pending
<1>4. PICK step \in {"next", "release"} : Goto(r, step)
  BY DEF SendAccepted, SendRaises, NextSignal
<1>5. /\ step \in Steps /\ CoinOf[s] \in Coins
      /\ \A q \in Requests \ {r} : todo'[q] = todo[q] /\ cur'[q] = cur[q] /\ snap'[q] = snap[q]
      /\ \A d \in Coins : d # CoinOf[s] => snap'[r][d] = snap[r][d]
  <2>1. step \in Steps /\ CoinOf[s] \in Coins
    BY HLExecutionAssumption DEF Steps
  <2>2. CASE SendAccepted(r)
    BY <1>1, <1>3, <2>1, <2>2 DEF SendAccepted, NextSignal, TypeInv, TypeOK
  <2>3. CASE SendRaises(r)
    BY <2>1, <2>3 DEF SendRaises, plan, snapshot
  <2> QED
    BY <2>2, <2>3
<1>6. pc'[r] = step
  BY <1>1, <1>4, <1>5, Others
<1>7. Pending(r)' = todo[r]
  BY <1>2, <1>4, <1>6 DEF Pending, InHand
<1>8. r \notin Waiting(c)'
  BY <1>4, <1>6 DEF Waiting
<1>9. Waiting(c)' \subseteq Waiting(c)
  BY <1>1, <1>4, <1>5, <1>8, Others
<1>10. CASE c = CoinOf[s]
  <2>1. MayOpen(r, c)
    BY <1>2, <1>3, <1>10 DEF MayOpen
  <2>2. ~MayOpen(r, c)'
    <3>1. \A t \in todo[r] : CoinOf[t] # c
      BY <1>1, <1>3, <1>10 DEF PassInv, DistinctInv, Pending
    <3> QED
      BY <1>2, <1>7, <3>1 DEF MayOpen
  <2>3. InstanceOf[r] \in Openers(c) /\ Openers(c)' \subseteq Openers(c) \ {InstanceOf[r]}
    BY <1>1, <1>2, <1>4, <1>5, <2>1, <2>2, OpenerGoes
  <2>4. held'[c] = held[c] + 1
    BY <1>1, <1>2, <1>3, <1>10 DEF Execute, TypeInv, TypeOK
  <2> QED
    BY <1>1, <1>2, <1>9, <2>3, <2>4, OneOpened
<1>11. CASE c # CoinOf[s]
  <2>1. held'[c] = held[c]
    BY <1>1, <1>2, <1>3, <1>11 DEF Execute, TypeInv, TypeOK
  <2>2. MayOpen(r, c)' => MayOpen(r, c)
    BY <1>2, <1>5, <1>7, <1>11 DEF MayOpen, Pending
  <2>3. Openers(c)' \subseteq Openers(c)
    BY <1>1, <1>4, <1>5, <2>2, Others
  <2> QED
    BY <1>1, <1>2, <1>9, <2>1, <2>3, FewerOpen
<1> QED
  BY <1>10, <1>11

\* The scalp pass opens a coin.
LEMMA StackScalp ==
    ASSUME Finitely, StackInv, NEW r \in Requests, ScalpOpen(r), NEW c \in Coins
    PROVE  CoinBound(c)'
<1>1. TypeInv /\ PassInv /\ CoinBound(c) /\ held[c] \in Nat
  BY HLExecutionAssumption DEF StackInv, TypeInv, TypeOK
<1>2. PICK d \in Coins : snap[r][d] = 0 /\ held' = [held EXCEPT ![d] = @ + 1]
  BY DEF ScalpOpen
<1>3. /\ r \in Scalps /\ pc[r] = "next" /\ Active(r) /\ Goto(r, "record") /\ "record" \in Steps
      /\ scalp' = scalp
      /\ \A q \in Requests \ {r} : todo'[q] = todo[q] /\ cur'[q] = cur[q] /\ snap'[q] = snap[q]
  BY <1>1 DEF ScalpOpen, Active, Steps, plan, TypeInv, TypeOK
<1>4. pc'[r] = "record"
  BY <1>1, <1>3, Others
<1>5. ~MayOpen(r, c)' /\ r \notin Waiting(c)'
  BY <1>3, <1>4 DEF MayOpen, Waiting
<1>6. Waiting(c)' \subseteq Waiting(c)
  BY <1>1, <1>3, <1>5, Others
<1>7. CASE c = d
  <2>1. MayOpen(r, c)
    BY <1>2, <1>3, <1>7 DEF MayOpen
  <2>2. InstanceOf[r] \in Openers(c) /\ Openers(c)' \subseteq Openers(c) \ {InstanceOf[r]}
    BY <1>1, <1>3, <1>5, <2>1, OpenerGoes
  <2>3. held'[c] = held[c] + 1
    BY <1>1, <1>2, <1>7 DEF TypeInv, TypeOK
  <2> QED
    BY <1>1, <1>3, <1>6, <2>2, <2>3, OneOpened
<1>8. CASE c # d
  <2>1. held'[c] = held[c]
    BY <1>1, <1>2, <1>8 DEF TypeInv, TypeOK
  <2>2. Openers(c)' \subseteq Openers(c)
    BY <1>1, <1>3, <1>5, Others
  <2> QED
    BY <1>1, <1>3, <1>6, <2>1, <2>2, FewerOpen
<1> QED
  BY <1>7, <1>8

\* Requests that end open nothing any more.
LEMMA StackReturn ==
    ASSUME Finitely, StackInv, NEW R \in SUBSET Requests, Return(R), held' = held, scalp \subseteq scalp',
           NEW c \in Coins
    PROVE  CoinBound(c)'
<1>1. CoinBound(c) /\ held[c] \in Nat
  BY HLExecutionAssumption DEF StackInv, TypeInv, TypeOK
<1>2. \A q \in Requests : q \in R => pc'[q] = "idle"
  BY DEF Return
<1>3. \A q \in Requests : q \notin R =>
        pc'[q] = pc[q] /\ todo'[q] = todo[q] /\ cur'[q] = cur[q] /\ snap'[q] = snap[q]
  BY DEF Return
<1>4. \A q \in Requests : MayOpen(q, c)' => MayOpen(q, c)
  BY <1>2, <1>3 DEF MayOpen, Active, Pending, InHand
<1>5. Openers(c)' \subseteq Openers(c)
  BY <1>4 DEF Openers
<1>6. Waiting(c)' \subseteq Waiting(c)
  BY <1>2, <1>3 DEF Waiting, Requests
<1> QED
  BY <1>1, <1>5, <1>6, FewerOpen

\* What changes neither a request nor what it sees.
LEMMA StackSame ==
    ASSUME Finitely, StackInv, UNCHANGED <<pc, plan, snapshot>>, NEW c \in Coins,
           held'[c] = 0 \/ (held'[c] = held[c] /\ (c \in scalp => c \in scalp'))
    PROVE  CoinBound(c)'
<1>1. CoinBound(c) /\ held[c] \in Nat
  BY HLExecutionAssumption DEF StackInv, TypeInv, TypeOK
<1>2. Openers(c)' = Openers(c) /\ Waiting(c)' = Waiting(c)
  BY DEF Openers, Waiting, MayOpen, Active, Pending, InHand, plan, snapshot
<1> QED
  BY <1>1, <1>2, FewerOpen, NoneHeld

\* Every step keeps the bound.
LEMMA StackStep == Finitely /\ StackInv /\ [Next]_vars => StackInv'
<1> SUFFICES ASSUME Finitely, StackInv, [Next]_vars
             PROVE  StackInv'
  OBVIOUS
<1>1. TypeInv' /\ PassInv'
  BY TypeStep, PassStep DEF StackInv
<1>2. Scalps = {} => scalp' = {}
  <2> SUFFICES ASSUME Scalps = {} PROVE scalp' = {}
    OBVIOUS
  <2>1. scalp = {} /\ \A r \in Requests : ~ScalpRecord(r) /\ ~ScalpOpen(r)
    BY DEF StackInv, PassInv, ScalpRecord, ScalpOpen
  <2> QED
    BY <2>1 DEF Next, vars, Select, SelectAuto, SelectManual, SelectScalp, Guard, ReadAccount,
                DropScalpCoins, Refuse, Consider, LookupStops, LookupPasses, Claim, ClaimShared,
                ClaimFile, ClaimLost, Send, SendAccepted, SendRejected, SendRaises, Conclude,
                ReleaseShared, ReleaseFile, Finish, Scalp, ScalpForget, Close, Crash
<1>3. ASSUME NEW c \in Coins PROVE CoinBound(c)'
  <2>1. ASSUME NEW r \in Requests, Select(r) \/ Guard(r) \/ Claim(r)
        PROVE  CoinBound(c)'
    BY <2>1, StackSelect, StackRead, StackFilter, StackWork DEF Guard
  <2>2. ASSUME NEW r \in Requests, Send(r)
        PROVE  CoinBound(c)'
    BY <2>2, StackFill, StackWork DEF Send, SendRaises
  <2>3. ASSUME NEW r \in Requests, Conclude(r)
        PROVE  CoinBound(c)'
    <3>1. CASE Finish(r)
      <4>1. Return({r}) /\ held' = held /\ scalp' = scalp
        BY <3>1 DEF Finish, exchange
      <4> QED
        BY <4>1, StackReturn
    <3> QED
      BY <2>3, <3>1, StackWork DEF Conclude
  <2>4. ASSUME NEW r \in Requests, Scalp(r)
        PROVE  CoinBound(c)'
    <3>1. CASE ScalpRecord(r)
      <4>1. Return({r}) /\ held' = held /\ scalp \subseteq scalp'
        BY <3>1 DEF ScalpRecord, exchange
      <4> QED
        BY <4>1, StackReturn
    <3> QED
      BY <2>4, <3>1, StackScalp DEF Scalp
  <2>5. ASSUME NEW d \in Coins, ScalpForget(d) \/ Close(d)
        PROVE  CoinBound(c)'
    <3>1. UNCHANGED <<pc, plan, snapshot>>
      BY <2>5 DEF ScalpForget, Close
    <3>2. held'[c] = 0 \/ (held'[c] = held[c] /\ (c \in scalp => c \in scalp'))
      BY <2>5 DEF ScalpForget, Close, exchange, StackInv, TypeInv, TypeOK
    <3> QED
      BY <3>1, <3>2, StackSame
  <2>6. ASSUME NEW i \in Instances, Crash(i)
        PROVE  CoinBound(c)'
    <3> DEFINE R == {r \in Requests : InstanceOf[r] = i}
    <3>1. Return(R) /\ held' = held /\ scalp' = scalp
      BY <2>6 DEF Crash, exchange
    <3> HIDE DEF R
    <3>2. R \in SUBSET Requests
      BY DEF R
    <3> QED
      BY <3>1, <3>2, StackReturn
  <2>7. CASE UNCHANGED vars
    BY <2>7, StackSame DEF vars, exchange
  <2> QED
    BY <2>1, <2>2, <2>3, <2>4, <2>5, <2>6, <2>7 DEF Next
<1> QED
  BY <1>1, <1>2, <1>3 DEF StackInv

(* Over several instances a coin holds one position per instance and, only *)
(* beside the scalp book, one more per waiting pass: whatever is lost,     *)
(* stopped or closed.                                                      *)
THEOREM StacksWithin ==
    ASSUME IsFiniteSet(Instances), IsFiniteSet(Autos)
    PROVE  Spec => []StackingBounded
<1>1. Finitely
  BY DEF Finitely
<1>2. StackInv => StackingBounded
  <2> SUFFICES ASSUME StackInv, NEW c \in Coins
               PROVE  held[c] <= Cardinality(Instances) + (IF Scalps = {} THEN 0 ELSE Cardinality(Autos))
    BY DEF StackingBounded
  <2>1. CoinBound(c) /\ held[c] \in Nat
    BY HLExecutionAssumption DEF StackInv, TypeInv, TypeOK
  <2> QED
    BY <1>1, <2>1, Countable DEF CoinBound, StackInv
<1> QED
  BY <1>1, <1>2, StackInit, StackStep, PTL DEF Spec

-----------------------------------------------------------------------------
(* The exposure cap.  The sum over the coins is a running one, so what     *)
(* holds of it is shown by induction over the coins passed.                *)

Accounts == [Coins -> Nat]

\* Finitely many coins have an order, without repetition.
LEMMA CoinsInOrder ==
    ASSUME IsFiniteSet(Coins)
    PROVE  /\ Cardinality(Coins) \in Nat
           /\ CoinOrder \in [1..Cardinality(Coins) -> Coins]
           /\ \A m, n \in 1..Cardinality(Coins) : CoinOrder[m] = CoinOrder[n] => m = n
<1>1. Cardinality(Coins) \in Nat /\ ExistsBijection(1..Cardinality(Coins), Coins)
  BY FS_CardinalityType
<1>2. \E f \in [1..Cardinality(Coins) -> Coins] : IsInjective(f)
  BY <1>1 DEF ExistsBijection, Bijection, Injection, Surjection, IsInjective
<1>3. CoinOrder \in [1..Cardinality(Coins) -> Coins] /\ IsInjective(CoinOrder)
  BY <1>2 DEF CoinOrder, SetToSeq
<1> QED
  BY <1>1, <1>3 DEF IsInjective

\* The running sum is the function its recursion describes.
LEMMA RunningDef ==
    ASSUME IsFiniteSet(Coins), NEW a \in Accounts
    PROVE  /\ Running(a)[0] = 0
           /\ \A i \in 1..Cardinality(Coins) : Running(a)[i] = Running(a)[i - 1] + a[CoinOrder[i]]
<1> DEFINE F(g, n) == g = [i \in 0..n |-> IF i = 0 THEN 0 ELSE g[i - 1] + a[CoinOrder[i]]]
<1>1. Running(a) = CHOOSE g : F(g, Cardinality(Coins))
  BY DEF Running
<1>2. \E g : F(g, 0)
  <2>1. F([i \in 0..0 |-> 0], 0)
    OBVIOUS
  <2> QED
    BY <2>1
<1>3. PICK n \in Nat : n = Cardinality(Coins)
  BY CoinsInOrder
<1>4. ASSUME NEW m \in 0..(n - 1), NEW g, F(g, m) PROVE \E h : F(h, m + 1)
  <2> DEFINE last == g[m] + a[CoinOrder[m + 1]]
             h == [i \in 0..(m+1) |-> IF i = m + 1 THEN last ELSE g[i]]
  <2>0. m \in Nat /\ (m + 1) - 1 = m
    OBVIOUS
  <2>1. ASSUME NEW i \in 0..(m + 1)
        PROVE  h[i] = IF i = 0 THEN 0 ELSE h[i - 1] + a[CoinOrder[i]]
    <3>1. CASE i = m + 1
      <4>1. h[i] = last /\ h[i - 1] = g[m]
        BY <2>0, <3>1
      <4> QED
        BY <2>0, <3>1, <4>1
    <3>2. CASE i # m + 1
      <4>1. h[i] = g[i] /\ i \in 0..m /\ (i # 0 => h[i - 1] = g[i - 1])
        BY <2>0, <3>2
      <4> QED
        BY <1>4, <4>1
    <3> QED
      BY <3>1, <3>2
  <2>2. h = [i \in 0..(m+1) |-> h[i]]
    OBVIOUS
  <2> HIDE DEF h
  <2>3. F(h, m + 1)
    BY <2>1, <2>2
  <2> QED
    BY <2>3
<1>5. \E g : F(g, n)
  <2> DEFINE X == {k \in 0..n : \E g : F(g, k)}
  <2>1. \A m \in 0..(n - 1) : (\E g : F(g, m)) => \E h : F(h, m + 1)
    BY <1>4
  <2> HIDE DEF F
  <2>2. 0 \in X /\ \A m \in 0..(n - 1) : m \in X => m + 1 \in X
    BY <1>2, <2>1
  <2> HIDE DEF X
  <2>3. n \in X
    BY <2>2, Rules!UpTo
  <2> QED
    BY <2>3 DEF X
<1>6. F(Running(a), n)
  <2> HIDE DEF F
  <2> QED
    BY <1>1, <1>3, <1>5
<1>7. 0 \in 0..n /\ \A i \in 1..n : i \in 0..n /\ i # 0
  OBVIOUS
<1> DEFINE g == Running(a)
<1>8. \A i \in 0..n : g[i] = IF i = 0 THEN 0 ELSE g[i - 1] + a[CoinOrder[i]]
  <2> HIDE DEF g
  <2>1. g = [i \in 0..n |-> IF i = 0 THEN 0 ELSE g[i - 1] + a[CoinOrder[i]]]
    BY <1>6 DEF g
  <2> QED
    BY <2>1
<1> QED
  BY <1>3, <1>7, <1>8

\* An account that differs in one more order on one coin, and is smaller or
\* equal elsewhere, is worth at most one order more.
LEMMA ExposureGrowsByOne ==
    ASSUME IsFiniteSet(Coins), NEW a \in Accounts, NEW b \in Accounts, NEW c,
           \A d \in Coins : b[d] <= IF d = c THEN a[d] + 1 ELSE a[d]
    PROVE  /\ Exposure(a) \in Nat /\ Exposure(b) \in Nat
           /\ Exposure(b) <= Exposure(a) + 1
           /\ c \notin Coins => Exposure(b) <= Exposure(a)
<1>1. PICK n \in Nat : n = Cardinality(Coins)
  BY CoinsInOrder
<1> DEFINE f == Running(a)
           g == Running(b)
           Passed(m) == \E i \in 1..m : CoinOrder[i] = c
           X == {m \in 0..n : /\ f[m] \in Nat /\ g[m] \in Nat
                              /\ g[m] <= f[m] + 1
                              /\ ~Passed(m) => g[m] <= f[m]}
<1>2. f[0] = 0 /\ g[0] = 0
  BY RunningDef
<1>3. ASSUME NEW m \in 0..(n - 1), m \in X
      PROVE  m + 1 \in X
  <2>0. m \in Nat /\ m + 1 \in 1..n /\ (m + 1) - 1 = m /\ m + 1 \in 0..n
    BY <1>1
  <2>1. PICK d \in Coins : d = CoinOrder[m + 1]
    BY <1>1, <2>0, CoinsInOrder
  <2>2. a[d] \in Nat /\ b[d] \in Nat /\ b[d] <= IF d = c THEN a[d] + 1 ELSE a[d]
    BY DEF Accounts
  <2>3. f[m + 1] = f[m] + a[d] /\ g[m + 1] = g[m] + b[d]
    <3>1. \A i \in 1..n : f[i] = f[i - 1] + a[CoinOrder[i]] /\ g[i] = g[i - 1] + b[CoinOrder[i]]
      BY <1>1, RunningDef
    <3> HIDE DEF f, g
    <3> QED
      BY <2>0, <2>1, <3>1
  <2>4. Passed(m + 1) <=> Passed(m) \/ d = c
    BY <2>0, <2>1
  <2>5. Passed(m) => d # c
    <3> SUFFICES ASSUME NEW i \in 1..m, CoinOrder[i] = c PROVE d # c
      OBVIOUS
    <3>1. i \in 1..n /\ i # m + 1
      BY <2>0
    <3> QED
      BY <1>1, <2>0, <2>1, <3>1, CoinsInOrder
  <2>6. f[m] \in Nat /\ g[m] \in Nat /\ g[m] <= f[m] + 1 /\ (~Passed(m) => g[m] <= f[m])
    BY <1>3
  <2> HIDE DEF f, g, Passed
  <2>7. f[m + 1] \in Nat /\ g[m + 1] \in Nat
    BY <2>2, <2>3, <2>6
  <2>8. CASE d = c
    BY <2>2, <2>3, <2>4, <2>5, <2>6, <2>7, <2>8, <2>0
  <2>9. CASE d # c
    BY <2>2, <2>3, <2>4, <2>6, <2>7, <2>9, <2>0
  <2> QED
    BY <2>8, <2>9
<1>4. 0 \in X
  <2> HIDE DEF f, g
  <2> QED
    BY <1>2
<1>5. n \in X
  <2> HIDE DEF X
  <2> QED
    BY <1>3, <1>4, Rules!UpTo
<1>6. c \notin Coins => ~Passed(n)
  BY <1>1, CoinsInOrder
<1> HIDE DEF f, g, Passed
<1>7. Exposure(a) = f[n] /\ Exposure(b) = g[n]
  BY <1>1 DEF Exposure, f, g
<1> QED
  BY <1>5, <1>6, <1>7

\* An account without positions is worth nothing.
LEMMA NoExposure ==
    ASSUME IsFiniteSet(Coins)
    PROVE  Exposure([c \in Coins |-> 0]) = 0
<1>1. PICK n \in Nat : n = Cardinality(Coins)
  BY CoinsInOrder
<1> DEFINE a == [c \in Coins |-> 0]
           f == Running(a)
           X == {m \in 0..n : f[m] = 0}
<1>2. f[0] = 0 /\ \A i \in 1..n : f[i] = f[i - 1] + a[CoinOrder[i]]
  BY <1>1, RunningDef DEF Accounts
<1>3. ASSUME NEW m \in 0..(n - 1), m \in X
      PROVE  m + 1 \in X
  <2>0. m + 1 \in 1..n /\ (m + 1) - 1 = m /\ m + 1 \in 0..n
    OBVIOUS
  <2>1. a[CoinOrder[m + 1]] = 0
    BY <1>1, <2>0, CoinsInOrder
  <2> HIDE DEF f, a
  <2> QED
    BY <1>2, <1>3, <2>0, <2>1
<1> HIDE DEF f
<1>4. 0 \in X
  BY <1>2
<1>5. n \in X
  <2> HIDE DEF X
  <2> QED
    BY <1>3, <1>4, Rules!UpTo
<1> QED
  BY <1>1, <1>5 DEF Exposure, f

\* smaller or equal on every coin is smaller or equal in all
LEMMA ExposureOrder ==
    ASSUME IsFiniteSet(Coins), NEW a \in Accounts, NEW b \in Accounts,
           \A d \in Coins : b[d] <= a[d]
    PROVE  Exposure(a) \in Nat /\ Exposure(b) \in Nat /\ Exposure(b) <= Exposure(a)
<1>1. PICK c : c \notin Coins
  <2>1. {d \in Coins : d \notin d} \notin Coins
    OBVIOUS
  <2> QED
    BY <2>1
<1>2. \A d \in Coins : b[d] <= IF d = c THEN a[d] + 1 ELSE a[d]
  BY <1>1
<1> QED
  BY <1>1, <1>2, ExposureGrowsByOne

(* What a pass knows of the account covers it, and a pass that goes on to  *)
(* the claim has room for one more order.                                  *)
CapInv ==
    /\ Exposure(held) <= MaxExposure
    /\ \A r \in Requests : Active(r) => \A c \in Coins : held[c] <= snap[r][c]
    /\ \A r \in Requests : Ordering(r) => Exposure(snap[r]) + 1 <= MaxExposure

\* The cap holds at first.
LEMMA InitCap == ASSUME IsFiniteSet(Coins) PROVE Init => CapInv
BY NoExposure, HLExecutionAssumption DEF Init, CapInv, Active, Ordering

\* Steps that open nothing and after which no pass knows less.
LEMMA CapKept ==
    ASSUME IsFiniteSet(Coins), IInv, IInv', CapInv, \A c \in Coins : held'[c] <= held[c],
           \A q \in Requests : Active(q)' => \/ Active(q) /\ snap'[q] = snap[q]
                                             \/ snap'[q] = held /\ held' = held,
           \A q \in Requests : Ordering(q)' =>
               snap'[q] = snap[q] /\ (Ordering(q) \/ Exposure(snap[q]) + 1 <= MaxExposure)
    PROVE  CapInv'
<1>1. held \in Accounts /\ held' \in Accounts
  BY DEF IInv, TypeLocal, Accounts
<1>2. Exposure(held') <= Exposure(held) /\ Exposure(held) \in Nat /\ Exposure(held') \in Nat
  BY <1>1, ExposureOrder
<1>3. Exposure(held') <= MaxExposure
  BY <1>2, HLExecutionAssumption DEF CapInv
<1>4. ASSUME NEW q \in Requests, Active(q)', NEW c \in Coins
      PROVE  held'[c] <= snap'[q][c]
  <2>1. CASE Active(q) /\ snap'[q] = snap[q]
    <3>1. held'[c] \in Nat /\ held[c] \in Nat /\ snap[q][c] \in Nat
      BY <1>1 DEF IInv, TypeLocal, Accounts
    <3> QED
      BY <2>1, <3>1 DEF CapInv
  <2>2. CASE snap'[q] = held /\ held' = held
    BY <1>1, <2>2 DEF Accounts
  <2> QED
    BY <1>4, <2>1, <2>2
<1>5. ASSUME NEW q \in Requests, Ordering(q)'
      PROVE  Exposure(snap'[q]) + 1 <= MaxExposure
  BY <1>5 DEF CapInv
<1>6. Exposure(held)' = Exposure(held') /\ \A q \in Requests : Exposure(snap[q])' = Exposure(snap'[q])
  BY DEF Exposure, Running
<1> QED
  BY <1>3, <1>4, <1>5, <1>6 DEF CapInv

\* Steps of a request that open nothing and leave its snapshot alone.
LEMMA CapMovesOn ==
    ASSUME IsFiniteSet(Coins), IInv, IInv', CapInv, NEW r \in Requests, NEW step, Goto(r, step),
           step \in {"idle", "wait"} \/ Active(r), UNCHANGED <<held, snap>>,
           step \in {"claim", "send"} => Ordering(r) \/ Exposure(snap[r]) + 1 <= MaxExposure
    PROVE  CapInv'
<1>1. \A q \in Requests : pc'[q] = IF q = r THEN step ELSE pc[q]
  BY DEF Goto, IInv, TypeLocal
<1>2. \A q \in Requests : Active(q)' => Active(q)
  BY <1>1 DEF Active
<1>3. \A q \in Requests : Ordering(q)' => Ordering(q) \/ Exposure(snap[q]) + 1 <= MaxExposure
  BY <1>1 DEF Ordering
<1>4. \A c \in Coins : held'[c] <= held[c]
  BY DEF IInv, TypeLocal
<1> QED
  BY <1>2, <1>3, <1>4, CapKept

\* An order that is filled and counted.
LEMMA CapAccepted ==
    ASSUME IsFiniteSet(Coins), OneInstanceOnly, IInv, IInv', CapInv, NEW r \in Requests, SendAccepted(r)
    PROVE  CapInv'
<1>1. pc[r] = "send" /\ Active(r) /\ Ordering(r) /\ cur[r] \in Signals /\ cur[r] \in Signals
  BY DEF SendAccepted, Active, Ordering, InHand, IInv, CurInv
<1>2. PICK c \in Coins : c = CoinOf[cur[r]]
  BY <1>1, HLExecutionAssumption
<1>3. held' = [held EXCEPT ![c] = @ + 1] /\ snap' = [snap EXCEPT ![r][c] = @ + 1]
      /\ pc' = [pc EXCEPT ![r] = "next"]
  BY <1>2 DEF SendAccepted, Execute, NextSignal, Goto
<1>4. held \in Accounts /\ held' \in Accounts /\ snap[r] \in Accounts /\ snap'[r] \in Accounts
  BY DEF IInv, TypeLocal, Accounts
<1>5. \A d \in Coins : held'[d] <= IF d = c THEN held[d] + 1 ELSE held[d]
  BY <1>3, <1>4 DEF Accounts
<1>6. Exposure(held') <= Exposure(held) + 1 /\ Exposure(held) \in Nat /\ Exposure(held') \in Nat
  BY <1>4, <1>5, ExposureGrowsByOne
<1>7. Exposure(held) <= Exposure(snap[r]) /\ Exposure(snap[r]) \in Nat
  BY <1>1, <1>4, ExposureOrder DEF CapInv
<1>8. Exposure(held') <= MaxExposure
  BY <1>1, <1>6, <1>7, HLExecutionAssumption DEF CapInv
<1>9. \A q \in Requests : pc'[q] = IF q = r THEN "next" ELSE pc[q]
  BY <1>3 DEF IInv, TypeLocal
<1>10. \A q \in Requests : ~Ordering(q)' /\ (Active(q)' => q = r)
  <2>1. \A q \in Requests \ {r} : ~Active(q)
    BY <1>1, OneActive
  <2> QED
    BY <1>9, <2>1 DEF Ordering, Active
<1>11. \A d \in Coins : held'[d] <= snap'[r][d]
  <2> TAKE d \in Coins
  <2>1. held[d] <= snap[r][d] /\ held[d] \in Nat /\ snap[r][d] \in Nat
    BY <1>1, <1>4 DEF CapInv, Accounts
  <2>2. held'[d] = (IF d = c THEN held[d] + 1 ELSE held[d])
        /\ snap'[r][d] = (IF d = c THEN snap[r][d] + 1 ELSE snap[r][d])
    BY <1>3, <1>4 DEF Accounts, IInv, TypeLocal
  <2> QED
    BY <2>1, <2>2
<1>12. Exposure(held)' = Exposure(held')
  BY DEF Exposure, Running
<1> QED
  BY <1>8, <1>10, <1>11, <1>12 DEF CapInv

\* Every step keeps the cap, when the sender hears of every fill.
LEMMA StepCap ==
    ASSUME IsFiniteSet(Coins), OneInstanceOnly, "send_reply" \notin Faults,
           IInv, IInv', CapInv, [Next]_vars
    PROVE  CapInv'
<1>1. ASSUME NEW r \in Requests, Select(r)
      PROVE  CapInv'
  <2>1. Goto(r, "wait") /\ UNCHANGED <<held, snap>>
    BY <1>1 DEF Select, SelectAuto, SelectManual, SelectScalp, exchange, snapshot
  <2> QED
    BY <2>1, CapMovesOn
<1>2. ASSUME NEW r \in Requests, ReadAccount(r)
      PROVE  CapInv'
  <2>1. held' = held /\ snap' = [snap EXCEPT ![r] = held]
        /\ Goto(r, IF r \in Autos THEN "filter" ELSE "next")
    BY <1>2 DEF ReadAccount, exchange
  <2>2. \A q \in Requests : /\ pc'[q] = IF q = r THEN (IF r \in Autos THEN "filter" ELSE "next") ELSE pc[q]
                            /\ snap'[q] = IF q = r THEN held ELSE snap[q]
    BY <2>1 DEF Goto, IInv, TypeLocal
  <2>3. /\ \A q \in Requests : Active(q)' => (Active(q) /\ snap'[q] = snap[q]) \/ (snap'[q] = held /\ held' = held)
        /\ \A q \in Requests : Ordering(q)' => Ordering(q) /\ snap'[q] = snap[q]
    BY <2>1, <2>2 DEF Active, Ordering
  <2>4. \A c \in Coins : held'[c] <= held[c]
    BY <2>1 DEF IInv, TypeLocal
  <2> QED
    BY <2>3, <2>4, CapKept
<1>3. ASSUME NEW r \in Requests, DropScalpCoins(r)
      PROVE  CapInv'
  <2>1. snap' = snap /\ held' = held /\ Active(r) /\ Goto(r, "next")
    BY <1>3 DEF DropScalpCoins, IInv, TypeLocal, exchange, Active
  <2> QED
    BY <2>1, CapMovesOn
<1>4. ASSUME NEW r \in Requests, Refuse(r)
      PROVE  CapInv'
  <2>1. Goto(r, "next") /\ Active(r) /\ UNCHANGED <<held, snap>>
    BY <1>4 DEF Refuse, Goto, IInv, TypeLocal, exchange, snapshot, Active
  <2> QED
    BY <2>1, CapMovesOn
<1>5. ASSUME NEW r \in Requests, Consider(r) \/ LookupStops(r)
      PROVE  CapInv'
  <2>1. (Goto(r, "lookup") \/ Goto(r, "next")) /\ Active(r) /\ UNCHANGED <<held, snap>>
    BY <1>5 DEF Consider, LookupStops, NextSignal, exchange, snapshot, Active
  <2> QED
    BY <2>1, CapMovesOn
<1>6. ASSUME NEW r \in Requests, LookupPasses(r)
      PROVE  CapInv'
  <2>1. Goto(r, "claim") /\ Active(r) /\ UNCHANGED <<held, snap>> /\ Exposure(snap[r]) + 1 <= MaxExposure
    BY <1>6 DEF LookupPasses, exchange, snapshot, Active
  <2> QED
    BY <2>1, CapMovesOn
<1>7. ASSUME NEW r \in Requests, Claim(r)
      PROVE  CapInv'
  <2>1. (Goto(r, "send") \/ Goto(r, "next")) /\ Active(r) /\ Ordering(r) /\ UNCHANGED <<held, snap>>
    BY <1>7 DEF Claim, ClaimShared, ClaimFile, ClaimLost, NextSignal, exchange, snapshot, Active, Ordering
  <2> QED
    BY <2>1, CapMovesOn
<1>8. ASSUME NEW r \in Requests, Send(r)
      PROVE  CapInv'
  <2>1. CASE SendRejected(r) \/ SendRaises(r)
    <3>1. Goto(r, "release") /\ Active(r) /\ UNCHANGED <<held, snap>>
      BY <2>1 DEF SendRejected, SendRaises, May, exchange, snapshot, Active
    <3> QED
      BY <3>1, CapMovesOn
  <2> QED
    BY <1>8, <2>1, CapAccepted DEF Send
<1>9. ASSUME NEW r \in Requests, ReleaseShared(r) \/ ReleaseFile(r)
      PROVE  CapInv'
  <2>1. Goto(r, "next") /\ Active(r) /\ UNCHANGED <<held, snap>>
    BY <1>9 DEF ReleaseShared, ReleaseFile, NextSignal, exchange, snapshot, Active
  <2> QED
    BY <2>1, CapMovesOn
<1>10. ASSUME NEW R \in SUBSET Requests, Return(R), \A c \in Coins : held'[c] <= held[c]
       PROVE  CapInv'
  <2>1. \A q \in Requests : (Active(q)' => q \notin R /\ Active(q)) /\ (Ordering(q)' => q \notin R /\ Ordering(q))
    BY <1>10 DEF Return, Active, Ordering
  <2>2. \A q \in Requests \ R : snap'[q] = snap[q]
    BY <1>10 DEF Return
  <2> QED
    BY <1>10, <2>1, <2>2, CapKept
<1>11. \A c \in Coins : held[c] <= held[c]
  BY DEF IInv, TypeLocal
<1>12. ASSUME NEW r \in Requests, Finish(r)
       PROVE  CapInv'
  BY <1>10, <1>11, <1>12 DEF Finish, exchange
<1>13. ASSUME NEW r \in Requests, Scalp(r)
       PROVE  CapInv'
  BY <1>13 DEF Scalp, ScalpOpen, ScalpRecord, IInv, TypeLocal, OneInstanceOnly
<1>14. ASSUME NEW c \in Coins, ScalpForget(c)
       PROVE  CapInv'
  BY <1>14 DEF ScalpForget, IInv, TypeLocal
<1>15. ASSUME NEW c \in Coins, Close(c)
       PROVE  CapInv'
  <2>1. Return({}) /\ \A d \in Coins : held'[d] <= held[d]
    BY <1>15 DEF Close, Return, plan, snapshot, IInv, TypeLocal
  <2> QED
    BY <1>10, <2>1
<1>16. ASSUME NEW i \in Instances, Crash(i)
       PROVE  CapInv'
  <2>1. Return({r \in Requests : InstanceOf[r] = i}) /\ held' = held
    BY <1>16 DEF Crash, exchange
  <2> QED
    BY <1>10, <1>11, <2>1
<1>17. CASE UNCHANGED vars
  BY <1>17 DEF vars, exchange, plan, snapshot, CapInv, Active, Ordering, Exposure, Running
<1> QED
  BY <1>1, <1>2, <1>3, <1>4, <1>5, <1>6, <1>7, <1>8, <1>9, <1>12, <1>13, <1>14, <1>15, <1>16, <1>17
     DEF Next, Guard, Conclude

(* What is open never exceeds HL_MAX_EXPOSURE_USD while the sender hears   *)
(* of every fill: the sum over the snapshot that can_place checks bounds   *)
(* the account, through passes that are stopped and positions that close   *)
(* (hl_exchange._current_exposure_usd, _reflect_open).                     *)
THEOREM CapHolds ==
    ASSUME IsFiniteSet(Coins), OneInstanceOnly, "send_reply" \notin Faults
    PROVE  Spec => []ExposureWithinCap
<1>1. IInv /\ CapInv /\ [Next]_vars => IInv' /\ CapInv'
  BY StepIInv, StepCap
<1>2. CapInv => ExposureWithinCap
  BY DEF CapInv, ExposureWithinCap
<1> QED
  BY <1>1, <1>2, InitIInv, InitCap, PTL DEF Spec

-----------------------------------------------------------------------------
(***************************************************************************)
(* The arithmetic of an order, for every price, size and setting: what     *)
(* hl_meta, hl_exchange and hl_autoexec compute before anything is sent.   *)
(***************************************************************************)
HZ == INSTANCE HLSizing

\* The quotient of an integer: the multiple of the divisor next below it.
LEMMA Quotient ==
    ASSUME NEW a \in Int, NEW b \in Nat \ {0}
    PROVE  a \div b \in Int /\ b * (a \div b) <= a /\ a < b * (a \div b) + b
  OBVIOUS

\* open_position sends no order it cannot stand by.  The lots are the most the
\* notional buys, at least one and worth the least the exchange takes; even at a
\* fill 5 per cent above the market price, which is where the limit of the order
\* lies, what the account then holds is within the exposure cap; and the
\* collateral, when it is known, carries the order at a leverage the asset allows.
THEOREM OrderFits ==
    ASSUME NEW asset, asset.q \in Nat \ {0}, asset.maxLev \in Nat \ {0},
           NEW sig, NEW mark \in Int, NEW exposure \in Int, NEW free \in Int,
           NEW cfg, cfg.notional \in Nat, cfg.least \in Int, cfg.leverage \in Int, cfg.maxExposure \in Int,
           HZ!Judge(asset, sig, mark, exposure, free, cfg) = "ok"
    PROVE  LET lots == HZ!Lots(cfg.notional, mark, asset.q) IN
           /\ lots * mark <= cfg.notional * asset.q /\ cfg.notional * asset.q < (lots + 1) * mark
           /\ lots > 0 /\ lots * mark >= cfg.least * asset.q
           /\ \A px \in Nat : 100 * px <= 105 * mark =>
                 exposure * asset.q + lots * px <= cfg.maxExposure * asset.q
           /\ free # HZ!Unknown => lots * mark <= free * asset.q * asset.maxLev
<1> DEFINE lots == HZ!Lots(cfg.notional, mark, asset.q)
<1>1. mark > 0 /\ HZ!CanPlace(asset, mark, free, cfg) = "ok"
      /\ ~(100 * exposure * asset.q + 105 * lots * mark > 100 * cfg.maxExposure * asset.q)
  BY DEF HZ!Judge
<1>2. /\ lots # 0 /\ ~(lots * mark < cfg.least * asset.q)
      /\ ~(/\ free # HZ!Unknown
           /\ lots * mark > free * asset.q * HZ!Smaller(HZ!Larger(1, cfg.leverage), asset.maxLev))
  BY <1>1 DEF HZ!CanPlace
<1> PICK q \in Nat \ {0} : q = asset.q
  OBVIOUS
<1> PICK dollars \in Nat : dollars = cfg.notional * q
  OBVIOUS
<1>3. lots = dollars \div mark
  BY DEF HZ!Lots
<1> HIDE DEF lots
<1>4. lots \in Int /\ mark * lots <= dollars /\ dollars < mark * lots + mark
  BY <1>1, <1>3, Quotient
<1> PICK n \in Int : n = lots
  BY <1>4
<1>5. n * mark = mark * n /\ (n + 1) * mark = mark * n + mark
  BY <1>1
<1>6. n > 0
  <2> SUFFICES ASSUME n <= 0 PROVE FALSE
    OBVIOUS
  <2>1. n <= -1
    BY <1>2
  <2>2. mark * n + mark <= 0
    BY <1>1, <2>1
  <2> QED
    BY <1>4, <2>2
<1>7. ASSUME NEW px \in Nat, 100 * px <= 105 * mark
      PROVE  exposure * q + n * px <= cfg.maxExposure * q
  <2>1. n * (100 * px) <= n * (105 * mark)
    BY <1>1, <1>6, <1>7
  <2>2. n * (100 * px) = 100 * (n * px) /\ n * (105 * mark) = 105 * n * mark
    BY <1>1
  <2>3. 100 * exposure * q = 100 * (exposure * q) /\ 100 * cfg.maxExposure * q = 100 * (cfg.maxExposure * q)
    OBVIOUS
  <2>4. PICK a \in Int, b \in Int, c \in Int, d \in Int :
            a = exposure * q /\ b = n * px /\ c = cfg.maxExposure * q /\ d = 105 * n * mark
    BY <1>1
  <2>5. 100 * a + d <= 100 * c /\ 100 * b <= d
    BY <1>1, <2>1, <2>2, <2>3, <2>4
  <2> QED
    BY <2>4, <2>5
<1>8. ASSUME free # HZ!Unknown PROVE n * mark <= free * q * asset.maxLev
  <2> PICK lev \in Int : lev = HZ!Smaller(HZ!Larger(1, cfg.leverage), asset.maxLev)
    BY DEF HZ!Smaller, HZ!Larger
  <2>1. 0 < lev /\ lev <= asset.maxLev
    BY DEF HZ!Smaller, HZ!Larger
  <2>2. n * mark <= free * q * lev
    BY <1>1, <1>2, <1>8
  <2>3. PICK f \in Int : f = free * q
    OBVIOUS
  <2>4. f * lev > 0
    BY <1>1, <1>6, <2>2, <2>3
  <2>5. f > 0
    BY <2>1, <2>4
  <2>6. f * lev <= f * asset.maxLev
    BY <2>1, <2>5
  <2> QED
    BY <1>1, <2>2, <2>3, <2>6
<1>9. n * mark >= cfg.least * q
  BY <1>1, <1>2
<1> QED
  BY <1>4, <1>5, <1>6, <1>7, <1>8, <1>9 DEF lots

\* A signal that is not stale leaves a trade to take: the price has not reached
\* the stop, what is left of the risk is at least the part the allowed drift does
\* not use up, and the price is within the cap of the entry (allowed_entry_drift;
\* its fraction of the risk is below one).
THEOREM DriftStaysShort ==
    ASSUME NEW entry \in Nat \ {0}, NEW sl \in Nat \ {0}, NEW mark \in Int, sl # entry,
           NEW cfg, cfg.fraction \in 0..999, cfg.cap \in Nat,
           ~HZ!Stale(entry, sl, mark, cfg)
    PROVE  /\ (sl < entry => sl < mark) /\ (entry < sl => mark < sl)
           /\ 1000 * HZ!Abs(mark - sl) >= (1000 - cfg.fraction) * HZ!Abs(entry - sl)
           /\ 1000 * HZ!Abs(entry - mark) <= cfg.cap * entry
<1>1. /\ HZ!Abs(entry - sl) \in Nat /\ HZ!Abs(entry - sl) > 0
      /\ HZ!Abs(entry - mark) \in Nat /\ HZ!Abs(mark - sl) \in Nat
  BY DEF HZ!Abs
<1> PICK risk \in Nat : risk = HZ!Abs(entry - sl)
  BY <1>1
<1> PICK away \in Nat : away = HZ!Abs(entry - mark)
  BY <1>1
<1> PICK f \in 0..999 : f = cfg.fraction
  OBVIOUS
<1> PICK a \in Int : a = f * risk
  OBVIOUS
<1> PICK b \in Int : b = cfg.cap * entry
  OBVIOUS
<1>2. HZ!AllowedDrift(entry, sl, cfg) = IF a <= b THEN a ELSE b
  BY DEF HZ!AllowedDrift, HZ!Smaller
<1>3. ~(1000 * away > HZ!AllowedDrift(entry, sl, cfg))
  BY DEF HZ!Stale
<1>4. 1000 * away <= a /\ 1000 * away <= b
  BY <1>2, <1>3
<1>5. a <= 999 * risk
  OBVIOUS
<1>6. away < risk
  BY <1>1, <1>4, <1>5
<1>7. (sl < entry => sl < mark) /\ (entry < sl => mark < sl) /\ HZ!Abs(mark - sl) >= risk - away
  BY <1>6 DEF HZ!Abs
<1>8. (1000 - cfg.fraction) * risk = 1000 * risk - a
  OBVIOUS
<1>9. HZ!Abs(mark - sl) \in Int
  BY DEF HZ!Abs
<1> QED
  BY <1>4, <1>7, <1>8, <1>9

\* plan_tp_split loses no lot and sends no order the exchange refuses: its two
\* parts make up the position, none is empty, each is worth the least at its own
\* target, and the first is the fraction asked for to the lot.
THEOREM SplitIsTheWhole ==
    ASSUME NEW lots \in Nat, NEW q \in Nat \ {0}, NEW tp1 \in Nat, NEW tp2 \in Nat,
           NEW fraction \in 1..99, NEW least \in Nat,
           NEW split, split = HZ!PlanTpSplit(lots, q, tp1, tp2, fraction, least), split # HZ!NoSplit
    PROVE  /\ split[1] + split[2] = lots /\ split[1] > 0 /\ split[2] > 0
           /\ split[1] * tp1 >= least * q /\ split[2] * tp2 >= least * q
           /\ 100 * split[1] <= fraction * lots /\ fraction * lots < 100 * (split[1] + 1)
<1> PICK n \in Nat : n = lots * fraction
  OBVIOUS
<1> DEFINE first == (lots * fraction) \div 100
           rest == lots - first
<1>1. first \in Nat /\ 100 * first <= n /\ n < 100 * (first + 1)
  OBVIOUS
<1>2. /\ split = <<first, rest>> /\ first # 0 /\ ~(rest <= 0)
      /\ ~(first * tp1 < least * q) /\ ~(rest * tp2 < least * q)
  BY DEF HZ!PlanTpSplit
<1>3. n = fraction * lots
  OBVIOUS
<1> HIDE DEF first
<1>4. first * tp1 \in Int /\ rest * tp2 \in Int /\ least * q \in Int
  BY <1>1
<1> QED
  BY <1>1, <1>2, <1>3, <1>4

\* placed_stop only gives room: below the signal's stop for a long and above it
\* for a short, by one mean range as long as that leaves a hundredth of the
\* price, and never at or below nothing (a stop of a hundred units or more, so
\* that its hundredth is one).
THEOREM StopOnlyMovesAway ==
    ASSUME NEW sl \in Nat, sl >= 100, NEW atr \in Nat
    PROVE  /\ 0 < HZ!PlacedStop(TRUE, sl, atr) /\ HZ!PlacedStop(TRUE, sl, atr) <= sl
           /\ HZ!PlacedStop(FALSE, sl, atr) >= sl
           /\ 100 * atr <= 99 * sl => HZ!PlacedStop(TRUE, sl, atr) = sl - atr
  BY DEF HZ!PlacedStop, HZ!Larger, HZ!NoPrice

-----------------------------------------------------------------------------
(* The price of an order.                                                  *)

\* the steps of five figures, and with them those of an asset's decimals
Tens == {1, 10, 100, 1000, 10000}
PriceSteps == Tens \union {100000, 1000000}

\* the highest price considered: below a thousand million, whose figures SigStep
\* is defined for, and a multiple of every step
Highest == 999000000

\* Five figures: the step is the smallest that leaves no more, and no smaller than
\* that.
LEMMA SigStepIs ==
    ASSUME NEW px \in Nat \ {0}, px <= Highest
    PROVE  /\ HZ!SigStep(px) \in Tens
           /\ px < 100000 * HZ!SigStep(px)
           /\ HZ!SigStep(px) # 1 => px >= 10000 * HZ!SigStep(px)
<1> DEFINE fit == {s \in Tens : px < 100000 * s}
<1>1. HZ!SigStep(px) = HZ!Min(fit)
  BY DEF HZ!SigStep, Tens
<1>2. 10000 \in fit
  BY DEF Tens, Highest
<1>3. \E m \in fit : \A s \in fit : m <= s
  BY <1>2 DEF Tens
<1>4. HZ!Min(fit) \in fit /\ \A s \in fit : HZ!Min(fit) <= s
  BY <1>3 DEF HZ!Min
<1>5. PICK m : m = HZ!Min(fit)
  OBVIOUS
<1> QED
  BY <1>1, <1>4, <1>5 DEF Tens

\* Rounding goes to a multiple of the step, no further than half a step, and
\* leaves a multiple alone.
LEMMA HalfUpIs ==
    ASSUME NEW n \in Nat, NEW step \in PriceSteps
    PROVE  /\ HZ!HalfUp(n, step) \in Nat /\ HZ!HalfUp(n, step) % step = 0
           /\ 2 * HZ!HalfUp(n, step) <= 2 * n + step /\ 2 * n - step < 2 * HZ!HalfUp(n, step)
           /\ n % step = 0 => HZ!HalfUp(n, step) = n
<1>1. CASE step = 1
  BY <1>1 DEF HZ!HalfUp
<1>2. CASE step = 10
  BY <1>2 DEF HZ!HalfUp
<1>3. CASE step = 100
  BY <1>3 DEF HZ!HalfUp
<1>4. CASE step = 1000
  BY <1>4 DEF HZ!HalfUp
<1>5. CASE step = 10000
  BY <1>5 DEF HZ!HalfUp
<1>6. CASE step = 100000
  BY <1>6 DEF HZ!HalfUp
<1>7. CASE step = 1000000
  BY <1>7 DEF HZ!HalfUp
<1> QED
  BY <1>1, <1>2, <1>3, <1>4, <1>5, <1>6, <1>7 DEF PriceSteps, Tens

LEMMA KeepsMultiples ==
    ASSUME NEW n \in Nat, NEW step \in PriceSteps, n % step = 0
    PROVE  HZ!HalfUp(n, step) = n
  BY HalfUpIs

\* Of two powers of ten the smaller divides the larger.
LEMMA TensDivide ==
    ASSUME NEW s \in PriceSteps, NEW t \in PriceSteps, s <= t, NEW n \in Nat, n % t = 0
    PROVE  n % s = 0
<1>1. CASE t = 1
  BY <1>1 DEF PriceSteps, Tens
<1>2. CASE t = 10
  BY <1>2 DEF PriceSteps, Tens
<1>3. CASE t = 100
  BY <1>3 DEF PriceSteps, Tens
<1>4. CASE t = 1000
  BY <1>4 DEF PriceSteps, Tens
<1>5. CASE t = 10000
  BY <1>5 DEF PriceSteps, Tens
<1>6. CASE t = 100000
  BY <1>6 DEF PriceSteps, Tens
<1>7. CASE t = 1000000
  BY <1>7 DEF PriceSteps, Tens
<1> QED
  BY <1>1, <1>2, <1>3, <1>4, <1>5, <1>6, <1>7 DEF PriceSteps, Tens

\* A rounded number does not pass a multiple it did not pass before.
LEMMA StaysBelow ==
    ASSUME NEW n \in Nat, NEW step \in PriceSteps, NEW m \in Nat, n <= m, m % step = 0
    PROVE  HZ!HalfUp(n, step) <= m
<1> PICK r \in Nat : r = HZ!HalfUp(n, step)
  BY HalfUpIs
<1>0. r % step = 0 /\ 2 * r <= 2 * n + step
  BY HalfUpIs
<1> SUFFICES ASSUME r > m PROVE FALSE
  OBVIOUS
<1>1. r >= m + step
  <2>1. CASE step = 1
    BY <1>0, <2>1
  <2>2. CASE step = 10
    BY <1>0, <2>2
  <2>3. CASE step = 100
    BY <1>0, <2>3
  <2>4. CASE step = 1000
    BY <1>0, <2>4
  <2>5. CASE step = 10000
    BY <1>0, <2>5
  <2>6. CASE step = 100000
    BY <1>0, <2>6
  <2>7. CASE step = 1000000
    BY <1>0, <2>7
  <2> QED
    BY <2>1, <2>2, <2>3, <2>4, <2>5, <2>6, <2>7 DEF PriceSteps, Tens
<1>2. step \in Nat \ {0}
  BY DEF PriceSteps, Tens
<1> QED
  BY <1>0, <1>1, <1>2

\* round_price gives what the exchange takes: a multiple of the asset's step with
\* no more than five figures, no further from the price than half of each step,
\* and rounding it again changes nothing, although it was rounded twice and a
\* price that gains a figure has a coarser step (steps up to a million units and
\* prices below a thousand million, the figures SigStep is defined for).
THEOREM PriceIsTaken ==
    ASSUME NEW px \in Nat \ {0}, px <= Highest, NEW step \in PriceSteps
    PROVE  LET rounded == HZ!RoundPrice(px, step) IN
           /\ rounded % step = 0 /\ rounded % HZ!SigStep(px) = 0
           /\ 2 * HZ!Abs(rounded - px) <= step + HZ!SigStep(px)
           /\ HZ!RoundPrice(rounded, step) = rounded
<1>0. Highest \in Nat /\ (\A s \in PriceSteps : Highest % s = 0)
  BY DEF Highest, PriceSteps, Tens
<1> PICK s \in Tens : s = HZ!SigStep(px)
  BY SigStepIs
<1>1. s \in PriceSteps /\ s \in Nat \ {0} /\ step \in Nat \ {0}
  BY DEF PriceSteps, Tens
<1> PICK fine \in Nat : fine = HZ!HalfUp(px, s)
  BY <1>1, HalfUpIs
<1> PICK r \in Nat : r = HZ!HalfUp(fine, step)
  BY HalfUpIs
<1>2. r = HZ!RoundPrice(px, step)
  BY DEF HZ!RoundPrice
<1>3. /\ fine % s = 0 /\ 2 * fine <= 2 * px + s /\ 2 * px - s < 2 * fine
      /\ fine % step = 0 => r = fine
      /\ r % step = 0 /\ 2 * r <= 2 * fine + step /\ 2 * fine - step < 2 * r
  BY <1>1, HalfUpIs
<1>4. r % s = 0
  <2>1. CASE step <= s
    BY <1>1, <1>3, <2>1, TensDivide
  <2>2. CASE s <= step
    BY <1>1, <1>3, <2>2, TensDivide
  <2> QED
    BY <1>1, <2>1, <2>2
<1>5. 2 * HZ!Abs(r - px) <= step + s
  BY <1>1, <1>3 DEF HZ!Abs
<1>6. fine <= 100000 * s
  <2>1. px <= 100000 * s /\ (100000 * s) % s = 0
    BY SigStepIs DEF Tens
  <2> QED
    BY <1>1, <2>1, StaysBelow
<1>7. ASSUME r > 0, r <= Highest PROVE HZ!RoundPrice(r, step) = r
  <2> PICK t \in Tens : t = HZ!SigStep(r)
    BY <1>7, SigStepIs
  <2>1. t \in PriceSteps /\ t \in Nat \ {0} /\ (t # 1 => r >= 10000 * t)
    BY <1>7, SigStepIs DEF PriceSteps, Tens
  <2>2. r % t = 0
    <3>1. CASE t <= s
      BY <1>1, <1>4, <2>1, <3>1, TensDivide
    <3>2. CASE s < t /\ step <= 100000 * s
      <4>1. r <= 100000 * s
        <5>1. (100000 * s) % step = 0
          BY <3>2 DEF PriceSteps, Tens
        <5> QED
          BY <1>1, <1>6, <5>1, StaysBelow
      <4>2. t # 1 /\ t >= 10 * s
        BY <3>2 DEF Tens
      <4>3. r = 10000 * t
        BY <1>1, <2>1, <4>1, <4>2
      <4> QED
        BY <4>3 DEF Tens
    <3>3. CASE step > 100000 * s
      <4>1. step = 1000000 /\ s = 1
        BY <3>3 DEF PriceSteps, Tens
      <4> QED
        BY <1>3, <1>6, <1>7, <4>1
    <3> QED
      BY <1>1, <2>1, <3>1, <3>2, <3>3
  <2>3. HZ!HalfUp(r, t) = r
    BY <2>1, <2>2, KeepsMultiples
  <2>4. HZ!HalfUp(r, step) = r
    BY <1>3, KeepsMultiples
  <2> QED
    BY <1>7, <2>3, <2>4 DEF HZ!RoundPrice
<1>8. r <= Highest
  <2>1. fine <= Highest
    BY <1>0, <1>1, StaysBelow
  <2> QED
    BY <1>0, <2>1, StaysBelow
<1>9. CASE r = 0
  BY <1>2, <1>3, <1>4, <1>5, <1>9 DEF HZ!RoundPrice, HZ!NoPrice
<1> QED
  BY <1>2, <1>3, <1>4, <1>5, <1>7, <1>8, <1>9

=============================================================================
