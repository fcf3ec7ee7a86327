------------------------- MODULE HLProtect_proofs ---------------------------
(***************************************************************************)
(* Proofs about a position's protection. Typed is the type invariant with  *)
(* the steps of each kind of pass. Locked says that a pass under way holds *)
(* the lock of its instance; what follows for a lone instance is           *)
(* exclusion. Each further property has its own inductive invariant:       *)
(* AtEntryOnce (every stop at entry has claimed its id), Cleared (the coin *)
(* is cleared before it is opened), Limits (the exits of a resting entry   *)
(* are of a later trade than anything a plan cancels) and Kept (a plan is  *)
(* about the position that is held, and spares its stop at entry).         *)
(***************************************************************************)
EXTENDS HLProtect, FiniteSetTheorems, TLAPS

\* Trades are numbered.
LEMMA TradesNumbered ==
    /\ Len(EntryPx) \in Nat /\ Trades = 1..Len(EntryPx)
    /\ Cardinality(Trades) = Len(EntryPx)
<1>1. Len(EntryPx) \in Nat /\ Trades = 1..Len(EntryPx)
  BY HLProtectAssumption DEF Trades
<1>2. 1 \in Int /\ Len(EntryPx) \in Int
      /\ (IF 1 > Len(EntryPx) THEN 0 ELSE Len(EntryPx) - 1 + 1) = Len(EntryPx)
  BY <1>1
<1>3. Cardinality(1..Len(EntryPx)) = Len(EntryPx)
  BY <1>2, FS_Interval
<1> QED
  BY <1>1, <1>3

\* A position is of its trades, three of each at most.
Proper(v) == v \in Positions /\ v.size <= 3 * v.trade

ManagerSteps == {"idle", "orders", "track", "move", "close", "protect", "cancel"}
AutoSteps == {"idle", "orders", "clear", "open", "sl", "tp1", "tp2"}

Views == [pos : Positions, orders : SUBSET Orders, entry : BOOLEAN]

WorldTyped ==
    /\ cfg \in Settings
    /\ pos \in Positions /\ Proper(pos)
    /\ orders \subseteq Orders /\ entry \in BOOLEAN
    /\ known \subseteq {"breakeven", "breakeven_close"} \X Nat
    /\ since \in Ages /\ filed \in [Instances -> Ages]
    /\ lock \in [Instances -> Passes \union {NoPass}]
    /\ mishaps \in 0..MaxMishaps

\* the locals of pass p
PassTyped(p) ==
    /\ pc[p] \in Steps /\ seen[p] \in Views /\ Proper(seen[p].pos) /\ todo[p] \in SUBSET Orders
    /\ p \in Managers => pc[p] \in ManagerSteps
    /\ p \in Autos => pc[p] \in AutoSteps
    /\ p \in Manuals => pc[p] \in {"idle", "open"}
    /\ pc[p] \in {"move", "close", "protect", "sl", "tp1", "tp2"} => seen[p].pos.size > 0

Tables ==
    /\ pc = [p \in Passes |-> pc[p]] /\ seen = [p \in Passes |-> seen[p]]
    /\ todo = [p \in Passes |-> todo[p]]

Typed == WorldTyped /\ Tables /\ \A p \in Passes : PassTyped(p)

\* The invariant of the proof is stronger than the type invariant.
LEMMA TypedIsTypeOK == Typed => TypeOK
<1> SUFFICES ASSUME Typed PROVE TypeOK
  OBVIOUS
<1>1. pc \in [Passes -> Steps] /\ todo \in [Passes -> SUBSET Orders]
  BY DEF Typed, Tables, PassTyped
<1>2. seen \in [Passes -> Views]
  BY DEF Typed, Tables, PassTyped
<1> QED
  BY <1>1, <1>2 DEF Typed, WorldTyped, TypeOK, Views

\* A position that is held belongs to a trade.
LEMMA ProperTrade ==
    ASSUME NEW v, Proper(v), v.size > 0
    PROVE  v.trade \in Trades /\ 3 \in 1..3 * Cardinality(Trades)
           /\ v.size \in 1..3 * Cardinality(Trades)
BY TradesNumbered DEF Proper, Positions

\* What is placed is an order.
LEMMA FreshOrder ==
    ASSUME NEW kind \in StopKinds \union {"tp1", "tp2"}, NEW trade \in Trades,
           NEW by \in Passes \union {NoPass}, NEW size \in 1..3 * Cardinality(Trades)
    PROVE  Fresh(kind, trade, by, size) \in Orders
BY DEF Fresh, Orders

\* Opening makes a position of the next trade.
LEMMA OpenedProper ==
    ASSUME Proper(pos), pos.trade + 1 \in Trades
    PROVE  Proper(Opened) /\ Opened.size > 0 /\ Opened.trade = pos.trade + 1
BY TradesNumbered DEF Proper, Positions, Opened

\* The value of a pass that has read nothing.
LEMMA NothingTyped == Nothing \in Views /\ Nothing.pos = Flat /\ Proper(Flat)
<1>1. Flat \in Positions /\ Proper(Flat)
  BY TradesNumbered DEF Flat, Positions, Proper
<1> QED
  BY <1>1 DEF Nothing, Views

\* The initial state is typed.
LEMMA TypedInit == Init => Typed
<1> SUFFICES ASSUME Init PROVE Typed
  OBVIOUS
<1>1. lock \in [Instances -> Passes \union {NoPass}] /\ mishaps \in 0..MaxMishaps
  BY HLProtectAssumption DEF Init
<1>2. WorldTyped
  BY <1>1, NothingTyped DEF Init, WorldTyped, Proper, Ages
<1>3. Tables
  BY DEF Init, Tables
<1>4. ASSUME NEW p \in Passes PROVE PassTyped(p)
  <2>1. pc[p] = "idle" /\ seen[p] = Nothing /\ todo[p] = {}
    BY DEF Init
  <2> QED
    BY <2>1, NothingTyped DEF PassTyped, Steps, ManagerSteps, AutoSteps
<1> QED
  BY <1>2, <1>3, <1>4 DEF Typed

\* The passes of P end, the others stay as they are.
LEMMA ReturnTyped ==
    ASSUME Typed, NEW P \in SUBSET Passes, Return(P)
    PROVE  /\ lock' \in [Instances -> Passes \union {NoPass}]
           /\ Tables' /\ \A p \in Passes : PassTyped(p)'
           /\ \A p \in Passes :
                /\ p \in P => pc'[p] = "idle" /\ seen'[p] = Nothing /\ todo'[p] = {}
                /\ p \notin P => pc'[p] = pc[p] /\ seen'[p] = seen[p] /\ todo'[p] = todo[p]
<1>1. lock' \in [Instances -> Passes \union {NoPass}]
  BY DEF Typed, WorldTyped, Return
<1>2. Tables'
  BY DEF Return, Tables
<1>3. \A p \in Passes :
        /\ p \in P => pc'[p] = "idle" /\ seen'[p] = Nothing /\ todo'[p] = {}
        /\ p \notin P => pc'[p] = pc[p] /\ seen'[p] = seen[p] /\ todo'[p] = todo[p]
  BY DEF Return
<1>4. ASSUME NEW p \in Passes PROVE PassTyped(p)'
  <2>1. CASE p \in P
    BY <1>3, <2>1, NothingTyped DEF PassTyped, Steps, ManagerSteps, AutoSteps
  <2>2. CASE p \notin P
    BY <1>3, <2>2 DEF Typed, PassTyped
  <2> QED
    BY <2>1, <2>2
<1> QED
  BY <1>1, <1>2, <1>3, <1>4

\* A pass that goes on, the others stay as they are.
LEMMA OneTyped ==
    ASSUME Typed, NEW p \in Passes, NEW q, NEW v, NEW S,
           pc' = [pc EXCEPT ![p] = q] , seen' = [seen EXCEPT ![p] = v],
           todo' = [todo EXCEPT ![p] = S],
           q \in Steps, v \in Views, Proper(v.pos), S \in SUBSET Orders,
           p \in Managers => q \in ManagerSteps, p \in Autos => q \in AutoSteps,
           p \in Manuals => q \in {"idle", "open"},
           q \in {"move", "close", "protect", "sl", "tp1", "tp2"} => v.pos.size > 0
    PROVE  Tables' /\ \A r \in Passes : PassTyped(r)'
<1>1. /\ pc'[p] = q /\ seen'[p] = v /\ todo'[p] = S
      /\ \A r \in Passes \ {p} : pc'[r] = pc[r] /\ seen'[r] = seen[r] /\ todo'[r] = todo[r]
  BY DEF Typed, Tables
<1>2. Tables'
  BY DEF Typed, Tables
<1>3. PassTyped(p)'
  BY <1>1 DEF PassTyped
<1>4. \A r \in Passes \ {p} : PassTyped(r)'
  BY <1>1 DEF Typed, PassTyped
<1> QED
  BY <1>2, <1>3, <1>4

\* ... with what it has seen and is about to cancel.
LEMMA OnTyped ==
    ASSUME Typed, NEW p \in Passes, NEW q \in Steps, Goto(p, q), UNCHANGED <<seen, todo>>,
           p \in Managers => q \in ManagerSteps, p \in Autos => q \in AutoSteps,
           p \in Manuals => q \in {"idle", "open"},
           q \in {"move", "close", "protect", "sl", "tp1", "tp2"} => seen[p].pos.size > 0
    PROVE  Tables' /\ \A r \in Passes : PassTyped(r)'
<1>1. seen' = [seen EXCEPT ![p] = seen[p]] /\ todo' = [todo EXCEPT ![p] = todo[p]]
  BY DEF Typed, Tables
<1>2. seen[p] \in Views /\ Proper(seen[p].pos) /\ todo[p] \in SUBSET Orders
  BY DEF Typed, PassTyped
<1> QED
  BY <1>1, <1>2, OneTyped DEF Goto

\* The readings of a pass keep the types.
LEMMA ReadTyped ==
    ASSUME Typed, NEW p \in Passes, ReadPosition(p) \/ ReadOrders(p) \/ ReadFails(p),
           cfg' = cfg
    PROVE  Typed'
<1> USE DEF exchange, store
<1>t. WorldTyped /\ PassTyped(p) /\ (p \in Managers \/ p \in Autos \/ p \in Manuals)
  BY DEF Typed, Passes
<1>1. ASSUME ReadPosition(p) PROVE Typed'
  <2> DEFINE v == [seen[p] EXCEPT !.pos = pos]
             q == IF p \in Manuals THEN "open" ELSE "orders"
  <2>1. pc' = [pc EXCEPT ![p] = q] /\ seen' = [seen EXCEPT ![p] = v]
        /\ todo' = [todo EXCEPT ![p] = todo[p]]
    BY <1>1 DEF ReadPosition, Goto, Typed, Tables
  <2>2. v \in Views /\ Proper(v.pos) /\ q \in Steps /\ todo[p] \in SUBSET Orders
    BY <1>t DEF WorldTyped, PassTyped, Views, Steps
  <2>3. /\ p \in Managers => q \in ManagerSteps /\ p \notin Manuals
        /\ p \in Autos => q \in AutoSteps /\ p \notin Manuals
        /\ p \in Manuals => q \in {"idle", "open"}
        /\ q \notin {"move", "close", "protect", "sl", "tp1", "tp2"}
    BY HLProtectAssumption DEF ManagerSteps, AutoSteps
  <2> HIDE DEF v, q
  <2>4. Tables' /\ \A r \in Passes : PassTyped(r)'
    BY <2>1, <2>2, <2>3, OneTyped
  <2>5. WorldTyped'
    BY <1>1, <1>t DEF ReadPosition, WorldTyped, Passes, Proper
  <2> QED
    BY <2>4, <2>5 DEF Typed
<1>2. ASSUME ReadOrders(p) PROVE Typed'
  <2>1. WorldTyped'
    BY <1>2, <1>t DEF ReadOrders, WorldTyped, Proper
  <2>2. CASE p \in Autos
    <3>1. pc' = [pc EXCEPT ![p] = "clear"] /\ todo' = [todo EXCEPT ![p] = orders]
          /\ seen' = [seen EXCEPT ![p] = seen[p]]
      BY <1>2, <2>2 DEF ReadOrders, Goto, Typed, Tables
    <3>2. p \notin Managers /\ p \notin Manuals
      BY <2>2, HLProtectAssumption
    <3>3. Tables' /\ \A r \in Passes : PassTyped(r)'
      BY <3>1, <3>2, <1>t, OneTyped DEF WorldTyped, PassTyped, Steps, AutoSteps
    <3> QED
      BY <2>1, <3>3 DEF Typed
  <2>3. CASE p \notin Autos
    <3> DEFINE v == [seen[p] EXCEPT !.orders = orders, !.entry = entry]
    <3>1. /\ pc' = [pc EXCEPT ![p] = "track"] /\ todo' = [todo EXCEPT ![p] = todo[p]]
          /\ seen' = [seen EXCEPT ![p] = v]
      BY <1>2, <2>3 DEF ReadOrders, Goto, Typed, Tables
    <3>2. v \in Views /\ v.pos = seen[p].pos
      BY <1>t DEF WorldTyped, PassTyped, Views
    <3>3. p \notin Manuals
      BY <1>2, <1>t DEF ReadOrders, PassTyped
    <3>4. Tables' /\ \A r \in Passes : PassTyped(r)'
      BY <2>3, <3>1, <3>2, <3>3, <1>t, OneTyped DEF PassTyped, Steps, ManagerSteps
    <3> QED
      BY <2>1, <3>4 DEF Typed
  <2> QED
    BY <2>2, <2>3
<1>3. ASSUME ReadFails(p) PROVE Typed'
  <2>1. mishaps' \in 0..MaxMishaps
    BY <1>3, <1>t, HLProtectAssumption DEF ReadFails, Mishap, WorldTyped
  <2>2. CASE p \in Autos
    <3>1. Tables' /\ \A r \in Passes : PassTyped(r)'
      BY <1>3, <2>2, <1>t, OnTyped, HLProtectAssumption DEF ReadFails, Continue, Steps, AutoSteps
    <3>2. lock' = lock
      BY <1>3, <2>2 DEF ReadFails, Continue
    <3>3. WorldTyped'
      BY <1>3, <1>t, <2>1, <3>2 DEF ReadFails, WorldTyped, Proper
    <3> QED
      BY <3>1, <3>3 DEF Typed
  <2>3. CASE p \notin Autos
    <3>1. Return({p})
      BY <1>3, <2>3 DEF ReadFails
    <3>2. /\ lock' \in [Instances -> Passes \union {NoPass}]
          /\ Tables' /\ \A r \in Passes : PassTyped(r)'
      BY <3>1, ReturnTyped
    <3>3. WorldTyped'
      BY <1>3, <1>t, <2>1, <3>2 DEF ReadFails, WorldTyped, Proper
    <3> QED
      BY <3>2, <3>3 DEF Typed
  <2> QED
    BY <2>2, <2>3
<1> QED
  BY <1>1, <1>2, <1>3

\* A step of pass p that ends it, or goes on with what it has seen, and
\* leaves the world typed.
LEMMA EndOrOn ==
    ASSUME Typed, NEW p \in Passes,
           Return({p}) \/ \E q \in Steps : Continue(p, q) /\ PassTyped(p)'
    PROVE  Tables' /\ \A r \in Passes : PassTyped(r)'
<1>1. CASE Return({p})
  BY <1>1, ReturnTyped
<1>2. ASSUME NEW q \in Steps, Continue(p, q), PassTyped(p)'
      PROVE  Tables' /\ \A r \in Passes : PassTyped(r)'
  <2>1. Tables'
    BY <1>2 DEF Continue, Goto, Typed, Tables
  <2>2. \A r \in Passes \ {p} : PassTyped(r)'
    BY <1>2 DEF Continue, Goto, Typed, Tables, PassTyped
  <2> QED
    BY <1>2, <2>1, <2>2
<1> QED
  BY <1>1, <1>2

\* A position of which some was closed is a position.
LEMMA ShrunkProper ==
    ASSUME NEW v, Proper(v), NEW left \in Nat, left <= v.size, NEW part \in BOOLEAN
    PROVE  Proper([v EXCEPT !.size = left, !.part = part])
<1> DEFINE w == [v EXCEPT !.size = left, !.part = part]
<1>1. v \in [size : 0..3 * Cardinality(Trades), trade : Trades \union {0}, part : BOOLEAN]
      /\ v.size <= 3 * v.trade
  BY DEF Proper, Positions
<1>2. left \in 0..3 * Cardinality(Trades) /\ left <= 3 * v.trade
  BY <1>1, TradesNumbered
<1>3. w \in [size : 0..3 * Cardinality(Trades), trade : Trades \union {0}, part : BOOLEAN]
      /\ w.size = left /\ w.trade = v.trade
  BY <1>1, <1>2
<1> QED
  BY <1>2, <1>3 DEF Proper, Positions

\* A position that is closed has none of it left.
LEMMA ClosedProper ==
    ASSUME NEW v, Proper(v) PROVE Proper([v EXCEPT !.size = 0, !.part = FALSE])
<1>1. 0 \in Nat /\ 0 <= v.size /\ FALSE \in BOOLEAN
  BY TradesNumbered DEF Proper, Positions
<1> QED
  BY <1>1, ShrunkProper

\* What a plan cancels are orders, and a plan that acts is about a position.
LEMMA PlansTyped ==
    ASSUME NEW v \in Views, NEW a \in Plans(v)
    PROVE  /\ a[1] \in {"cancel", "close", "move"} /\ a[2] \in SUBSET Orders
           /\ a[1] # "cancel" => v.pos.size > 0
<1>1. v.orders \in SUBSET Orders /\ v.pos.size \in Nat
  BY TradesNumbered DEF Views, Positions
<1>2. Orphans(v) \in SUBSET Orders /\ Stops(v.orders) \in SUBSET Orders
  BY <1>1 DEF Orphans, Stops
<1> QED
  BY <1>1, <1>2 DEF Plans

\* What a plan leads to.
LEMMA TrackGoes ==
    ASSUME NEW m, Track(m)
    PROVE  \E a \in Plans(seen[m]) :
              /\ todo' = [todo EXCEPT ![m] = a[2]]
              /\ Goto(m, a[1]) \/ (Unprotected(seen[m]) /\ Goto(m, "protect"))
<1>1. PICK first \in Ages, a \in Plans(seen[m]) :
        /\ Goto(m, IF Unprotected(seen[m]) /\ first = "grace" THEN "protect" ELSE a[1])
        /\ todo' = [todo EXCEPT ![m] = a[2]]
  BY DEF Track
<1>2. Goto(m, a[1]) \/ (Unprotected(seen[m]) /\ Goto(m, "protect"))
  BY <1>1
<1> QED
  BY <1>1, <1>2

\* Planning keeps the types.
LEMMA TrackTyped ==
    ASSUME Typed, NEW m \in Managers, Track(m), cfg' = cfg
    PROVE  Typed'
<1>t. WorldTyped /\ PassTyped(m) /\ m \in Passes /\ m \notin Autos /\ m \notin Manuals
  BY HLProtectAssumption DEF Typed, Passes
<1> DEFINE v == seen[m]
           w == [Nothing EXCEPT !.pos = v.pos]
<1>1. PICK a \in Plans(v) :
        /\ todo' = [todo EXCEPT ![m] = a[2]]
        /\ Goto(m, a[1]) \/ (Unprotected(v) /\ Goto(m, "protect"))
  BY TrackGoes
<1>2. v \in Views /\ Proper(v.pos) /\ v.pos \in Positions
  BY <1>t DEF PassTyped, Proper
<1>3. w \in Views /\ w.pos = v.pos
  BY <1>2, NothingTyped DEF Views
<1>4. /\ a[1] \in {"cancel", "close", "move"} /\ a[2] \in SUBSET Orders
      /\ a[1] # "cancel" => v.pos.size > 0
  BY <1>2, PlansTyped
<1>5. PICK q \in {"cancel", "close", "move", "protect"} :
        Goto(m, q) /\ (q # "cancel" => v.pos.size > 0)
  BY <1>1, <1>4 DEF Unprotected
<1>6. pc' = [pc EXCEPT ![m] = q] /\ seen' = [seen EXCEPT ![m] = w] /\ todo' = [todo EXCEPT ![m] = a[2]]
  BY <1>1, <1>5 DEF Track, Goto
<1>7. since' \in Ages /\ filed' \in [Instances -> Ages] /\ mishaps' \in 0..MaxMishaps
  <2>1. PICK first \in Ages : Tracks(m, first)
    BY DEF Track
  <2>2. cfg.on[m] \in Instances /\ [filed EXCEPT ![cfg.on[m]] = first] \in [Instances -> Ages]
    BY <1>t, HLProtectAssumption DEF WorldTyped
  <2> QED
    BY <1>t, <2>1, <2>2, HLProtectAssumption DEF Tracks, Fine, Mishap, WorldTyped
<1>8. WorldTyped'
  BY <1>t, <1>7 DEF exchange, Track, WorldTyped, Proper
<1> HIDE DEF v, w
<1>9. Tables' /\ \A r \in Passes : PassTyped(r)'
  BY <1>t, <1>2, <1>3, <1>4, <1>5, <1>6, OneTyped DEF Steps, ManagerSteps
<1> QED
  BY <1>8, <1>9 DEF Typed

\* The close at market leaves the position alone or takes some of it.
LEMMA CloseLeaves ==
    ASSUME NEW m, CloseRemainder(m)
    PROVE  /\ UNCHANGED <<orders, entry, since, filed>> /\ Return({m}) /\ pc[m] = "close"
           /\ Fine \/ Mishap("lost") \/ Mishap("reject") \/ Mishap("raise")
           /\ known' = known \/ known' = known \union {<<"breakeven_close", EntryPx[seen[m].pos.trade]>>}
<1>1. UNCHANGED <<orders, entry, since, filed>> /\ Return({m}) /\ pc[m] = "close"
  BY DEF CloseRemainder, store
<1> QED
  BY <1>1 DEF CloseRemainder

LEMMA CloseShrinks ==
    ASSUME Typed, NEW m, CloseRemainder(m), pos' # pos
    PROVE  \E left \in Nat :
              /\ left < pos.size /\ Held
              /\ pos' = [pos EXCEPT !.size = left, !.part = left > 0]
              /\ pos'.trade = pos.trade /\ pos'.size = left
<1>1. pos \in [size : 0..3 * Cardinality(Trades), trade : Trades \union {0}, part : BOOLEAN]
  BY DEF Typed, WorldTyped, Positions
<1>2. pos.size \in Nat
  BY <1>1, TradesNumbered
<1>3. PICK left \in 0..(pos.size - 1) : Held /\ pos' = [pos EXCEPT !.size = left, !.part = left > 0]
  BY DEF CloseRemainder
<1>4. left \in Nat /\ left < pos.size
  BY <1>2, <1>3
<1>5. pos'.trade = pos.trade /\ pos'.size = left
  BY <1>1, <1>3
<1> QED
  BY <1>3, <1>4, <1>5

\* The actions of a manager keep the types.
LEMMA ManageTyped ==
    ASSUME Typed, NEW m \in Managers, MoveStop(m) \/ Protect(m) \/ CloseRemainder(m), cfg' = cfg
    PROVE  Typed'
<1>t. WorldTyped /\ PassTyped(m) /\ m \in Passes /\ m \notin Autos /\ m \notin Manuals
  BY HLProtectAssumption DEF Typed, Passes
<1>1. pc[m] \in {"move", "protect", "close"}
  BY DEF MoveStop, Protect, CloseRemainder
<1>2. /\ seen[m].pos.trade \in Trades /\ seen[m].pos.size \in 1..3 * Cardinality(Trades)
  BY <1>t, <1>1, ProperTrade DEF PassTyped
<1>3. EntryPx[seen[m].pos.trade] \in Nat
  BY <1>2, HLProtectAssumption DEF Trades
<1>4. /\ Fresh("be", seen[m].pos.trade, m, seen[m].pos.size) \in Orders
      /\ Fresh("protect", seen[m].pos.trade, m, seen[m].pos.size) \in Orders
  BY <1>t, <1>2, FreshOrder DEF StopKinds
<1>5. mishaps' \in 0..MaxMishaps
  <2>1. Fine \/ \E fault \in AllFaults : Mishap(fault)
    BY CloseLeaves DEF MoveStop, Protect, AllFaults
  <2> QED
    BY <1>t, <2>1, HLProtectAssumption DEF Fine, Mishap, WorldTyped
<1>6. /\ orders' \subseteq Orders
      /\ known' \subseteq {"breakeven", "breakeven_close"} \X Nat
      /\ entry' = entry /\ since' = since /\ filed' = filed
  <2>1. CASE CloseRemainder(m)
    <3>1. <<"breakeven_close", EntryPx[seen[m].pos.trade]>> \in {"breakeven", "breakeven_close"} \X Nat
      BY <1>3
    <3>2. /\ orders' = orders /\ entry' = entry /\ since' = since /\ filed' = filed
          /\ known' \in {known, known \union {<<"breakeven_close", EntryPx[seen[m].pos.trade]>>}}
      BY <2>1, CloseLeaves
    <3> QED
      BY <1>t, <3>1, <3>2 DEF WorldTyped
  <2>2. CASE MoveStop(m) \/ Protect(m)
    BY <1>t, <1>3, <1>4, <2>2 DEF store, MoveStop, Protect, WorldTyped
  <2> QED
    BY <2>1, <2>2
<1>7. pos' \in Positions /\ Proper(pos')
  <2>1. ASSUME pos' # pos PROVE Proper(pos')
    <3>1. CloseRemainder(m)
      BY <2>1 DEF MoveStop, Protect
    <3>2. PICK left \in Nat : left < pos.size /\ pos' = [pos EXCEPT !.size = left, !.part = left > 0]
      BY <2>1, <3>1, CloseShrinks
    <3>3. left <= pos.size /\ (left > 0) \in BOOLEAN
      BY <1>t, <3>2, TradesNumbered DEF WorldTyped, Positions
    <3> QED
      BY <1>t, <3>2, <3>3, ShrunkProper DEF WorldTyped
  <2> QED
    BY <2>1, <1>t DEF WorldTyped, Proper
<1>8. Return({m}) \/ Continue(m, "cancel")
  BY DEF MoveStop, Protect, CloseRemainder
<1>9. lock' \in [Instances -> Passes \union {NoPass}] /\ Tables' /\ \A r \in Passes : PassTyped(r)'
  <2>1. CASE Return({m})
    BY <2>1, <1>t, ReturnTyped
  <2>2. CASE Continue(m, "cancel")
    <3>1. Tables' /\ \A r \in Passes : PassTyped(r)'
      BY <2>2, <1>t, OnTyped DEF Continue, Steps, ManagerSteps
    <3> QED
      BY <2>2, <3>1, <1>t DEF Continue, WorldTyped
  <2> QED
    BY <1>8, <2>1, <2>2
<1>10. WorldTyped'
  BY <1>t, <1>5, <1>6, <1>7, <1>9 DEF WorldTyped
<1> QED
  BY <1>9, <1>10 DEF Typed

\* Cancelling keeps the types.
LEMMA CancelTyped ==
    ASSUME Typed, NEW p \in Passes, CancelOne(p) \/ CancelsDone(p), cfg' = cfg
    PROVE  Typed'
<1> USE DEF exchange, store
<1>t. WorldTyped /\ PassTyped(p)
  BY DEF Typed
<1>1. ASSUME CancelOne(p) PROVE Typed'
  <2>1. PICK o \in todo[p] :
          /\ \/ Fine /\ orders' = {r \in orders : [r EXCEPT !.aged = o.aged] # o}
             \/ Mishap("cancel") /\ UNCHANGED orders
          /\ todo' = [todo EXCEPT ![p] = @ \ {o}]
    BY <1>1 DEF CancelOne
  <2>2. orders' \subseteq Orders /\ mishaps' \in 0..MaxMishaps
    BY <2>1, <1>t, HLProtectAssumption DEF WorldTyped, Fine, Mishap
  <2>3. todo[p] \ {o} \in SUBSET Orders
    BY <1>t DEF PassTyped
  <2>4. /\ pc' = [pc EXCEPT ![p] = pc[p]] /\ seen' = [seen EXCEPT ![p] = seen[p]]
        /\ todo' = [todo EXCEPT ![p] = todo[p] \ {o}]
    BY <1>1, <2>1 DEF CancelOne, Typed, Tables
  <2>5. Tables' /\ \A r \in Passes : PassTyped(r)'
    BY <2>3, <2>4, <1>t, OneTyped DEF PassTyped
  <2>6. WorldTyped'
    BY <1>1, <2>2, <1>t DEF CancelOne, WorldTyped, Proper
  <2> QED
    BY <2>5, <2>6 DEF Typed
<1>2. ASSUME CancelsDone(p) PROVE Typed'
  <2>1. CASE pc[p] = "clear"
    <3>1. Continue(p, "open") /\ p \notin Managers
      BY <1>2, <2>1, <1>t DEF CancelsDone, PassTyped, ManagerSteps
    <3>2. p \notin Manuals
      BY <2>1, <1>t DEF PassTyped
    <3>3. Tables' /\ \A r \in Passes : PassTyped(r)'
      BY <3>1, <3>2, OnTyped DEF Continue, Steps, AutoSteps
    <3>4. WorldTyped'
      BY <1>2, <3>1, <1>t DEF CancelsDone, Continue, Fine, WorldTyped, Proper
    <3> QED
      BY <3>3, <3>4 DEF Typed
  <2>2. CASE pc[p] # "clear"
    <3>1. Return({p})
      BY <1>2, <2>2 DEF CancelsDone
    <3>2. /\ lock' \in [Instances -> Passes \union {NoPass}]
          /\ Tables' /\ \A r \in Passes : PassTyped(r)'
      BY <3>1, ReturnTyped
    <3>3. WorldTyped'
      BY <1>2, <3>2, <1>t DEF CancelsDone, Fine, WorldTyped, Proper
    <3> QED
      BY <3>2, <3>3 DEF Typed
  <2> QED
    BY <2>1, <2>2
<1> QED
  BY <1>1, <1>2

\* Opening keeps the types.
LEMMA OpenTyped ==
    ASSUME Typed, NEW p \in Autos \union Manuals, Open(p), cfg' = cfg
    PROVE  Typed'
<1>t. WorldTyped /\ PassTyped(p) /\ p \in Passes /\ p \notin Managers
  BY HLProtectAssumption DEF Typed, Passes
<1>1. mishaps' \in 0..MaxMishaps /\ UNCHANGED <<orders, entry, known, since, filed>>
  BY <1>t, HLProtectAssumption DEF store, Open, Fine, Mishap, WorldTyped
<1>2. pos' \in Positions /\ Proper(pos')
  BY <1>t, OpenedProper DEF Open, WorldTyped, Proper
<1>3. CASE Return({p})
  BY <1>t, <1>1, <1>2, <1>3, ReturnTyped DEF Typed, WorldTyped
<1>4. CASE ~Return({p})
  <2> DEFINE v == [seen[p] EXCEPT !.pos = Opened]
  <2>1. /\ pos.trade + 1 \in Trades /\ p \in Autos /\ p \notin Manuals /\ lock' = lock
        /\ pc' = [pc EXCEPT ![p] = "sl"] /\ seen' = [seen EXCEPT ![p] = v]
        /\ todo' = [todo EXCEPT ![p] = todo[p]]
    BY <1>4, HLProtectAssumption DEF Open, Goto, Typed, Tables
  <2>2. Proper(Opened) /\ Opened \in Positions /\ Opened.size > 0
    BY <2>1, <1>t, OpenedProper DEF WorldTyped, Proper
  <2>3. v \in Views /\ v.pos = Opened
    BY <2>2, <1>t DEF PassTyped, Views
  <2>4. todo[p] \in SUBSET Orders
    BY <1>t DEF PassTyped
  <2> HIDE DEF v
  <2>5. Tables' /\ \A r \in Passes : PassTyped(r)'
    BY <1>t, <2>1, <2>2, <2>3, <2>4, OneTyped DEF Steps, AutoSteps
  <2>6. WorldTyped'
    BY <1>t, <1>1, <1>2, <2>1 DEF WorldTyped
  <2> QED
    BY <2>5, <2>6 DEF Typed
<1> QED
  BY <1>3, <1>4

\* Attaching exits keeps the types.
LEMMA AttachTyped ==
    ASSUME Typed, NEW p \in Autos, AttachStop(p) \/ AttachTargets(p), cfg' = cfg
    PROVE  Typed'
<1>t. WorldTyped /\ PassTyped(p) /\ p \in Passes /\ p \notin Managers /\ p \notin Manuals
  BY HLProtectAssumption DEF Typed, Passes
<1>1. ASSUME NEW kind \in {"sl", "tp1", "tp2"}, NEW size \in {1, 2, 3}, NEW next \in {"tp1", "tp2", "done"},
             Attach(p, kind, size, next)
      PROVE  Typed'
  <2>1. pc[p] = kind /\ UNCHANGED <<pos, entry, known, since, filed>>
    BY <1>1 DEF Attach, store
  <2>2. seen[p].pos.trade \in Trades /\ seen[p].pos.size > 0 /\ 3 \in 1..3 * Cardinality(Trades)
    BY <1>t, <2>1, ProperTrade DEF PassTyped
  <2>3. size \in 1..3 * Cardinality(Trades) /\ kind \in StopKinds \union {"tp1", "tp2"}
    BY <2>2, TradesNumbered DEF StopKinds
  <2>4. Fresh(kind, seen[p].pos.trade, p, size) \in Orders
    BY <1>t, <2>2, <2>3, FreshOrder
  <2>5. orders' \subseteq Orders
    BY <1>1, <1>t, <2>4 DEF Attach, WorldTyped
  <2>6. mishaps' \in 0..MaxMishaps
    BY <1>1, <1>t, HLProtectAssumption DEF Attach, Fine, Mishap, WorldTyped
  <2>7. Return({p}) \/ (next # "done" /\ Continue(p, next))
    BY <1>1 DEF Attach
  <2>8. /\ lock' \in [Instances -> Passes \union {NoPass}]
        /\ Tables' /\ \A r \in Passes : PassTyped(r)'
    <3>1. CASE Return({p})
      BY <1>t, <3>1, ReturnTyped
    <3>2. CASE next # "done" /\ Continue(p, next)
      <4>1. next \in Steps /\ next \in AutoSteps
        BY <3>2 DEF Steps, AutoSteps
      <4>2. Tables' /\ \A r \in Passes : PassTyped(r)'
        BY <1>t, <2>2, <3>2, <4>1, OnTyped DEF Continue
      <4> QED
        BY <1>t, <3>2, <4>2 DEF Continue, WorldTyped
    <3> QED
      BY <2>7, <3>1, <3>2
  <2>9. WorldTyped'
    BY <1>t, <2>1, <2>5, <2>6, <2>8 DEF WorldTyped, Proper
  <2> QED
    BY <2>8, <2>9 DEF Typed
<1> QED
  BY <1>1 DEF AttachStop, AttachTargets

\* Fills, limit entries, the owner and the clock keep the types.
LEMMA MarketTyped ==
    ASSUME Typed, cfg' = cfg,
           (\E o \in orders : Fills(o)) \/ RestEntry \/ EntryFills \/ OwnerCloses \/ TwoMinutes
    PROVE  Typed'
<1>t. WorldTyped
  BY DEF Typed
<1>1. UNCHANGED <<lock, locals, mishaps>>
  BY DEF Fills, RestEntry, EntryFills, OwnerCloses, TwoMinutes
<1>2. ASSUME NEW o \in orders, Fills(o) PROVE pos' \in Positions /\ Proper(pos') /\ orders' \subseteq Orders
  <2> DEFINE left == IF pos.size > o.size THEN pos.size - o.size ELSE 0
  <2>1. o.size \in Nat /\ pos.size \in Nat /\ pos.size <= 3 * Cardinality(Trades)
    BY <1>t, TradesNumbered DEF WorldTyped, Positions, Orders
  <2>2. left \in Nat /\ left <= pos.size
    BY <2>1
  <2>3. pos' = [pos EXCEPT !.size = left, !.part = left > 0] /\ orders' \subseteq orders
    BY <1>2 DEF Fills
  <2> HIDE DEF left
  <2>4. (left > 0) \in BOOLEAN
    OBVIOUS
  <2>5. Proper(pos')
    BY <1>t, <2>2, <2>3, <2>4, ShrunkProper DEF WorldTyped
  <2> QED
    BY <1>t, <2>3, <2>5 DEF WorldTyped, Proper
<1>3. ASSUME RestEntry PROVE orders' \subseteq Orders /\ entry' \in BOOLEAN /\ pos' = pos
  <2>1. pos.trade + 1 \in Trades /\ 3 \in 1..3 * Cardinality(Trades)
    BY <1>3, <1>t, TradesNumbered DEF RestEntry, WorldTyped, Positions
  <2>2. /\ Fresh("sl", pos.trade + 1, NoPass, 3) \in Orders
        /\ Fresh("tp1", pos.trade + 1, NoPass, 3) \in Orders
    BY <2>1, FreshOrder DEF StopKinds
  <2>3. orders' = orders \union {Fresh("sl", pos.trade + 1, NoPass, 3),
                               Fresh("tp1", pos.trade + 1, NoPass, 3)}
        /\ entry' = TRUE /\ pos' = pos
    BY <1>3 DEF RestEntry
  <2> HIDE DEF Fresh
  <2> QED
    BY <1>t, <2>2, <2>3 DEF WorldTyped
<1>4. ASSUME EntryFills \/ OwnerCloses PROVE pos' \in Positions /\ Proper(pos') /\ orders' = orders
  <2>1. Proper([pos EXCEPT !.size = 0, !.part = FALSE])
    BY <1>t, ClosedProper DEF WorldTyped
  <2> QED
    BY <1>4, <1>t, <2>1, OpenedProper DEF EntryFills, OwnerCloses, WorldTyped, Proper
<1>5. ASSUME TwoMinutes
      PROVE  orders' \subseteq Orders /\ pos' = pos /\ since' \in Ages /\ filed' \in [Instances -> Ages]
  <2>1. orders' \subseteq Orders /\ pos' = pos
    <3>1. orders' = {[o EXCEPT !.aged = TRUE] : o \in orders} /\ pos' = pos /\ orders \subseteq Orders
      BY <1>5, <1>t DEF TwoMinutes, WorldTyped
    <3>2. \A o \in Orders : [o EXCEPT !.aged = TRUE] \in Orders
      BY DEF Orders
    <3> QED
      BY <3>1, <3>2
  <2>2. \A age \in Ages : Later(age) \in Ages
    BY DEF Later, Ages
  <2>3. since' \in Ages /\ filed' \in [Instances -> Ages]
    BY <1>5, <1>t, <2>2 DEF TwoMinutes, WorldTyped
  <2> QED
    BY <2>1, <2>3
<1>6. WorldTyped'
  BY <1>t, <1>1, <1>2, <1>3, <1>4, <1>5
     DEF store, WorldTyped, Fills, RestEntry, EntryFills, OwnerCloses, TwoMinutes, Proper
<1> QED
  BY <1>1, <1>6 DEF locals, Typed, Tables, PassTyped

\* A crash keeps the types, and so does a file that is written anew.
LEMMA CrashTyped ==
    ASSUME Typed, cfg' = cfg, NEW i \in Instances, Crash(i) \/ Rewrite(i)
    PROVE  Typed'
<1>a. ASSUME Rewrite(i) PROVE Typed'
  <2>1. filed' \in [Instances -> Ages] /\ UNCHANGED <<pos, orders, entry, known, since, lock, locals, mishaps>>
    BY <1>a DEF Rewrite, Fine, exchange, Ages, Typed, WorldTyped
  <2> QED
    BY <2>1 DEF locals, Typed, WorldTyped, Tables, PassTyped, Proper
<1>b. SUFFICES ASSUME Crash(i) PROVE Typed'
  BY <1>a
<1>1. Return({p \in Passes : cfg.on[p] = i}) /\ {p \in Passes : cfg.on[p] = i} \in SUBSET Passes
  BY <1>b DEF Crash
<1>2. /\ lock' \in [Instances -> Passes \union {NoPass}]
      /\ Tables' /\ \A r \in Passes : PassTyped(r)'
  BY <1>1, ReturnTyped
<1>3. mishaps' \in 0..MaxMishaps
  BY <1>b, HLProtectAssumption DEF Crash, Mishap, Typed, WorldTyped
<1>4. WorldTyped'
  <2>1. filed' \in [Instances -> Ages]
    BY <1>b DEF Crash, Ages, Typed, WorldTyped
  <2> QED
    BY <1>b, <1>2, <1>3, <2>1 DEF Crash, exchange, Typed, WorldTyped, Proper
<1> QED
  BY <1>2, <1>4 DEF Typed

\* Every step keeps the types.
LEMMA TypedStep == Typed /\ [Next]_vars => Typed'
<1> SUFFICES ASSUME Typed, [Next]_vars PROVE Typed'
  OBVIOUS
<1>1. Managers \subseteq Passes /\ Autos \subseteq Passes /\ Manuals \subseteq Passes
  BY DEF Passes
<1>2. ASSUME NEW m \in Managers, ManagerStep(m), cfg' = cfg PROVE Typed'
  BY <1>1, <1>2, ReadTyped, TrackTyped, ManageTyped, CancelTyped DEF ManagerStep
<1>3. ASSUME NEW p \in Autos \union Manuals, OpenerStep(p), cfg' = cfg PROVE Typed'
  <2>1. AttachStop(p) \/ AttachTargets(p) => p \in Autos
    BY <1>1 DEF AttachStop, AttachTargets, Attach, Typed, PassTyped
  <2> QED
    BY <1>1, <1>3, <2>1, ReadTyped, CancelTyped, OpenTyped, AttachTyped DEF OpenerStep
<1>4. ASSUME UNCHANGED vars PROVE Typed'
  BY <1>4 DEF vars, exchange, store, locals, Typed, WorldTyped, Tables, PassTyped, Proper
<1> QED
  BY <1>2, <1>3, <1>4, MarketTyped, CrashTyped DEF Next

\* The type invariant: positions stay within their trades and every pass is at
\* a step of its own kind.
THEOREM TypeCorrect == Spec => []TypeOK
BY TypedInit, TypedStep, TypedIsTypeOK, PTL DEF Spec
-----------------------------------------------------------------------------
(* The lock of an instance.                                                *)

\* a pass that is under way holds the lock of its instance
Locked == \A p \in Passes : pc[p] # "idle" => p \in cfg.runs /\ lock[cfg.on[p]] = p

\* A pass takes the free lock and begins, ends, or is under way and goes on.
LEMMA PassGoesOn ==
    ASSUME NEW p \in Passes, ManagerStep(p) \/ OpenerStep(p)
    PROVE  \/ ReadPosition(p) \/ Return({p})
           \/ /\ pc[p] # "idle" /\ UNCHANGED lock
              /\ pc' = pc \/ \E q \in Steps : Goto(p, q)
<1> DEFINE Goal ==
      \/ ReadPosition(p) \/ Return({p})
      \/ /\ pc[p] # "idle" /\ UNCHANGED lock
         /\ pc' = pc \/ \E q \in Steps : Goto(p, q)
<1>1. ASSUME ReadOrders(p) \/ ReadFails(p) PROVE Goal
  BY <1>1 DEF ReadOrders, ReadFails, Continue, Steps
<1>2. ASSUME Track(p) PROVE Goal
  <2>1. PICK a \in Plans(seen[p]) :
          Goto(p, a[1]) \/ Goto(p, "protect")
    BY <1>2, TrackGoes
  <2>2. a[1] \in Steps
    BY DEF Plans, Steps
  <2>3. \E q \in Steps : Goto(p, q)
    BY <2>1, <2>2 DEF Steps
  <2> QED
    BY <1>2, <2>3 DEF Track
<1>3. ASSUME MoveStop(p) \/ Protect(p) \/ CloseRemainder(p) PROVE Goal
  BY <1>3 DEF MoveStop, Protect, CloseRemainder, Continue, Steps
<1>4. ASSUME CancelOne(p) \/ CancelsDone(p) PROVE Goal
  BY <1>4 DEF CancelOne, CancelsDone, Continue, Steps
<1>5. ASSUME Open(p) PROVE Goal
  BY <1>5 DEF Open, Steps
<1>6. ASSUME NEW kind \in {"sl", "tp1", "tp2"}, NEW size, NEW next \in {"tp1", "tp2", "done"},
             Attach(p, kind, size, next)
      PROVE  Goal
  BY <1>6 DEF Attach, Continue, Steps
<1> QED
  BY <1>1, <1>2, <1>3, <1>4, <1>5, <1>6 DEF ManagerStep, OpenerStep, AttachStop, AttachTargets

\* At first no pass is under way.
LEMMA LockedInit == Init => Locked
BY DEF Init, Locked

\* (hl_manage._run_lock) Every step keeps the lock of an instance with the pass
\* that is under way there.
LEMMA LockedStep == Typed /\ Locked /\ [Next]_vars => Locked'
<1> SUFFICES ASSUME Typed, Locked, [Next]_vars PROVE Locked'
  OBVIOUS
<1>1. /\ Managers \subseteq Passes /\ Autos \subseteq Passes /\ Manuals \subseteq Passes
      /\ NoPass \notin Passes /\ \A p \in Passes : cfg.on[p] \in Instances
  BY HLProtectAssumption DEF Passes, Typed, WorldTyped
<1>2. ASSUME NEW P \in SUBSET Passes, Return(P), cfg' = cfg PROVE Locked'
  <2> SUFFICES ASSUME NEW p \in Passes, pc'[p] # "idle"
               PROVE  p \in cfg'.runs /\ lock'[cfg'.on[p]] = p
    BY DEF Locked
  <2>1. p \notin P /\ pc[p] # "idle"
    BY <1>2 DEF Return
  <2> QED
    BY <1>1, <1>2, <2>1 DEF Locked, Return
<1>3. ASSUME NEW p \in Passes, NEW q, Goto(p, q), pc[p] # "idle", lock' = lock, cfg' = cfg
      PROVE  Locked'
  BY <1>3 DEF Goto, Locked, Typed, Tables
<1>4. ASSUME NEW p \in Passes, ReadPosition(p), cfg' = cfg PROVE Locked'
  <2>1. /\ p \in cfg.runs /\ lock[cfg.on[p]] = NoPass /\ lock' = [lock EXCEPT ![cfg.on[p]] = p]
        /\ \A r \in Passes \ {p} : pc'[r] = pc[r]
    BY <1>4 DEF ReadPosition, Goto, Typed, Tables
  <2>2. lock \in [Instances -> Passes \union {NoPass}]
    BY DEF Typed, WorldTyped
  <2> QED
    BY <1>1, <1>4, <2>1, <2>2 DEF Locked
<1>5. ASSUME NEW p \in Passes, ManagerStep(p) \/ OpenerStep(p), cfg' = cfg PROVE Locked'
  <2>1. CASE Return({p})
    BY <1>2, <1>5, <2>1
  <2>2. CASE pc' = pc /\ UNCHANGED lock
    BY <1>5, <2>2 DEF Locked
  <2> QED
    BY <1>3, <1>4, <1>5, <2>1, <2>2, PassGoesOn
<1>6. ASSUME NEW i \in Instances, Crash(i), cfg' = cfg PROVE Locked'
  <2>1. {p \in Passes : cfg.on[p] = i} \in SUBSET Passes
    OBVIOUS
  <2> QED
    BY <1>2, <1>6, <2>1 DEF Crash
<1>7. ASSUME UNCHANGED <<pc, lock, cfg>> PROVE Locked'
  BY <1>7 DEF Locked
<1>8. (\E o \in orders : Fills(o)) \/ RestEntry \/ EntryFills \/ OwnerCloses \/ TwoMinutes
        => UNCHANGED <<pc, lock>>
  BY DEF Fills, RestEntry, EntryFills, OwnerCloses, TwoMinutes, locals
<1>r. (\E i \in Instances : Rewrite(i)) => UNCHANGED <<pc, lock>>
  BY DEF Rewrite, locals
<1>9. UNCHANGED vars => UNCHANGED <<pc, lock, cfg>>
  BY DEF vars, locals
<1> QED
  BY <1>1, <1>5, <1>6, <1>7, <1>8, <1>r, <1>9 DEF Next

\* Two passes of one instance are never under way together.
LEMMA OneAtATime ==
    ASSUME Locked, NEW p \in Passes, NEW q \in Passes, cfg.on[p] = cfg.on[q],
           pc[p] # "idle", pc[q] # "idle"
    PROVE  p = q
BY DEF Locked

\* (hl_manage) A manager and a pass that opens in the same instance exclude
\* each other, so the exits that are still being placed are left alone.
THEOREM EntryIsLeftAlone ==
    (\A s \in Settings, m \in Managers, p \in Autos : s.on[m] = s.on[p])
        => (Spec => []FreshEntryUntouched)
<1> SUFFICES ASSUME \A s \in Settings, m \in Managers, p \in Autos : s.on[m] = s.on[p]
             PROVE  Spec => []FreshEntryUntouched
  OBVIOUS
<1>1. Typed /\ Locked => FreshEntryUntouched
  <2> SUFFICES ASSUME Typed, Locked, NEW m \in Managers, NEW p \in Autos, pc[m] = "protect",
                      pc[p] \in {"sl", "tp1", "tp2"}
               PROVE  FALSE
    BY DEF FreshEntryUntouched
  <2>1. m # p /\ m \in Passes /\ p \in Passes /\ cfg.on[m] = cfg.on[p]
    BY HLProtectAssumption DEF Passes, Typed, WorldTyped
  <2> QED
    BY <2>1, OneAtATime
<1>2. Init => Typed /\ Locked
  BY TypedInit, LockedInit
<1>3. Typed /\ Locked /\ [Next]_vars => (Typed /\ Locked)'
  BY TypedStep, LockedStep
<1> QED
  BY <1>1, <1>2, <1>3, PTL DEF Spec

-----------------------------------------------------------------------------
(* Stops at entry.                                                         *)

\* The exchange has seen the id of every stop at entry, and it refuses a
\* second one with the same id.
IdsKnown == \A o \in orders : o.kind = "be" => <<"breakeven", EntryPx[o.trade]>> \in known

AtEntryOnce == IdsKnown /\ OneStopAtEntry

\* Every step keeps the claimed ids and the stops at entry together.
LEMMA AtEntryOnceStep == Typed /\ AtEntryOnce /\ [Next]_vars => AtEntryOnce'
<1> SUFFICES ASSUME Typed, AtEntryOnce, [Next]_vars PROVE AtEntryOnce'
  OBVIOUS
<1> USE DEF AtEntryOnce, exchange, store
\* orders that go, or come and are no stops at entry
<1>1. ASSUME known \subseteq known', \A o \in orders' : o \in orders \/ o.kind # "be"
      PROVE  AtEntryOnce'
  BY <1>1 DEF IdsKnown, OneStopAtEntry
<1>2. ASSUME NEW m \in Managers, MoveStop(m) PROVE AtEntryOnce'
  <2> DEFINE stop == Fresh("be", seen[m].pos.trade, m, seen[m].pos.size)
             id == <<"breakeven", EntryPx[seen[m].pos.trade]>>
  <2>1. CASE UNCHANGED <<orders, known>>
    BY <1>1, <2>1
  <2>2. CASE orders' = orders \union {stop} /\ known' = known \union {id} /\ id \notin known
    <3>1. stop.kind = "be" /\ stop.trade = seen[m].pos.trade
      BY DEF Fresh
    <3>2. \A o \in orders : o.kind = "be" => o.trade # stop.trade
      BY <2>2, <3>1 DEF IdsKnown
    <3> HIDE DEF stop
    <3> QED
      BY <2>2, <3>1, <3>2 DEF IdsKnown, OneStopAtEntry
  <2> QED
    BY <1>2, <2>1, <2>2 DEF MoveStop
<1>3. ASSUME NEW m \in Managers, Protect(m) \/ CloseRemainder(m) PROVE AtEntryOnce'
  <2>1. \A o \in orders' : o \in orders \/ o.kind # "be"
    <3>1. CloseRemainder(m) => orders' = orders
      BY CloseLeaves
    <3> QED
      BY <1>3, <3>1 DEF Protect, Fresh
  <2> QED
    BY <1>1, <1>3, <2>1, CloseLeaves DEF Protect
<1>4. ASSUME NEW p \in Passes, ReadPosition(p) \/ ReadOrders(p) \/ ReadFails(p) \/ Track(p)
             \/ CancelOne(p) \/ CancelsDone(p) \/ Open(p)
      PROVE  AtEntryOnce'
  BY <1>1, <1>4 DEF ReadPosition, ReadOrders, ReadFails, Track, CancelOne, CancelsDone, Open
<1>5. ASSUME NEW p \in Passes, AttachStop(p) \/ AttachTargets(p) PROVE AtEntryOnce'
  <2>1. /\ known' = known
        /\ \E kind \in {"sl", "tp1", "tp2"}, size \in {1, 2, 3} :
              orders' = orders \/ orders' = orders \union {Fresh(kind, seen[p].pos.trade, p, size)}
    BY <1>5 DEF AttachStop, AttachTargets, Attach
  <2>2. \A o \in orders' : o \in orders \/ o.kind # "be"
    BY <2>1 DEF Fresh
  <2> QED
    BY <1>1, <2>1, <2>2
<1>6. ASSUME (\E o \in orders : Fills(o)) \/ RestEntry \/ EntryFills \/ OwnerCloses PROVE AtEntryOnce'
  <2>1. known' = known
    BY <1>6 DEF Fills, RestEntry, EntryFills, OwnerCloses
  <2>2. orders' \subseteq orders \/ RestEntry
    BY <1>6 DEF Fills, EntryFills, OwnerCloses
  <2>3. RestEntry => \A o \in orders' : o \in orders \/ o.kind # "be"
    BY DEF RestEntry, Fresh
  <2> QED
    BY <1>1, <2>1, <2>2, <2>3
<1>7. ASSUME TwoMinutes PROVE AtEntryOnce'
  <2>1. orders' = {[o EXCEPT !.aged = TRUE] : o \in orders} /\ known' = known
    BY <1>7 DEF TwoMinutes
  <2>2. \A o \in orders : [o EXCEPT !.aged = TRUE].kind = o.kind /\ [o EXCEPT !.aged = TRUE].trade = o.trade
    BY DEF Typed, WorldTyped, Orders
  <2>3. ASSUME NEW o \in orders', o.kind = "be"
        PROVE  <<"breakeven", EntryPx[o.trade]>> \in known'
    <3>1. PICK o0 \in orders : o = [o0 EXCEPT !.aged = TRUE]
      BY <2>1
    <3> QED
      BY <2>1, <2>2, <2>3, <3>1 DEF IdsKnown
  <2>4. ASSUME NEW o \in orders', NEW r \in orders', o.kind = "be", r.kind = "be", o.trade = r.trade
        PROVE  o = r
    <3>1. PICK o0 \in orders : o = [o0 EXCEPT !.aged = TRUE]
      BY <2>1
    <3>2. PICK r0 \in orders : r = [r0 EXCEPT !.aged = TRUE]
      BY <2>1
    <3>3. o0 = r0
      BY <2>2, <2>4, <3>1, <3>2 DEF OneStopAtEntry
    <3> QED
      BY <3>1, <3>2, <3>3
  <2> QED
    BY <2>3, <2>4 DEF IdsKnown, OneStopAtEntry
<1>8. ASSUME NEW i \in Instances, Crash(i) \/ Rewrite(i) PROVE AtEntryOnce'
  BY <1>1, <1>8 DEF Crash, Rewrite
<1>9. ASSUME UNCHANGED vars PROVE AtEntryOnce'
  BY <1>1, <1>9 DEF vars
<1>10. Managers \subseteq Passes /\ Autos \subseteq Passes /\ Manuals \subseteq Passes
  BY DEF Passes
<1> QED
  BY <1>2, <1>3, <1>4, <1>5, <1>6, <1>7, <1>8, <1>9, <1>10 DEF Next, ManagerStep, OpenerStep

\* (hl_manage.run) "duplicate" instead of a second stop at entry, whatever
\* runs overlap, fail or are repeated.
THEOREM StopAtEntryIsOne == Spec => []OneStopAtEntry
<1>1. Init => Typed /\ AtEntryOnce
  BY TypedInit DEF Init, AtEntryOnce, IdsKnown, OneStopAtEntry
<1>2. Typed /\ AtEntryOnce /\ [Next]_vars => (Typed /\ AtEntryOnce)'
  BY TypedStep, AtEntryOnceStep
<1> QED
  BY <1>1, <1>2, PTL DEF Spec, AtEntryOnce

-----------------------------------------------------------------------------
(* Targets of an earlier position.                                         *)

\* Whoever opens takes the leftovers away first, one pass at a time.
Clears(s) ==
    /\ ~s.limits /\ s.faults \intersect {"cancel", "read"} = {}
    /\ s.runs \intersect Manuals = {}
    /\ \A p, q \in s.runs \intersect Autos : s.on[p] = s.on[q]

Cleared ==
    /\ ~entry
    /\ \A p \in Autos :
        /\ pc[p] \in {"orders", "clear", "open"} => ~Held
        /\ pc[p] = "clear" => Targets(orders) \subseteq todo[p]
        /\ pc[p] = "open" => Targets(orders) = {}
        /\ pc[p] \in {"sl", "tp1", "tp2"} => seen[p].pos.trade = pos.trade
    /\ Held => \A o \in Targets(orders) : o.trade = pos.trade

\* At most one opening pass is under way.
LEMMA OneAuto ==
    ASSUME Locked, Clears(cfg), NEW p \in Autos, NEW q \in Autos, pc[p] # "idle", pc[q] # "idle"
    PROVE  p = q
BY OneAtATime DEF Locked, Clears, Passes

\* Every step keeps the coin cleared before the next position opens.
LEMMA ClearedStep ==
    ASSUME Typed, Locked, Clears(cfg), Cleared, [Next]_vars PROVE Cleared'
<1> USE DEF exchange, store
<1>t. /\ Typed' /\ Locked' /\ cfg' = cfg /\ Clears(cfg')
      /\ Autos \subseteq Passes /\ Managers \subseteq Passes /\ Manuals \subseteq Passes
  BY TypedStep, LockedStep DEF Next, vars, Passes
<1>s. pos.size \in Nat /\ pos'.size \in Nat
  BY <1>t, TradesNumbered DEF Typed, WorldTyped, Positions
\* the position stays or shrinks, targets go, and no opening pass moves
<1>1. ASSUME pos'.trade = pos.trade, pos'.size <= pos.size, entry' = entry,
             Targets(orders') \subseteq Targets(orders),
             \A q \in Autos : pc'[q] = "idle" \/
                (pc'[q] = pc[q] /\ seen'[q] = seen[q] /\ todo'[q] = todo[q])
      PROVE  Cleared'
  <2>1. Held' => Held
    BY <1>1, <1>s DEF Held
  <2> QED
    BY <1>1, <2>1 DEF Cleared
<1>2. ASSUME NEW m \in Managers, ManagerStep(m) PROVE Cleared'
  <2>1. m \notin Autos /\ m \in Passes
    BY <1>t, HLProtectAssumption
  <2>2. \A q \in Autos : pc'[q] = pc[q] /\ seen'[q] = seen[q] /\ todo'[q] = todo[q]
    BY <1>2, <2>1, <1>t DEF ManagerStep, ReadPosition, ReadOrders, ReadFails, Track, MoveStop,
         Protect, CloseRemainder, CancelOne, CancelsDone, Continue, Goto, Return, Typed, Tables
  <2>3. entry' = entry /\ pos'.trade = pos.trade /\ pos'.size <= pos.size
    <3>1. entry' = entry /\ (pos' = pos \/ CloseRemainder(m))
      BY <1>2 DEF ManagerStep, ReadPosition, ReadOrders, ReadFails, Track, MoveStop,
           Protect, CloseRemainder, CancelOne, CancelsDone
    <3>2. ASSUME pos' # pos PROVE pos'.trade = pos.trade /\ pos'.size <= pos.size
      <4>1. PICK left \in Nat : left < pos.size /\ pos'.trade = pos.trade /\ pos'.size = left
        BY <3>1, <3>2, CloseShrinks
      <4> QED
        BY <4>1, <1>s
    <3> QED
      BY <3>1, <3>2, <1>s
  <2>4. Targets(orders') \subseteq Targets(orders)
    <3>1. CloseRemainder(m) => orders' = orders
      BY CloseLeaves
    <3> QED
      BY <1>2, <3>1 DEF ManagerStep, ReadPosition, ReadOrders, ReadFails, Track, MoveStop,
         Protect, CancelOne, CancelsDone, Targets, Fresh
  <2> QED
    BY <1>1, <2>2, <2>3, <2>4
<1>3. ASSUME NEW p \in Manuals, OpenerStep(p) PROVE Cleared'
  <2>1. p \in Passes /\ pc[p] = "idle" /\ p \notin cfg.runs
    BY <1>t DEF Locked, Clears
  <2> QED
    BY <1>3, <2>1 DEF OpenerStep, ReadPosition, ReadOrders, ReadFails, CancelOne, CancelsDone, Open,
         AttachStop, AttachTargets, Attach
<1>4. ASSUME NEW p \in Autos, OpenerStep(p) PROVE Cleared'
  <2>1. p \in Passes /\ p \notin Managers /\ p \notin Manuals
    BY <1>t, HLProtectAssumption
  <2>2. \A q \in Autos \ {p} : pc'[q] = "idle" \/
           (pc'[p] = "idle" /\ pc'[q] = pc[q] /\ seen'[q] = seen[q] /\ todo'[q] = todo[q])
    <3>1. \A q \in Autos \ {p} : pc'[p] = "idle" \/ pc'[q] = "idle"
      BY <1>t, OneAuto DEF Locked, Clears, Passes
    <3>2. \A q \in Autos \ {p} : pc'[q] = pc[q] /\ seen'[q] = seen[q] /\ todo'[q] = todo[q]
      BY <1>4, <2>1, <1>t DEF OpenerStep, ReadPosition, ReadOrders, ReadFails, CancelOne,
           CancelsDone, Open, AttachStop, AttachTargets, Attach, Continue, Goto, Return, Typed, Tables
    <3> QED
      BY <3>1, <3>2
  \* the pass ends
  <2>3. ASSUME pc'[p] = "idle", pos' = pos, entry' = entry, Targets(orders') \subseteq Targets(orders)
        PROVE  Cleared'
    BY <1>1, <1>s, <2>2, <2>3
  \* or goes on, alone
  <2>4. ASSUME pc'[p] # "idle", entry' = entry,
               pc'[p] \in {"orders", "clear", "open"} => ~Held',
               pc'[p] = "clear" => Targets(orders') \subseteq todo'[p],
               pc'[p] = "open" => Targets(orders') = {},
               pc'[p] \in {"sl", "tp1", "tp2"} => seen'[p].pos.trade = pos'.trade,
               Held' => \A o \in Targets(orders') : o.trade = pos'.trade
        PROVE  Cleared'
    BY <2>2, <2>4 DEF Cleared
  <2>5. CASE ReadPosition(p)
    <3>1. pc'[p] = "orders" /\ ~Held /\ UNCHANGED <<pos, orders, entry>>
      BY <2>1, <2>5, <1>s, <1>t DEF ReadPosition, Goto, Held, Typed, Tables
    <3> QED
      BY <2>4, <3>1 DEF Held
  <2>6. CASE ReadOrders(p)
    <3>1. /\ pc[p] = "orders" /\ pc'[p] = "clear" /\ todo'[p] = orders /\ UNCHANGED <<pos, orders, entry>>
      BY <2>1, <2>6 DEF ReadOrders, Goto, Typed, Tables
    <3>2. ~Held
      BY <3>1 DEF Cleared
    <3> QED
      BY <2>4, <3>1, <3>2 DEF Held, Targets
  <2>7. CASE ReadFails(p)
    BY <2>7 DEF ReadFails, Mishap, Clears
  <2>8. CASE CancelOne(p)
    <3>1. pc[p] = "clear" /\ pc' = pc /\ UNCHANGED <<pos, entry>>
      BY <2>8, <2>1 DEF CancelOne, Typed, PassTyped, AutoSteps
    <3>2. PICK o \in todo[p] : /\ orders' = {r \in orders : [r EXCEPT !.aged = o.aged] # o}
                               /\ todo' = [todo EXCEPT ![p] = @ \ {o}]
      BY <2>8 DEF CancelOne, Mishap, Clears
    <3>3. ~Held /\ Targets(orders) \subseteq todo[p] /\ todo'[p] = todo[p] \ {o}
      BY <3>1, <3>2, <2>1 DEF Cleared, Typed, Tables
    <3>4. o \notin orders'
      <4>1. o \in orders => [o EXCEPT !.aged = o.aged] = o
        BY DEF Typed, WorldTyped, Orders
      <4> QED
        BY <3>2, <4>1
    <3>5. Targets(orders') \subseteq todo'[p]
      BY <3>2, <3>3, <3>4 DEF Targets
    <3> QED
      BY <2>4, <3>1, <3>3, <3>5 DEF Held
  <2>9. CASE CancelsDone(p)
    <3>1. pc[p] = "clear" /\ todo[p] = {} /\ UNCHANGED <<pos, orders, entry>> /\ pc'[p] = "open"
      BY <2>9, <2>1 DEF CancelsDone, Continue, Goto, Typed, Tables, PassTyped, AutoSteps
    <3>2. ~Held /\ Targets(orders) = {}
      BY <3>1 DEF Cleared
    <3> QED
      BY <2>4, <3>1, <3>2 DEF Held
  <2>10. CASE Open(p)
    <3>1. pc[p] = "open" /\ ~Held /\ Targets(orders) = {} /\ UNCHANGED <<orders, entry>>
      BY <2>10 DEF Open, Cleared
    <3>2. Targets(orders') = {}
      BY <3>1 DEF Targets
    <3>3. CASE pc'[p] = "idle"
      <4>1. \A q \in Autos : pc'[q] = "idle"
        <5>1. \A q \in Autos \ {p} : pc[q] = "idle"
          BY <3>1, OneAuto
        <5> QED
          BY <2>2, <3>3, <5>1
      <4> QED
        BY <3>1, <3>2, <4>1 DEF Cleared
    <3>4. CASE pc'[p] # "idle"
      <4>1. pc'[p] = "sl" /\ seen'[p].pos = pos'
        BY <2>1, <2>10, <3>4 DEF Open, Return, Goto, Typed, Tables, PassTyped, Views
      <4> QED
        BY <2>4, <3>1, <3>2, <3>4, <4>1
    <3> QED
      BY <3>3, <3>4
  <2>11. ASSUME NEW kind \in {"sl", "tp1", "tp2"}, NEW size, NEW next \in {"tp1", "tp2", "done"},
                Attach(p, kind, size, next)
         PROVE  Cleared'
    <3>1. pc[p] = kind /\ UNCHANGED <<pos, entry>>
          /\ (orders' = orders \/ orders' = orders \union {Fresh(kind, seen[p].pos.trade, p, size)})
          /\ (Return({p}) \/ (next # "done" /\ Continue(p, next)))
      BY <2>11 DEF Attach
    <3>2. seen[p].pos.trade = pos.trade
      BY <3>1 DEF Cleared
    <3>3. Fresh(kind, seen[p].pos.trade, p, size).trade = pos.trade
      BY <3>2 DEF Fresh
    <3>4. Held' => \A o \in Targets(orders') : o.trade = pos'.trade
      BY <3>1, <3>3 DEF Cleared, Targets, Held
    <3>5. CASE Return({p})
      <4>1. \A q \in Autos : pc'[q] = "idle"
        <5>1. \A q \in Autos \ {p} : pc[q] = "idle"
          BY <3>1, OneAuto
        <5> QED
          BY <1>t, <3>5, <5>1 DEF Return
      <4> QED
        BY <3>1, <3>4, <4>1 DEF Cleared
    <3>6. CASE next # "done" /\ Continue(p, next)
      <4>1. pc'[p] = next /\ seen' = seen
        BY <3>6, <2>1 DEF Continue, Goto, Typed, Tables
      <4> QED
        BY <2>4, <3>1, <3>2, <3>4, <3>6, <4>1
    <3> QED
      BY <3>1, <3>5, <3>6
  <2> QED
    BY <1>4, <2>5, <2>6, <2>7, <2>8, <2>9, <2>10, <2>11 DEF OpenerStep, AttachStop, AttachTargets
<1>5. ASSUME NEW o \in orders, Fills(o) PROVE Cleared'
  <2> DEFINE left == IF pos.size > o.size THEN pos.size - o.size ELSE 0
  <2>1. pos' = [pos EXCEPT !.size = left, !.part = left > 0] /\ orders' \subseteq orders
        /\ entry' = entry /\ UNCHANGED locals
    BY <1>5 DEF Fills
  <2>2. left <= pos.size
    BY <1>s DEF Typed, WorldTyped, Orders
  <2> HIDE DEF left
  <2>3. pos'.trade = pos.trade /\ pos'.size = left
    BY <2>1 DEF Typed, WorldTyped, Positions
  <2>4. Targets(orders') \subseteq Targets(orders)
    BY <2>1 DEF Targets
  <2> QED
    BY <1>1, <2>1, <2>2, <2>3, <2>4 DEF locals
<1>6. ASSUME RestEntry \/ EntryFills PROVE Cleared'
  BY <1>6 DEF RestEntry, EntryFills, Cleared, Clears
<1>7. ASSUME OwnerCloses PROVE Cleared'
  <2>1. pos'.trade = pos.trade /\ pos'.size = 0
    BY <1>7 DEF OwnerCloses, Typed, WorldTyped, Positions
  <2> QED
    BY <1>1, <1>7, <1>s, <2>1 DEF OwnerCloses, locals
<1>8. ASSUME TwoMinutes PROVE Cleared'
  <2>1. /\ UNCHANGED <<pc, pos, entry>> /\ \A p \in Passes : pc[p] = "idle"
        /\ orders' = {[o EXCEPT !.aged = TRUE] : o \in orders}
    BY <1>8 DEF TwoMinutes, locals
  <2>2. \A o \in orders : [o EXCEPT !.aged = TRUE].kind = o.kind /\ [o EXCEPT !.aged = TRUE].trade = o.trade
    BY DEF Typed, WorldTyped, Orders
  <2>3. ASSUME Held', NEW o \in Targets(orders') PROVE o.trade = pos'.trade
    <3>1. PICK r \in orders : o = [r EXCEPT !.aged = TRUE]
      BY <2>1 DEF Targets
    <3> QED
      BY <2>1, <2>2, <2>3, <3>1 DEF Targets, Held, Cleared
  <2>4. \A p \in Autos : pc'[p] = "idle"
    BY <1>t, <2>1
  <2> QED
    BY <2>1, <2>3, <2>4 DEF Cleared
<1>9. ASSUME NEW i \in Instances, Crash(i) \/ Rewrite(i) PROVE Cleared'
  <2>1. /\ UNCHANGED <<pos, orders, entry>>
        /\ \A q \in Autos : pc'[q] = "idle" \/
              (pc'[q] = pc[q] /\ seen'[q] = seen[q] /\ todo'[q] = todo[q])
    BY <1>9, <1>t DEF Crash, Rewrite, locals, Return
  <2> QED
    BY <1>1, <1>s, <2>1
<1>10. ASSUME UNCHANGED vars PROVE Cleared'
  BY <1>1, <1>10, <1>s DEF vars, locals
<1> QED
  BY <1>2, <1>3, <1>4, <1>5, <1>6, <1>7, <1>8, <1>9, <1>10 DEF Next

\* (leftover_exits) A target of an earlier position is gone before the next
\* one is opened, as long as every opening pass can read and cancel what
\* rests on the coin.
THEOREM TargetsAreOwn == Spec => [](Clears(cfg) => NoForeignTarget)
<1> DEFINE Inv == Typed /\ Locked /\ (Clears(cfg) => Cleared)
<1>1. Init => Inv
  <2>1. Init => Cleared
    BY NothingTyped DEF Init, Cleared, Held, Flat, Targets, Passes
  <2> QED
    BY <2>1, TypedInit, LockedInit
<1>2. Inv /\ [Next]_vars => Inv'
  <2>1. [Next]_vars => cfg' = cfg
    BY DEF Next, vars
  <2> QED
    BY <2>1, TypedStep, LockedStep, ClearedStep
<1>3. Inv => (Clears(cfg) => NoForeignTarget)
  BY DEF Cleared, NoForeignTarget
<1> QED
  BY <1>1, <1>2, <1>3, PTL DEF Spec

-----------------------------------------------------------------------------
(* Limit entries beside managers.                                          *)

\* Entries rest with their exits, positions have no partial closings.
LimitsAlone(s) == s.runs \subseteq Managers /\ s.trigger = "tp1"

\* a position is whole, its orders are of its size, none is at entry, ...
Whole(v) == v.size \in {0, 3} /\ ~v.part
Plain(S) == \A o \in S : o.size = 3 /\ o.kind # "be"
UpToTrade(S, t) == \A o \in S : o.trade <= t
\* ... and what is read or cancelled before the next entry is of earlier trades
PassLimits(p) ==
    /\ pc[p] \notin {"move", "close"}
    /\ Whole(seen[p].pos) /\ seen[p].pos.trade <= pos.trade
    /\ Plain(seen[p].orders)
    /\ ~seen[p].entry => UpToTrade(seen[p].orders, pos.trade)
    /\ UpToTrade(todo[p], pos.trade)
Limits ==
    /\ Whole(pos) /\ Plain(orders)
    /\ entry => ~Held /\ UpToTrade(orders, pos.trade + 1)
                /\ \E o \in Stops(orders) : o.trade = pos.trade + 1
    /\ ~entry => UpToTrade(orders, pos.trade)
    /\ \A p \in Passes : PassLimits(p)

\* all a manager plans is to cancel orders of earlier trades
LEMMA PlansLimits ==
    ASSUME Typed, LimitsAlone(cfg), NEW m \in Managers, PassLimits(m), NEW a \in Plans(seen[m])
    PROVE  a[1] = "cancel" /\ UpToTrade(a[2], pos.trade)
<1> DEFINE v == seen[m]
<1>1. v \in Views /\ v.pos.size \in Nat
  BY TradesNumbered DEF Typed, PassTyped, Passes, Views, Positions
<1>2. (AtEntry(v) = {} /\ ~Partial(v)) \/ v.pos.size = 0
  <2>1. AtEntry(v) = {}
    BY DEF AtEntry, PassLimits, Plain
  <2>2. v.pos.size # 0 => ~Partial(v)
    BY DEF Partial, PassLimits, Plain, Whole, Stops
  <2> QED
    BY <2>1, <2>2
<1>3. CASE v.pos.size = 0
  <2>1. a = <<"cancel", Orphans(v)>>
    BY <1>3 DEF Plans
  <2>2. UpToTrade(Orphans(v), pos.trade)
    BY DEF Orphans, PassLimits, UpToTrade
  <2> QED
    BY <2>1, <2>2
<1>4. CASE v.pos.size # 0
  <2>1. a = <<"cancel", {}>>
    BY <1>2, <1>4 DEF Plans, LimitsAlone
  <2> QED
    BY <2>1 DEF UpToTrade
<1> QED
  BY <1>3, <1>4

\* Every step keeps the exits of a resting entry out of every plan.
LEMMA LimitsStep ==
    ASSUME Typed, Locked, LimitsAlone(cfg), Limits, [Next]_vars PROVE Limits'
<1> USE DEF exchange, store
<1>t. /\ Typed' /\ cfg' = cfg
      /\ Autos \subseteq Passes /\ Managers \subseteq Passes /\ Manuals \subseteq Passes
  BY TypedStep DEF Next, vars, Passes
<1>s. pos.size \in Nat /\ pos.trade \in Nat /\ pos \in Positions
  BY TradesNumbered DEF Typed, WorldTyped, Positions
<1>o. \A o \in orders \union orders' : o.trade \in Nat
  BY <1>t, TradesNumbered DEF Typed, WorldTyped, Orders
<1>n. Whole(Nothing.pos) /\ Nothing.pos.trade = 0 /\ Nothing.orders = {}
  BY DEF Whole, Nothing, Flat
<1>0. ASSUME NEW p \in Autos \union Manuals, OpenerStep(p) PROVE Limits'
  <2>1. p \in Passes /\ p \notin Managers
    BY <1>t, HLProtectAssumption
  <2>2. pc[p] = "idle" /\ p \notin cfg.runs
    BY <2>1 DEF Locked, LimitsAlone
  <2> QED
    BY <1>0, <2>2 DEF OpenerStep, ReadPosition, ReadOrders, ReadFails, CancelOne, CancelsDone, Open,
         AttachStop, AttachTargets, Attach
\* the world stays and every pass is as it was, has ended or has moved on
<1>1. ASSUME UNCHANGED <<pos, entry>>, Plain(orders'),
             \A o \in orders' : o \in orders \/ o.trade <= pos.trade,
             \A o \in orders : o.trade = pos.trade + 1 => o \in orders',
             \A p \in Passes : PassLimits(p)'
      PROVE  Limits'
  <2>1. ASSUME entry' PROVE UpToTrade(orders', pos'.trade + 1) /\ \E o \in Stops(orders') : o.trade = pos'.trade + 1
    <3>1. \A o \in orders' : o.trade <= pos.trade + 1
      BY <1>1, <1>s, <1>o, <2>1 DEF Limits, UpToTrade
    <3>2. PICK o \in Stops(orders) : o.trade = pos.trade + 1
      BY <1>1, <2>1 DEF Limits
    <3>3. o \in Stops(orders')
      BY <1>1, <3>2 DEF Stops
    <3> QED
      BY <1>1, <3>1, <3>2, <3>3 DEF UpToTrade
  <2>2. ~entry' => UpToTrade(orders', pos'.trade)
    BY <1>1, <1>s DEF Limits, UpToTrade
  <2> QED
    BY <1>1, <2>1, <2>2 DEF Limits, Held, Whole
<1>2. ASSUME NEW P \in SUBSET Passes, Return(P), pos' = pos PROVE \A p \in Passes : PassLimits(p)'
  <2> SUFFICES ASSUME NEW p \in Passes PROVE PassLimits(p)'
    OBVIOUS
  <2>1. CASE p \in P
    <3>1. pc'[p] = "idle" /\ seen'[p] = Nothing /\ todo'[p] = {}
      BY <1>2, <2>1 DEF Return
    <3> QED
      BY <1>2, <1>n, <1>s, <3>1 DEF PassLimits, Plain, UpToTrade
  <2>2. CASE p \notin P
    <3>1. pc'[p] = pc[p] /\ seen'[p] = seen[p] /\ todo'[p] = todo[p]
      BY <1>2, <2>2 DEF Return
    <3> QED
      BY <1>2, <3>1 DEF Limits, PassLimits
  <2> QED
    BY <2>1, <2>2
<1>3. ASSUME NEW m \in Managers, PassLimits(m)', pos' = pos,
             \A p \in Passes \ {m} : pc'[p] = pc[p] /\ seen'[p] = seen[p] /\ todo'[p] = todo[p]
      PROVE  \A p \in Passes : PassLimits(p)'
  BY <1>3 DEF Limits, PassLimits
<1>4. ASSUME UNCHANGED <<orders, pos, entry>>, \A p \in Passes : PassLimits(p)' PROVE Limits'
  <2>1. Plain(orders')
    BY <1>4 DEF Limits, Plain
  <2> QED
    BY <1>1, <1>4, <2>1
<1>5. ASSUME NEW m \in Managers, ManagerStep(m) PROVE Limits'
  <2>m. m \in Passes /\ m \notin Autos /\ m \notin Manuals /\ PassLimits(m)
    BY <1>t, HLProtectAssumption DEF Limits
  <2>1. CASE ReadPosition(m)
    <3>1. UNCHANGED <<orders, pos, entry>> /\ pc'[m] = "orders" /\ seen'[m] = [seen[m] EXCEPT !.pos = pos]
          /\ todo'[m] = todo[m]
          /\ \A p \in Passes \ {m} : pc'[p] = pc[p] /\ seen'[p] = seen[p] /\ todo'[p] = todo[p]
      BY <2>1, <2>m DEF ReadPosition, Goto, Typed, Tables
    <3>2. seen'[m].pos = pos /\ seen'[m].orders = seen[m].orders /\ seen'[m].entry = seen[m].entry
      BY <3>1, <2>m DEF Typed, PassTyped, Views
    <3>3. PassLimits(m)'
      BY <3>1, <3>2, <2>m, <1>s DEF PassLimits, Limits
    <3> QED
      BY <1>3, <1>4, <3>1, <3>3
  <2>2. CASE ReadOrders(m)
    <3>1. UNCHANGED <<orders, pos, entry>> /\ pc'[m] = "track" /\ todo'[m] = todo[m]
          /\ seen'[m] = [seen[m] EXCEPT !.orders = orders, !.entry = entry]
          /\ \A p \in Passes \ {m} : pc'[p] = pc[p] /\ seen'[p] = seen[p] /\ todo'[p] = todo[p]
      BY <2>2, <2>m DEF ReadOrders, Goto, Typed, Tables
    <3>2. seen'[m].pos = seen[m].pos /\ seen'[m].orders = orders /\ seen'[m].entry = entry
      BY <3>1, <2>m DEF Typed, PassTyped, Views
    <3>3. PassLimits(m)'
      BY <3>1, <3>2, <2>m, <1>s DEF PassLimits, Limits
    <3> QED
      BY <1>3, <1>4, <3>1, <3>3
  <2>3. CASE ReadFails(m)
    <3>1. Return({m}) /\ UNCHANGED <<orders, pos, entry>>
      BY <2>3, <2>m DEF ReadFails
    <3> QED
      BY <1>2, <1>4, <2>m, <3>1
  <2>4. CASE Track(m)
    <3>1. PICK a \in Plans(seen[m]) :
            /\ todo' = [todo EXCEPT ![m] = a[2]]
            /\ Goto(m, a[1]) \/ (Unprotected(seen[m]) /\ Goto(m, "protect"))
      BY <2>4, TrackGoes
    <3>2. a[1] = "cancel" /\ UpToTrade(a[2], pos.trade)
      BY <2>m, PlansLimits
    <3>3. UNCHANGED <<orders, pos, entry>> /\ pc'[m] \in {"protect", "cancel"} /\ todo'[m] = a[2]
          /\ seen'[m] = [Nothing EXCEPT !.pos = seen[m].pos]
          /\ \A p \in Passes \ {m} : pc'[p] = pc[p] /\ seen'[p] = seen[p] /\ todo'[p] = todo[p]
      BY <2>4, <2>m, <3>1, <3>2 DEF Track, Goto, Typed, Tables
    <3>4. seen'[m].pos = seen[m].pos /\ seen'[m].orders = {}
      BY <3>3 DEF Nothing
    <3>5. PassLimits(m)'
      BY <3>2, <3>3, <3>4, <2>m DEF PassLimits, Plain, UpToTrade
    <3> QED
      BY <1>3, <1>4, <3>3, <3>5
  <2>5. CASE MoveStop(m) \/ CloseRemainder(m)
    BY <2>5, <2>m DEF MoveStop, CloseRemainder, PassLimits
  <2>6. CASE Protect(m)
    <3> DEFINE stop == Fresh("protect", seen[m].pos.trade, m, seen[m].pos.size)
    <3>1. pc[m] = "protect" /\ UNCHANGED <<pos, entry>> /\ Return({m})
          /\ (orders' = orders \/ orders' = orders \union {stop})
      BY <2>6 DEF Protect
    <3>2. seen[m].pos.size > 0
      BY <3>1, <2>m DEF Typed, PassTyped
    <3>3. stop.size = 3 /\ stop.kind # "be" /\ stop.trade <= pos.trade
      BY <3>2, <2>m DEF Fresh, PassLimits, Whole
    <3> HIDE DEF stop
    <3>4. Plain(orders') /\ (\A o \in orders' : o \in orders \/ o.trade <= pos.trade)
      BY <3>1, <3>3 DEF Limits, Plain
    <3>5. \A p \in Passes : PassLimits(p)'
      BY <1>2, <2>m, <3>1
    <3> QED
      BY <1>1, <3>1, <3>4, <3>5
  <2>7. CASE CancelOne(m)
    <3>1. PICK o \in todo[m] :
            /\ orders' = orders \/ orders' = {r \in orders : [r EXCEPT !.aged = o.aged] # o}
            /\ todo' = [todo EXCEPT ![m] = @ \ {o}]
      BY <2>7 DEF CancelOne
    <3>2. /\ UNCHANGED <<pos, entry>> /\ pc' = pc /\ seen' = seen /\ todo'[m] = todo[m] \ {o}
          /\ \A p \in Passes \ {m} : todo'[p] = todo[p]
      BY <2>7, <2>m, <3>1 DEF CancelOne, Typed, Tables
    <3>3. o.trade <= pos.trade
      BY <3>1, <2>m DEF PassLimits, UpToTrade
    <3>4. ASSUME NEW r \in orders, r.trade = pos.trade + 1 PROVE r \in orders'
      <4>1. [r EXCEPT !.aged = o.aged].trade = r.trade
        BY DEF Typed, WorldTyped, Orders
      <4>2. r.trade # o.trade
        BY <3>3, <3>4, <1>s
      <4>3. [r EXCEPT !.aged = o.aged] # o
        BY <4>1, <4>2
      <4> QED
        BY <3>1, <3>4, <4>3
    <3>5. Plain(orders') /\ orders' \subseteq orders
      BY <3>1 DEF Limits, Plain
    <3>6. PassLimits(m)'
      BY <3>2, <2>m DEF PassLimits, UpToTrade
    <3>7. \A p \in Passes : PassLimits(p)'
      BY <1>3, <3>2, <3>6
    <3> QED
      BY <1>1, <3>2, <3>4, <3>5, <3>7
  <2>8. CASE CancelsDone(m)
    <3>1. pc[m] # "clear"
      BY <2>m DEF Typed, PassTyped, ManagerSteps
    <3>2. Return({m}) /\ UNCHANGED <<orders, pos, entry>>
      BY <2>8, <3>1 DEF CancelsDone
    <3> QED
      BY <1>2, <1>4, <2>m, <3>2
  <2> QED
    BY <1>5, <2>1, <2>2, <2>3, <2>4, <2>5, <2>6, <2>7, <2>8 DEF ManagerStep
<1>6. ASSUME NEW o \in orders, Fills(o) PROVE Limits'
  <2>1. Held /\ ~entry /\ o.size = 3 /\ pos.size = 3
    BY <1>6, <1>s DEF Fills, Limits, Plain, Whole, Held
  <2>a. (IF pos.size > o.size THEN pos.size - o.size ELSE 0) = 0
    BY <2>1
  <2>b. pos' = [pos EXCEPT !.size = 0, !.part = 0 > 0]
    BY <1>6, <2>a DEF Fills
  <2>c. ~(0 > 0)
    OBVIOUS
  <2>d. pos \in [size : 0..3 * Cardinality(Trades), trade : Trades \union {0}, part : BOOLEAN]
    BY <1>s DEF Positions
  <2>2. pos'.trade = pos.trade /\ pos'.size = 0 /\ ~pos'.part
    BY <2>b, <2>c, <2>d
  <2>3. entry' = entry /\ orders' \subseteq orders /\ UNCHANGED locals
    BY <1>6 DEF Fills
  <2>4. \A p \in Passes : PassLimits(p)'
    BY <2>2, <2>3 DEF Limits, PassLimits, locals
  <2>5. Plain(orders') /\ UpToTrade(orders', pos'.trade)
    BY <2>1, <2>2, <2>3 DEF Limits, Plain, UpToTrade
  <2> QED
    BY <2>1, <2>2, <2>3, <2>4, <2>5 DEF Limits, Whole
<1>7. ASSUME RestEntry PROVE Limits'
  <2> DEFINE stop == Fresh("sl", pos.trade + 1, NoPass, 3)
             target == Fresh("tp1", pos.trade + 1, NoPass, 3)
  <2>1. /\ ~entry /\ ~Held /\ entry' = TRUE /\ UNCHANGED <<pos, locals>>
        /\ orders' = orders \union {stop, target}
    BY <1>7 DEF RestEntry
  <2>2. /\ stop.size = 3 /\ target.size = 3 /\ stop.kind = "sl" /\ target.kind = "tp1"
        /\ stop.trade = pos.trade + 1 /\ target.trade = pos.trade + 1
    BY DEF Fresh
  <2> HIDE DEF stop, target
  <2>3. Plain(orders') /\ UpToTrade(orders', pos'.trade + 1)
    <3>1. \A o \in orders' : o.trade <= pos.trade + 1
      BY <2>1, <2>2, <1>s, <1>o DEF Limits, UpToTrade
    <3> QED
      BY <2>1, <2>2, <3>1 DEF Limits, Plain, UpToTrade
  <2>4. stop \in Stops(orders') /\ ~Held'
    BY <2>1, <2>2 DEF Stops, StopKinds, Held
  <2>5. \A p \in Passes : PassLimits(p)'
    BY <2>1 DEF Limits, PassLimits, locals
  <2> QED
    BY <2>1, <2>2, <2>3, <2>4, <2>5 DEF Limits, Whole
<1>8. ASSUME EntryFills PROVE Limits'
  <2>1. entry /\ ~Held /\ entry' = FALSE /\ UNCHANGED <<orders, locals>> /\ pos' = Opened
    BY <1>8 DEF EntryFills, Limits
  <2>2. pos'.trade = pos.trade + 1 /\ pos'.size = 3 /\ ~pos'.part
    BY <2>1, <1>s DEF Opened, Held
  <2>3. \A p \in Passes : PassLimits(p)'
    <3> SUFFICES ASSUME NEW p \in Passes PROVE PassLimits(p)'
      OBVIOUS
    <3>1. pc'[p] = pc[p] /\ seen'[p] = seen[p] /\ todo'[p] = todo[p] /\ PassLimits(p)
      BY <2>1 DEF locals, Limits
    <3>2. seen[p].pos.trade \in Nat /\ \A o \in seen[p].orders \union todo[p] : o.trade \in Nat
      BY TradesNumbered DEF Typed, PassTyped, Views, Positions, Orders
    <3>3. \A o \in seen[p].orders \union todo[p] : o.trade <= pos.trade => o.trade <= pos'.trade
      BY <3>2, <2>2, <1>s
    <3>4. seen[p].pos.trade <= pos'.trade
      BY <3>1, <3>2, <2>2, <1>s DEF PassLimits
    <3> QED
      BY <3>1, <3>3, <3>4 DEF PassLimits, UpToTrade
  <2>4. Plain(orders') /\ UpToTrade(orders', pos'.trade)
    BY <2>1, <2>2 DEF Limits, Plain, UpToTrade
  <2> QED
    BY <2>1, <2>2, <2>3, <2>4 DEF Limits, Whole
<1>9. ASSUME OwnerCloses PROVE Limits'
  <2>1. Held /\ ~entry /\ UNCHANGED <<orders, entry, locals>>
    BY <1>9 DEF OwnerCloses, Limits
  <2>2. pos'.trade = pos.trade /\ pos'.size = 0 /\ ~pos'.part
    BY <1>9, <1>s DEF OwnerCloses, Positions
  <2>3. \A p \in Passes : PassLimits(p)'
    BY <2>1, <2>2 DEF Limits, PassLimits, locals
  <2>4. Plain(orders') /\ UpToTrade(orders', pos'.trade)
    BY <2>1, <2>2 DEF Limits, Plain, UpToTrade
  <2> QED
    BY <2>1, <2>2, <2>3, <2>4 DEF Limits, Whole
<1>10. ASSUME TwoMinutes PROVE Limits'
  <2>1. UNCHANGED <<pos, entry, locals>> /\ orders' = {[o EXCEPT !.aged = TRUE] : o \in orders}
    BY <1>10 DEF TwoMinutes
  <2>2. \A o \in orders : /\ [o EXCEPT !.aged = TRUE].kind = o.kind
                          /\ [o EXCEPT !.aged = TRUE].trade = o.trade
                          /\ [o EXCEPT !.aged = TRUE].size = o.size
    BY DEF Typed, WorldTyped, Orders
  <2>a. \A o \in orders' : \E r \in orders : o.kind = r.kind /\ o.trade = r.trade /\ o.size = r.size
    BY <2>1, <2>2
  <2>b. Plain(orders')
    BY <2>a DEF Limits, Plain
  <2>c. ASSUME NEW t, UpToTrade(orders, t) PROVE UpToTrade(orders', t)
    BY <2>a, <2>c DEF UpToTrade
  <2>3. Plain(orders') /\ (entry' => UpToTrade(orders', pos'.trade + 1))
        /\ (~entry' => UpToTrade(orders', pos'.trade))
    BY <2>1, <2>b, <2>c DEF Limits
  <2>4. ASSUME entry' PROVE ~Held' /\ \E o \in Stops(orders') : o.trade = pos'.trade + 1
    <3>1. PICK o \in Stops(orders) : o.trade = pos.trade + 1
      BY <2>1, <2>4 DEF Limits
    <3>2. [o EXCEPT !.aged = TRUE] \in Stops(orders')
      BY <2>1, <2>2, <3>1 DEF Stops
    <3> QED
      BY <2>1, <2>2, <2>4, <3>1, <3>2 DEF Limits, Held, Stops
  <2>5. \A p \in Passes : PassLimits(p)'
    BY <2>1 DEF Limits, PassLimits, locals
  <2> QED
    BY <2>1, <2>3, <2>4, <2>5 DEF Limits, Whole
<1>r. ASSUME NEW i \in Instances, Rewrite(i) PROVE Limits'
  <2>1. \A p \in Passes : PassLimits(p)'
    BY <1>r DEF Rewrite, locals, Limits, PassLimits
  <2> QED
    BY <1>4, <1>r, <2>1 DEF Rewrite
<1>11. ASSUME NEW i \in Instances, Crash(i) PROVE Limits'
  <2>1. Return({p \in Passes : cfg.on[p] = i}) /\ {p \in Passes : cfg.on[p] = i} \in SUBSET Passes
        /\ UNCHANGED <<orders, pos, entry>>
    BY <1>11 DEF Crash
  <2> QED
    BY <1>2, <1>4, <2>1
<1>12. ASSUME UNCHANGED vars PROVE Limits'
  <2>1. \A p \in Passes : PassLimits(p)'
    BY <1>12 DEF vars, locals, Limits, PassLimits
  <2> QED
    BY <1>4, <1>12, <2>1 DEF vars
<1> QED
  BY <1>0, <1>5, <1>6, <1>7, <1>8, <1>9, <1>10, <1>r, <1>11, <1>12 DEF Next

\* (hl_manage.plan) The exits of a limit entry that waits for its fill are no
\* orphans, whatever managers run beside it.
THEOREM RestingExitsStay == Spec => [](LimitsAlone(cfg) => RestingEntryKeepsExits)
<1> DEFINE Inv == Typed /\ Locked /\ (LimitsAlone(cfg) => Limits)
<1>1. Init => Inv
  <2>1. Init => Limits
    BY DEF Init, Limits, PassLimits, Whole, Plain, UpToTrade, Held, Flat, Nothing
  <2> QED
    BY <2>1, TypedInit, LockedInit
<1>2. Inv /\ [Next]_vars => Inv'
  <2>1. [Next]_vars => cfg' = cfg
    BY DEF Next, vars
  <2> QED
    BY <2>1, TypedStep, LockedStep, LimitsStep
<1>3. Inv => (LimitsAlone(cfg) => RestingEntryKeepsExits)
  BY DEF Limits, RestingEntryKeepsExits
<1> QED
  BY <1>1, <1>2, <1>3, PTL DEF Spec

-----------------------------------------------------------------------------
(* The stop of a position.                                                 *)

\* one instance, no limit entries, and every trade has its own entry price
Single(s) == ~s.limits /\ \A p, q \in Passes : s.on[p] = s.on[q]
OwnPrices == \A t, u \in Trades : EntryPx[t] = EntryPx[u] => t = u

AtOwnEntry(o) == o.kind = "be" /\ o.trade = pos.trade

\* what an opening pass holds on to: nothing else opens meanwhile
OpenerKept(p) ==
    /\ pc[p] \in {"orders", "clear", "open"} => ~Held
    /\ pc[p] \in {"sl", "tp1", "tp2"} => seen[p].pos.trade = pos.trade
\* ... and a manager: it is about this position, which has not grown, and
\* its stop at entry is not among the orders that go
ManagerKept(m) ==
    pc[m] # "idle" =>
        /\ seen[m].pos.trade <= pos.trade
        /\ Held => /\ seen[m].pos.trade = pos.trade /\ pos.size <= seen[m].pos.size
                   /\ pc[m] = "track" => \A o \in seen[m].orders : AtOwnEntry(o) => o \in orders
                   /\ pc[m] = "move" => \A o \in todo[m] : ~AtOwnEntry(o)
                   /\ pc[m] = "cancel" /\ todo[m] # {} =>
                        (\A o \in todo[m] : ~AtOwnEntry(o)) /\ \E o \in orders : AtOwnEntry(o)
\* a fill of the stop at entry closes the whole position
OrdersKept ==
    /\ ~entry /\ \A o \in orders : o.trade <= pos.trade
    /\ Held => \A o \in orders : AtOwnEntry(o) => pos.size <= o.size

Kept ==
    /\ OrdersKept
    /\ \A p \in Autos \union Manuals : OpenerKept(p)
    /\ \A m \in Managers : ManagerKept(m)

\* With one instance, at most one pass of any kind is under way.
LEMMA SingleOne ==
    ASSUME Locked, Single(cfg), NEW p \in Passes, NEW q \in Passes, pc[p] # "idle", pc[q] # "idle"
    PROVE  p = q
BY OneAtATime DEF Single

\* What is planned for the position spares its stop at entry.
LEMMA PlansKept ==
    ASSUME Typed, OwnPrices, NEW m \in Managers, pc[m] = "track", ManagerKept(m), Held,
           NEW a \in Plans(seen[m])
    PROVE  /\ a[1] = "move" => \A o \in a[2] : ~AtOwnEntry(o)
           /\ a[1] = "cancel" /\ a[2] # {} =>
                (\A o \in a[2] : ~AtOwnEntry(o)) /\ \E o \in orders : AtOwnEntry(o)
<1> DEFINE v == seen[m]
<1>1. /\ v \in Views /\ v.pos.size \in Nat /\ pos.size \in Nat /\ pos \in Positions
      /\ \A o \in v.orders : o.trade \in Trades
  BY TradesNumbered DEF Typed, WorldTyped, PassTyped, Passes, Views, Positions, Orders
<1>2. /\ v.pos.trade = pos.trade /\ v.pos.size # 0 /\ pos.trade \in Trades
      /\ \A o \in v.orders : AtOwnEntry(o) => o \in orders
  BY <1>1, ProperTrade DEF ManagerKept, Held, Typed, WorldTyped
<1>3. \A o \in v.orders : o \in AtEntry(v) <=> AtOwnEntry(o)
  BY <1>1, <1>2 DEF AtEntry, AtOwnEntry, OwnPrices
<1>4. CASE AtEntry(v) # {}
  <2>1. a = <<"cancel", Stops(v.orders) \ AtEntry(v)>>
    BY <1>2, <1>4 DEF Plans
  <2>2. \A o \in a[2] : ~AtOwnEntry(o)
    BY <2>1, <1>3 DEF Stops
  <2>3. PICK o \in AtEntry(v) : TRUE
    BY <1>4
  <2>4. o \in v.orders
    BY <2>3 DEF AtEntry
  <2>5. AtOwnEntry(o) /\ o \in orders
    BY <2>3, <2>4, <1>2, <1>3
  <2> QED
    BY <2>1, <2>2, <2>5
<1>5. CASE AtEntry(v) = {}
  <2>1. a \in {<<"cancel", {}>>, <<"close", {}>>, <<"move", Stops(v.orders)>>}
    BY <1>2, <1>5 DEF Plans
  <2>2. \A o \in Stops(v.orders) : ~AtOwnEntry(o)
    BY <1>3, <1>5 DEF Stops
  <2>3. a[1] = "cancel" => a[2] = {}
    BY <2>1
  <2>4. a[1] = "move" => a[2] = Stops(v.orders)
    BY <2>1
  <2> QED
    BY <2>2, <2>3, <2>4
<1> QED
  BY <1>4, <1>5

\* Every step keeps what the passes hold on to, and changes the stops of the
\* position only by adding or by filling.
LEMMA KeptStep ==
    ASSUME Typed, Locked, Single(cfg), OwnPrices, Kept, [Next]_vars PROVE Kept'
<1> USE DEF exchange, store
<1>t. /\ Typed' /\ Locked' /\ cfg' = cfg /\ Single(cfg')
      /\ Autos \subseteq Passes /\ Managers \subseteq Passes /\ Manuals \subseteq Passes
  BY TypedStep, LockedStep DEF Next, vars, Passes
<1>s. /\ pos.size \in Nat /\ pos.trade \in Nat /\ pos \in Positions
      /\ pos'.size \in Nat /\ pos'.trade \in Nat /\ pos' \in Positions
  BY <1>t, TradesNumbered DEF Typed, WorldTyped, Positions
<1>o. \A o \in orders \union orders' : o.trade \in Nat /\ o.size \in Nat
  BY <1>t, TradesNumbered DEF Typed, WorldTyped, Orders
\* all passes are idle after the step
<1>1. ASSUME OrdersKept', \A p \in Passes : pc'[p] = "idle" PROVE Kept'
  BY <1>t, <1>1 DEF Kept, OpenerKept, ManagerKept
\* one pass has taken the step and is the one that runs
<1>2. ASSUME NEW p \in Passes, pc[p] # "idle" \/ pc'[p] # "idle",
             \A q \in Passes \ {p} : pc'[q] = pc[q],
             OrdersKept', p \in Autos \union Manuals => OpenerKept(p)',
             p \in Managers => ManagerKept(p)'
      PROVE  Kept'
  <2>1. \A q \in Passes \ {p} : pc'[q] = "idle"
    BY <1>t, <1>2, SingleOne DEF Locked, Single
  <2> QED
    BY <1>t, <1>2, <2>1 DEF Kept, OpenerKept, ManagerKept
<1>3. ASSUME NEW p \in Passes, pc[p] # "idle", Return({p}), OrdersKept' PROVE Kept'
  BY <1>2, <1>3 DEF Return, OpenerKept, ManagerKept
\* orders go, or come and are no stops at entry
<1>4. ASSUME pos' = pos, entry' = entry,
             \A o \in orders' : o \in orders \/ (o.kind # "be" /\ o.trade <= pos.trade)
      PROVE  OrdersKept'
  BY <1>4 DEF Kept, OrdersKept, AtOwnEntry, Held
<1>5. ASSUME NEW p \in Passes, ReadPosition(p) PROVE Kept'
  <2>1. /\ UNCHANGED <<pos, orders, entry>> /\ pc'[p] \in {"orders", "open"}
        /\ p \notin Managers => ~Held
        /\ seen'[p] = [seen[p] EXCEPT !.pos = pos]
        /\ \A q \in Passes \ {p} : pc'[q] = pc[q]
    BY <1>5, <1>s DEF ReadPosition, Goto, Typed, Tables, Held
  <2>2. seen'[p].pos = pos
    BY <2>1 DEF Typed, PassTyped, Views
  <2>3. OrdersKept'
    BY <1>4, <2>1
  <2>4. p \in Autos \union Manuals => OpenerKept(p)'
    BY <2>1, HLProtectAssumption DEF OpenerKept, Held
  <2>5. p \in Managers => ManagerKept(p)'
    BY <2>1, <2>2, <1>s DEF ManagerKept
  <2> QED
    BY <1>2, <2>1, <2>3, <2>4, <2>5
<1>6. ASSUME NEW p \in Passes, ReadOrders(p) \/ ReadFails(p) PROVE Kept'
  <2>1. pc[p] = "orders" /\ UNCHANGED <<pos, orders, entry>>
    BY <1>6 DEF ReadOrders, ReadFails
  <2>2. OrdersKept'
    BY <1>4, <2>1
  <2>3. CASE Return({p})
    BY <1>3, <2>1, <2>2, <2>3
  <2>4. CASE ~Return({p}) /\ p \in Autos
    <3>1. pc'[p] \in {"clear", "open"} /\ \A q \in Passes \ {p} : pc'[q] = pc[q]
      BY <1>6, <2>4 DEF ReadOrders, ReadFails, Continue, Goto, Typed, Tables
    <3>2. ~Held'
      BY <2>1, <2>4 DEF Kept, OpenerKept, Held
    <3>3. OpenerKept(p)' /\ p \notin Managers
      BY <2>4, <3>1, <3>2, HLProtectAssumption DEF OpenerKept
    <3> QED
      BY <1>2, <2>1, <2>2, <3>1, <3>3
  <2>5. CASE ~Return({p}) /\ p \notin Autos
    <3>1. /\ pc'[p] = "track" /\ \A q \in Passes \ {p} : pc'[q] = pc[q]
          /\ seen'[p] = [seen[p] EXCEPT !.orders = orders, !.entry = entry]
      BY <1>6, <2>5 DEF ReadOrders, ReadFails, Goto, Typed, Tables
    <3>2. seen'[p].pos = seen[p].pos /\ seen'[p].orders = orders
      BY <3>1 DEF Typed, PassTyped, Views
    <3>3. p \notin Manuals /\ p \in Managers
      BY <2>1, <2>5 DEF Typed, PassTyped, Passes
    <3>4. ManagerKept(p)'
      BY <2>1, <3>1, <3>2, <3>3 DEF Kept, ManagerKept, Held, AtOwnEntry
    <3> QED
      BY <1>2, <2>1, <2>2, <2>5, <3>1, <3>3, <3>4
  <2> QED
    BY <2>3, <2>4, <2>5
<1>7. ASSUME NEW m \in Managers, Track(m) PROVE Kept'
  <2>1. PICK a \in Plans(seen[m]) :
          /\ todo' = [todo EXCEPT ![m] = a[2]]
          /\ Goto(m, a[1]) \/ (Unprotected(seen[m]) /\ Goto(m, "protect"))
    BY <1>7, TrackGoes
  <2>2. /\ pc[m] = "track" /\ UNCHANGED <<pos, orders, entry>> /\ m \in Passes
        /\ pc'[m] \in {"protect", a[1]} /\ todo'[m] = a[2]
        /\ seen'[m] = [Nothing EXCEPT !.pos = seen[m].pos]
        /\ \A q \in Passes \ {m} : pc'[q] = pc[q]
    BY <1>7, <1>t, <2>1 DEF Track, Goto, Typed, Tables
  <2>3. seen'[m].pos = seen[m].pos
    BY <2>2 DEF Nothing
  <2>4. Held => /\ a[1] = "move" => \A o \in a[2] : ~AtOwnEntry(o)
                /\ a[1] = "cancel" /\ a[2] # {} =>
                     (\A o \in a[2] : ~AtOwnEntry(o)) /\ \E o \in orders : AtOwnEntry(o)
    BY <2>1, <2>2, PlansKept DEF Kept
  <2>5. a[1] \in {"move", "cancel", "close"}
    BY <2>1 DEF Plans
  <2>6. pc'[m] # "track" /\ (pc'[m] = "move" => a[1] = "move") /\ (pc'[m] = "cancel" => a[1] = "cancel")
    BY <2>2, <2>5
  <2>7. ManagerKept(m)'
    BY <2>2, <2>3, <2>4, <2>6 DEF Kept, ManagerKept, Held, AtOwnEntry
  <2>8. OrdersKept'
    BY <1>4, <2>2
  <2>9. m \notin Autos \union Manuals
    BY HLProtectAssumption
  <2> QED
    BY <1>2, <2>2, <2>7, <2>8, <2>9
<1>8. ASSUME NEW m \in Managers, MoveStop(m) PROVE Kept'
  <2> DEFINE stop == Fresh("be", seen[m].pos.trade, m, seen[m].pos.size)
  <2>1. /\ pc[m] = "move" /\ UNCHANGED <<pos, entry>> /\ m \in Passes /\ m \notin Autos \union Manuals
        /\ \/ orders' = orders \union {stop} /\ (Continue(m, "cancel") \/ Return({m}))
           \/ orders' = orders /\ Return({m})
    BY <1>8, <1>t, HLProtectAssumption DEF MoveStop
  <2>2. /\ stop.kind = "be" /\ stop.trade = seen[m].pos.trade /\ stop.size = seen[m].pos.size
        /\ seen[m].pos.trade <= pos.trade
        /\ Held => seen[m].pos.trade = pos.trade /\ pos.size <= seen[m].pos.size
    BY <2>1 DEF Kept, ManagerKept, Fresh
  <2> HIDE DEF stop
  <2>3. OrdersKept'
    <3>1. ~entry' /\ \A o \in orders' : o.trade <= pos'.trade
      BY <2>1, <2>2 DEF Kept, OrdersKept
    <3>2. ASSUME Held', NEW o \in orders', AtOwnEntry(o)' PROVE pos'.size <= o.size
      BY <2>1, <2>2, <3>2 DEF Kept, OrdersKept, Held, AtOwnEntry
    <3> QED
      BY <3>1, <3>2 DEF OrdersKept
  <2>4. CASE Return({m})
    BY <1>3, <2>1, <2>3, <2>4
  <2>5. CASE orders' = orders \union {stop} /\ Continue(m, "cancel")
    <3>1. /\ pc'[m] = "cancel" /\ seen' = seen /\ todo' = todo
          /\ \A q \in Passes \ {m} : pc'[q] = pc[q]
      BY <2>1, <2>5 DEF Continue, Goto, Typed, Tables
    <3>2. Held => AtOwnEntry(stop) /\ \A o \in todo[m] : ~AtOwnEntry(o)
      BY <2>1, <2>2 DEF Kept, ManagerKept, AtOwnEntry
    <3>3. ManagerKept(m)'
      BY <2>1, <2>2, <2>5, <3>1, <3>2 DEF ManagerKept, Held, AtOwnEntry
    <3> QED
      BY <1>2, <2>1, <2>3, <3>1, <3>3
  <2> QED
    BY <2>1, <2>4, <2>5
<1>9. ASSUME NEW m \in Managers, Protect(m) PROVE Kept'
  <2> DEFINE stop == Fresh("protect", seen[m].pos.trade, m, seen[m].pos.size)
  <2>1. /\ pc[m] = "protect" /\ UNCHANGED <<pos, entry>> /\ m \in Passes /\ Return({m})
        /\ orders' = orders \/ orders' = orders \union {stop}
    BY <1>9, <1>t DEF Protect
  <2>2. stop.kind # "be" /\ stop.trade <= pos.trade
    BY <2>1 DEF Kept, ManagerKept, Fresh
  <2> HIDE DEF stop
  <2>3. \A o \in orders' : o \in orders \/ (o.kind # "be" /\ o.trade <= pos.trade)
    BY <2>1, <2>2
  <2>4. OrdersKept'
    BY <1>4, <2>1, <2>3
  <2> QED
    BY <1>3, <2>1, <2>4
<1>10. ASSUME NEW m \in Managers, CloseRemainder(m) PROVE Kept'
  <2>1. pc[m] = "close" /\ UNCHANGED <<orders, entry>> /\ m \in Passes /\ Return({m})
    BY <1>10, <1>t DEF CloseRemainder
  <2>2. pos'.trade = pos.trade /\ pos'.size <= pos.size /\ (Held' => Held)
    <3>1. CASE pos' = pos
      BY <3>1, <1>s DEF Held
    <3>2. CASE pos' # pos
      <4>1. PICK left \in Nat : left < pos.size /\ Held /\ pos'.trade = pos.trade /\ pos'.size = left
        BY <1>10, <3>2, CloseShrinks
      <4> QED
        BY <4>1, <1>s
    <3> QED
      BY <3>1, <3>2
  <2>3. OrdersKept'
    <3>1. ~entry' /\ \A o \in orders' : o.trade <= pos'.trade
      BY <2>1, <2>2 DEF Kept, OrdersKept
    <3>2. ASSUME Held', NEW o \in orders', AtOwnEntry(o)' PROVE pos'.size <= o.size
      <4>1. o \in orders /\ AtOwnEntry(o) /\ Held
        BY <2>1, <2>2, <3>2 DEF AtOwnEntry
      <4>2. pos.size <= o.size
        BY <4>1 DEF Kept, OrdersKept
      <4> QED
        BY <1>s, <1>o, <2>2, <4>1, <4>2
    <3> QED
      BY <3>1, <3>2 DEF OrdersKept
  <2> QED
    BY <1>3, <2>1, <2>3
<1>11. ASSUME NEW p \in Passes, CancelOne(p) PROVE Kept'
  <2>1. PICK o \in todo[p] :
          /\ orders' = orders \/ orders' = {r \in orders : [r EXCEPT !.aged = o.aged] # o}
          /\ todo' = [todo EXCEPT ![p] = @ \ {o}]
    BY <1>11 DEF CancelOne
  <2>2. /\ pc[p] \in {"cancel", "clear"} /\ UNCHANGED <<pos, entry, pc, seen>>
        /\ todo'[p] = todo[p] \ {o} /\ orders' \subseteq orders
    BY <1>11, <2>1 DEF CancelOne, Typed, Tables
  <2>3. OrdersKept'
    BY <1>4, <2>2
  <2>4. p \in Autos \union Manuals => OpenerKept(p)'
    BY <2>2 DEF Kept, OpenerKept, Held
  <2>5. ASSUME p \in Managers PROVE ManagerKept(p)'
    <3>1. pc[p] = "cancel" /\ todo[p] # {}
      BY <2>1, <2>2, <2>5 DEF Typed, PassTyped, ManagerSteps
    <3>2. ASSUME Held
          PROVE  (\A r \in todo'[p] : ~AtOwnEntry(r)) /\ \E r \in orders' : AtOwnEntry(r)
      <4>1. PICK r \in orders : AtOwnEntry(r)
        BY <2>5, <3>1, <3>2 DEF Kept, ManagerKept
      <4>2. ~AtOwnEntry(o) /\ \A x \in todo[p] : ~AtOwnEntry(x)
        BY <2>1, <2>5, <3>1, <3>2 DEF Kept, ManagerKept
      <4>3. [r EXCEPT !.aged = o.aged].kind = r.kind /\ [r EXCEPT !.aged = o.aged].trade = r.trade
        BY <4>1 DEF Typed, WorldTyped, Orders
      <4>4. [r EXCEPT !.aged = o.aged] # o
        BY <4>1, <4>2, <4>3 DEF AtOwnEntry
      <4>5. r \in orders'
        BY <2>1, <4>4
      <4> QED
        BY <2>2, <4>1, <4>2, <4>5
    <3> QED
      BY <2>2, <2>5, <3>1, <3>2 DEF Kept, ManagerKept, Held, AtOwnEntry
  <2> QED
    BY <1>2, <2>2, <2>3, <2>4, <2>5
<1>12. ASSUME NEW p \in Passes, CancelsDone(p) PROVE Kept'
  <2>1. pc[p] \in {"cancel", "clear"} /\ UNCHANGED <<pos, orders, entry>>
    BY <1>12 DEF CancelsDone
  <2>2. OrdersKept'
    BY <1>4, <2>1
  <2>3. CASE Return({p})
    BY <1>3, <2>1, <2>2, <2>3
  <2>4. CASE ~Return({p})
    <3>1. pc[p] = "clear" /\ pc'[p] = "open" /\ \A q \in Passes \ {p} : pc'[q] = pc[q]
      BY <1>12, <2>4 DEF CancelsDone, Continue, Goto, Typed, Tables
    <3>2. p \in Autos /\ p \notin Managers
      BY <3>1 DEF Typed, PassTyped, Passes, ManagerSteps
    <3>3. OpenerKept(p)'
      BY <2>1, <3>1, <3>2 DEF Kept, OpenerKept, Held
    <3> QED
      BY <1>2, <2>1, <2>2, <3>1, <3>2, <3>3
  <2> QED
    BY <2>3, <2>4
<1>13. ASSUME NEW p \in Autos \union Manuals, Open(p) PROVE Kept'
  <2>1. /\ pc[p] = "open" /\ ~Held /\ UNCHANGED <<orders, entry>> /\ p \in Passes /\ p \notin Managers
        /\ (pos' = pos \/ pos' = Opened)
    BY <1>13, <1>t, HLProtectAssumption DEF Open, Kept, OpenerKept
  <2>2. pos' = Opened => pos'.trade = pos.trade + 1
    BY DEF Opened
  <2>3. OrdersKept'
    <3>1. CASE pos' = pos
      BY <1>4, <2>1, <3>1
    <3>2. CASE pos' = Opened
      <4>1. \A o \in orders' : o.trade < pos'.trade
        BY <1>o, <1>s, <2>1, <2>2, <3>2 DEF Kept, OrdersKept
      <4>2. \A o \in orders' : o.trade <= pos'.trade /\ o.trade # pos'.trade
        BY <4>1, <1>o, <1>s
      <4> QED
        BY <2>1, <4>2 DEF Kept, OrdersKept, AtOwnEntry
    <3> QED
      BY <2>1, <3>1, <3>2
  <2>4. CASE Return({p})
    BY <1>3, <2>1, <2>3, <2>4
  <2>5. CASE ~Return({p})
    <3>1. /\ pc'[p] = "sl" /\ seen'[p] = [seen[p] EXCEPT !.pos = pos']
          /\ \A q \in Passes \ {p} : pc'[q] = pc[q]
      BY <1>13, <2>1, <2>5 DEF Open, Goto, Typed, Tables
    <3>2. seen'[p].pos = pos'
      BY <2>1, <3>1 DEF Typed, PassTyped, Views
    <3>3. OpenerKept(p)'
      BY <3>1, <3>2 DEF OpenerKept
    <3> QED
      BY <1>2, <2>1, <2>3, <3>1, <3>3
  <2> QED
    BY <2>4, <2>5
<1>14. ASSUME NEW p \in Autos \union Manuals, NEW kind \in {"sl", "tp1", "tp2"}, NEW size,
              NEW next \in {"tp1", "tp2", "done"}, Attach(p, kind, size, next)
       PROVE  Kept'
  <2>1. /\ pc[p] = kind /\ UNCHANGED <<pos, entry>> /\ p \in Passes /\ p \notin Managers
        /\ (orders' = orders \/ orders' = orders \union {Fresh(kind, seen[p].pos.trade, p, size)})
        /\ (Return({p}) \/ (next # "done" /\ Continue(p, next)))
    BY <1>14, <1>t, HLProtectAssumption DEF Attach
  <2>2. seen[p].pos.trade = pos.trade
    BY <2>1 DEF Kept, OpenerKept
  <2>3. Fresh(kind, seen[p].pos.trade, p, size).trade = pos.trade
        /\ Fresh(kind, seen[p].pos.trade, p, size).kind = kind
    BY <2>2 DEF Fresh
  <2>4. OrdersKept'
    BY <1>4, <1>s, <2>1, <2>3
  <2>5. CASE Return({p})
    BY <1>3, <2>1, <2>4, <2>5
  <2>6. CASE next # "done" /\ Continue(p, next)
    <3>1. pc'[p] = next /\ seen' = seen /\ \A q \in Passes \ {p} : pc'[q] = pc[q]
      BY <2>1, <2>6 DEF Continue, Goto, Typed, Tables
    <3>2. OpenerKept(p)'
      BY <2>1, <2>2, <2>6, <3>1 DEF OpenerKept
    <3> QED
      BY <1>2, <2>1, <2>4, <3>1, <3>2
  <2> QED
    BY <2>1, <2>5, <2>6
<1>15. ASSUME NEW o \in orders, Fills(o) PROVE Kept'
  <2> DEFINE left == IF pos.size > o.size THEN pos.size - o.size ELSE 0
  <2>1. /\ Held /\ pos' = [pos EXCEPT !.size = left, !.part = left > 0] /\ orders' = orders \ {o}
        /\ entry' = entry /\ UNCHANGED locals
    BY <1>15 DEF Fills
  <2>2. left <= pos.size /\ (left > 0 => pos.size > o.size)
    BY <1>s, <1>o
  <2> HIDE DEF left
  <2>3. pos'.trade = pos.trade /\ pos'.size = left
    BY <2>1, <1>s DEF Positions
  <2>4. Held' => pos.size > o.size /\ ~AtOwnEntry(o)
    BY <2>1, <2>2, <2>3, <1>s, <1>o DEF Held, Kept, OrdersKept
  <2>5. OrdersKept'
    <3>1. ~entry' /\ \A r \in orders' : r.trade <= pos'.trade
      BY <2>1, <2>3 DEF Kept, OrdersKept
    <3>2. ASSUME Held', NEW r \in orders', AtOwnEntry(r)' PROVE pos'.size <= r.size
      <4>1. r \in orders /\ AtOwnEntry(r)
        BY <2>1, <2>3, <3>2 DEF AtOwnEntry
      <4>2. pos.size <= r.size
        BY <2>1, <4>1 DEF Kept, OrdersKept
      <4> QED
        BY <1>s, <1>o, <2>2, <2>3, <4>1, <4>2
    <3> QED
      BY <3>1, <3>2 DEF OrdersKept
  <2>6. ASSUME NEW p \in Autos \union Manuals PROVE OpenerKept(p)'
    BY <2>1, <2>3 DEF Kept, OpenerKept, locals
  <2>7. ASSUME NEW m \in Managers PROVE ManagerKept(m)'
    <3>1. pc'[m] = pc[m] /\ seen'[m] = seen[m] /\ todo'[m] = todo[m] /\ ManagerKept(m)
      BY <2>1 DEF locals, Kept
    <3>2. \A r \in orders : Held' /\ AtOwnEntry(r) => r \in orders'
      BY <2>1, <2>4
    <3>3. seen[m].pos.size \in Nat
      BY <1>t, TradesNumbered DEF Typed, PassTyped, Views, Positions
    <3>4. pos.size <= seen[m].pos.size => pos'.size <= seen[m].pos.size
      BY <1>s, <2>2, <2>3, <3>3
    <3> QED
      BY <2>1, <2>3, <3>1, <3>2, <3>4 DEF ManagerKept, AtOwnEntry
  <2> QED
    BY <2>5, <2>6, <2>7 DEF Kept
<1>16. ASSUME RestEntry \/ EntryFills PROVE Kept'
  BY <1>16 DEF RestEntry, EntryFills, Kept, OrdersKept, Single
<1>17. ASSUME OwnerCloses PROVE Kept'
  <2>1. /\ ~Held' /\ pos'.trade = pos.trade /\ UNCHANGED <<orders, entry, pc, seen, todo>>
    BY <1>17, <1>s DEF OwnerCloses, Held, Positions, locals
  <2>2. \A p \in Autos \union Manuals : OpenerKept(p)'
    BY <2>1 DEF Kept, OpenerKept
  <2> QED
    BY <2>1, <2>2 DEF Kept, OrdersKept, ManagerKept
<1>18. ASSUME TwoMinutes PROVE Kept'
  <2>1. /\ UNCHANGED <<pos, entry, pc>> /\ orders' = {[o EXCEPT !.aged = TRUE] : o \in orders}
        /\ \A p \in Passes : pc[p] = "idle"
    BY <1>18 DEF TwoMinutes, locals
  <2>2. \A o \in orders : /\ [o EXCEPT !.aged = TRUE].kind = o.kind
                          /\ [o EXCEPT !.aged = TRUE].trade = o.trade
                          /\ [o EXCEPT !.aged = TRUE].size = o.size
    BY DEF Typed, WorldTyped, Orders
  <2>3. \A o \in orders' : \E r \in orders : o.kind = r.kind /\ o.trade = r.trade /\ o.size = r.size
    <3> SUFFICES ASSUME NEW o \in orders'
                 PROVE  \E r \in orders : o.kind = r.kind /\ o.trade = r.trade /\ o.size = r.size
      OBVIOUS
    <3>1. PICK r \in orders : o = [r EXCEPT !.aged = TRUE]
      BY <2>1
    <3> QED
      BY <2>2, <3>1
  <2>4. OrdersKept'
    BY <2>1, <2>3 DEF Kept, OrdersKept, AtOwnEntry, Held
  <2> QED
    BY <1>1, <2>1, <2>4
<1>r. ASSUME NEW i \in Instances, Rewrite(i) PROVE Kept'
  BY <1>t, <1>r DEF Rewrite, locals, Kept, OrdersKept, OpenerKept, ManagerKept, Held, AtOwnEntry
<1>19. ASSUME NEW i \in Instances, Crash(i) PROVE Kept'
  <2> DEFINE P == {p \in Passes : cfg.on[p] = i}
  <2>1. UNCHANGED <<pos, orders, entry>> /\ Return(P)
    BY <1>19 DEF Crash
  <2>2. OrdersKept'
    BY <1>4, <2>1
  <2>3. P = Passes \/ P = {}
    BY DEF Single
  <2>4. CASE P = Passes
    <3>1. \A p \in Passes : pc'[p] = "idle"
      BY <2>1, <2>4 DEF Return
    <3> QED
      BY <1>1, <2>2, <3>1
  <2>5. CASE P = {}
    <3>1. \A p \in Passes : pc'[p] = pc[p] /\ seen'[p] = seen[p] /\ todo'[p] = todo[p]
      BY <2>1, <2>5 DEF Return
    <3> QED
      BY <1>t, <2>1, <2>2, <3>1 DEF Kept, OpenerKept, ManagerKept, Held, AtOwnEntry
  <2> QED
    BY <2>3, <2>4, <2>5
<1>20. ASSUME UNCHANGED vars PROVE Kept'
  BY <1>20 DEF vars, locals, Kept, OrdersKept, OpenerKept, ManagerKept, Held, AtOwnEntry
<1> QED
  BY <1>t, <1>5, <1>6, <1>7, <1>8, <1>9, <1>10, <1>11, <1>12, <1>13, <1>14, <1>15, <1>16, <1>17,
     <1>18, <1>r, <1>19, <1>20 DEF Next, ManagerStep, OpenerStep, AttachStop, AttachTargets

\* (hl_manage: "the position is never without a stop, even if a cancel
\* fails") As long as every pass takes the lock of the one instance, nothing
\* but a fill takes the last stop of a position's own trade away.
THEOREM LastStopStays ==
    ASSUME OwnPrices, \A s \in Settings : Single(s)
    PROVE  Spec => StopKept
<1> DEFINE Inv == Typed /\ Locked /\ Kept
<1>1. Init => Inv
  <2>1. Init => Kept
    BY DEF Init, Kept, OrdersKept, OpenerKept, ManagerKept, Passes
  <2> QED
    BY <2>1, TypedInit, LockedInit
<1>2. Typed => Single(cfg)
  BY DEF Typed, WorldTyped
<1>3. Inv /\ [Next]_vars => Inv'
  BY <1>2, TypedStep, LockedStep, KeptStep
<1>4. Inv /\ [Next]_vars => [Held /\ pos' = pos /\ Guarded => Guarded']_vars
  <2> SUFFICES ASSUME Inv, [Next]_vars, Held, pos' = pos, Guarded PROVE Guarded'
    OBVIOUS
  <2> USE DEF exchange, store
  <2>t. /\ Single(cfg) /\ Managers \subseteq Passes /\ Autos \subseteq Passes /\ Manuals \subseteq Passes
        /\ pos.size \in Nat /\ pos \in Positions /\ orders \subseteq Orders
    BY <1>2, TradesNumbered DEF Typed, WorldTyped, Positions, Passes
  <2>1. PICK g \in Stops(orders) : g.trade = pos.trade
    BY DEF Guarded
  <2>2. g \in orders' => Guarded'
    BY <2>1 DEF Guarded, Stops
  <2>3. ASSUME NEW p \in Passes, CancelOne(p) PROVE Guarded'
    <3>1. PICK o \in todo[p] :
            orders' = orders \/ orders' = {r \in orders : [r EXCEPT !.aged = o.aged] # o}
      BY <2>3 DEF CancelOne
    <3>2. pc[p] \in {"cancel", "clear"} /\ todo[p] # {}
      BY <2>3, <3>1 DEF CancelOne
    <3>3. p \in Managers /\ pc[p] = "cancel"
      <4>1. p \in Autos => pc[p] # "clear"
        BY DEF Kept, OpenerKept
      <4> QED
        BY <3>2, <4>1 DEF Typed, PassTyped, Passes, ManagerSteps, AutoSteps
    <3>4. PICK r \in orders : AtOwnEntry(r)
      BY <3>2, <3>3 DEF Kept, ManagerKept
    <3>5. ~AtOwnEntry(o)
      BY <3>1, <3>2, <3>3 DEF Kept, ManagerKept
    <3>6. [r EXCEPT !.aged = o.aged].kind = r.kind /\ [r EXCEPT !.aged = o.aged].trade = r.trade
      BY <2>t, <3>4 DEF Orders
    <3>7. [r EXCEPT !.aged = o.aged] # o
      BY <3>4, <3>5, <3>6 DEF AtOwnEntry
    <3>8. r \in orders'
      BY <3>1, <3>4, <3>7
    <3> QED
      BY <3>4, <3>8 DEF Guarded, Stops, StopKinds, AtOwnEntry
  <2>4. ASSUME NEW p \in Passes, ReadPosition(p) \/ ReadOrders(p) \/ ReadFails(p) \/ CancelsDone(p)
               \/ Track(p) \/ MoveStop(p) \/ Protect(p) \/ CloseRemainder(p) \/ Open(p)
               \/ AttachStop(p) \/ AttachTargets(p)
        PROVE  orders \subseteq orders'
    BY <2>4 DEF ReadPosition, ReadOrders, ReadFails, CancelsDone, Track, MoveStop, Protect,
         CloseRemainder, Open, AttachStop, AttachTargets, Attach
  <2>5. ASSUME NEW o \in orders, Fills(o) PROVE FALSE
    <3> DEFINE left == IF pos.size > o.size THEN pos.size - o.size ELSE 0
    <3>1. pos' = [pos EXCEPT !.size = left, !.part = left > 0]
      BY <2>5 DEF Fills
    <3>2. left < pos.size
      BY <2>t, TradesNumbered DEF Held, Orders
    <3> HIDE DEF left
    <3>3. pos'.size = left
      BY <2>t, <3>1 DEF Positions
    <3> QED
      BY <2>t, <3>2, <3>3
  <2>6. ASSUME TwoMinutes PROVE Guarded'
    <3>1. orders' = {[o EXCEPT !.aged = TRUE] : o \in orders} /\ g \in orders
      BY <2>1, <2>6 DEF TwoMinutes, Stops
    <3>2. [g EXCEPT !.aged = TRUE].kind = g.kind /\ [g EXCEPT !.aged = TRUE].trade = g.trade
      BY <2>t, <3>1 DEF Orders
    <3>3. [g EXCEPT !.aged = TRUE] \in Stops(orders')
      BY <2>1, <3>1, <3>2 DEF Stops
    <3> QED
      BY <2>1, <3>2, <3>3 DEF Guarded
  <2>7. RestEntry \/ EntryFills \/ OwnerCloses \/ UNCHANGED vars
        \/ (\E i \in Instances : Crash(i) \/ Rewrite(i))
          => orders \subseteq orders'
    BY DEF RestEntry, EntryFills, OwnerCloses, Crash, Rewrite, vars
  <2>8. orders \subseteq orders' => Guarded'
    BY <2>1, <2>2 DEF Stops
  <2> QED
    BY <2>t, <2>3, <2>4, <2>5, <2>6, <2>7, <2>8 DEF Next, ManagerStep, OpenerStep
<1> QED
  BY <1>1, <1>3, <1>4, PTL DEF Spec, StopKept
=============================================================================
