------------------------------ MODULE HLProtect ------------------------------
(***************************************************************************)
(* Protecting a position on Hyperliquid: the stop and the targets a pass   *)
(* attaches to what it opens (hl_autoexec.execute, _attach_exits,          *)
(* leftover_exits), the scheduled position manager (hl_manage.run, plan,   *)
(* _track_unprotected) and the market that fills their orders meanwhile.   *)
(*                                                                         *)
(* One coin.  An entry has size 3; TP1 closes 1 of it and TP2 the rest, or *)
(* TP1 closes everything; an exit fills as a whole.  Every remote call is a step of its own.  Passes *)
(* of one instance exclude each other (app._hl_execute_lock).              *)
(***************************************************************************)
EXTENDS Naturals, Sequences, FiniteSets

CONSTANTS
    Managers,        \* manager passes (POST /api/hl/manage)
    Autos, Manuals,  \* passes that open: with exits, and POST /api/hl/execute without
    Instances,
    Settings,        \* the configurations that are tried, a set of records
    EntryPx,         \* EntryPx[t]: the rounded average entry price of trade t
    MaxMishaps,      \* bound: how often something goes wrong
    NoPass           \* "nobody holds the lock"

Passes == Managers \union Autos \union Manuals
Trades == DOMAIN EntryPx         \* bound: how many positions are opened

\* reject: an order is refused inside a 200      raise: a call fails before it is sent
\* lost: it is executed, the sender sees an exception
\* cancel: a cancel has no effect (an exception, or an error inside a 200)
\* kv, read, crash: the KV, a read or the whole instance fails
AllFaults == {"reject", "raise", "lost", "cancel", "kv", "read", "crash"}

\* runs: the passes there are      on: the instance of each
\* limits: does the scalp book rest limit entries with attached exits?
\* trigger: HL_BREAKEVEN_TRIGGER, "tp1", or "R" for a multiple of the risk
ASSUME HLProtectAssumption ==
    /\ Settings \subseteq [runs : SUBSET Passes, on : [Passes -> Instances], limits : BOOLEAN,
                           trigger : {"tp1", "R"}, faults : SUBSET AllFaults]
    /\ EntryPx \in Seq(Nat) /\ MaxMishaps \in Nat
    /\ NoPass \notin Passes
    /\ Managers \intersect Autos = {} /\ (Managers \union Autos) \intersect Manuals = {}

VARIABLES
    cfg,      \* the configuration
    pos,      \* the position: its size, trade number, partial closing
    orders,   \* the reduce-only orders resting on the coin
    entry,    \* is a limit entry resting?
    known,    \* the client order ids of manager orders the exchange has seen
    since,    \* hl:unprotected in Redis: not seen, seen lately, seen two minutes ago
    filed,    \* filed[i]: the same in the file that instance i falls back to
    lock,     \* lock[i]: the pass holding instance i's execute lock
    pc,       \* pc[p]: where pass p is
    seen,     \* seen[p]: the position, orders and entry pass p has read
    todo,     \* todo[p]: the orders p is about to cancel
    mishaps   \* how often something went wrong

exchange == <<pos, orders, entry, known>>
locals   == <<pc, seen, todo>>
store    == <<since, filed>>
vars == <<cfg, exchange, store, lock, locals, mishaps>>

Positions == [size : 0..3 * Cardinality(Trades), trade : Trades \union {0}, part : BOOLEAN]

StopKinds == {"sl", "be", "protect"}       \* own, at entry, safety net
Orders ==
    [kind : StopKinds \union {"tp1", "tp2"}, trade : Trades, by : Passes \union {NoPass},
     size : 1..3 * Cardinality(Trades), aged : BOOLEAN]

Steps == {"idle", "orders", "track", "move", "close", "protect", "cancel",
          "clear", "open", "sl", "tp1", "tp2"}

Ages == {"none", "lately", "grace"}

TypeOK ==
    /\ cfg \in Settings
    /\ pos \in Positions /\ orders \subseteq Orders /\ entry \in BOOLEAN
    /\ known \subseteq {"breakeven", "breakeven_close"} \X Nat
    /\ since \in Ages /\ filed \in [Instances -> Ages]
    /\ lock \in [Instances -> Passes \union {NoPass}]
    /\ pc \in [Passes -> Steps]
    /\ seen \in [Passes -> [pos : Positions, orders : SUBSET Orders, entry : BOOLEAN]]
    /\ todo \in [Passes -> SUBSET Orders]
    /\ mishaps \in 0..MaxMishaps

Flat == [size |-> 0, trade |-> 0, part |-> FALSE]
Nothing == [pos |-> Flat, orders |-> {}, entry |-> FALSE]

Init ==
    /\ cfg \in Settings
    /\ pos = Flat /\ orders = {} /\ entry = FALSE /\ known = {}
    /\ since = "none" /\ filed = [i \in Instances |-> "none"]
    /\ lock = [i \in Instances |-> NoPass]
    /\ pc = [p \in Passes |-> "idle"]
    /\ seen = [p \in Passes |-> Nothing]
    /\ todo = [p \in Passes |-> {}]
    /\ mishaps = 0

Held == pos.size > 0
Stops(S) == {o \in S : o.kind \in StopKinds}
Targets(S) == {o \in S : o.kind \in {"tp1", "tp2"}}
Fresh(kind, trade, by, size) ==
    [kind |-> kind, trade |-> trade, by |-> by, size |-> size, aged |-> FALSE]

\* something goes wrong, or nothing does
Mishap(fault) == fault \in cfg.faults /\ mishaps < MaxMishaps /\ mishaps' = mishaps + 1
Fine == UNCHANGED mishaps

Goto(p, step) == pc' = [pc EXCEPT ![p] = step]

\* the passes of P end: locals and lock are gone
Return(P) ==
    /\ pc' = [p \in Passes |-> IF p \in P THEN "idle" ELSE pc[p]]
    /\ seen' = [p \in Passes |-> IF p \in P THEN Nothing ELSE seen[p]]
    /\ todo' = [p \in Passes |-> IF p \in P THEN {} ELSE todo[p]]
    /\ lock' = [i \in Instances |-> IF lock[i] \in P THEN NoPass ELSE lock[i]]

Continue(p, step) == Goto(p, step) /\ UNCHANGED <<seen, todo, lock>>

-----------------------------------------------------------------------------
(* Reading the exchange: the account first, the orders in a second call.   *)

\* the manager does not take the lock
ReadPosition_Unlocked(p) ==
    /\ pc[p] = "idle" /\ p \in cfg.runs
    /\ p \in Managers \/ (~entry /\ pos.size = 0)
    /\ lock' = [lock EXCEPT ![cfg.on[p]] = p]
    /\ seen' = [seen EXCEPT ![p].pos = pos]
    /\ Goto(p, IF p \in Manuals THEN "open" ELSE "orders")
    /\ UNCHANGED <<exchange, store, todo, mishaps>>

\* An opening pass leaves coins with a scalp entry alone, and a snapshot
\* that shows a position ends it.
ReadPosition(p) ==
    /\ pc[p] = "idle" /\ p \in cfg.runs /\ lock[cfg.on[p]] = NoPass
    /\ p \in Managers \/ (~entry /\ pos.size = 0)
    /\ lock' = [lock EXCEPT ![cfg.on[p]] = p]
    /\ seen' = [seen EXCEPT ![p].pos = pos]
    /\ Goto(p, IF p \in Manuals THEN "open" ELSE "orders")
    /\ UNCHANGED <<exchange, store, todo, mishaps>>

\* an opening pass does not look for leftovers
ReadOrders_NoLeftovers(p) ==
    /\ pc[p] = "orders"
    /\ IF p \in Autos THEN Goto(p, "clear") /\ UNCHANGED seen
       ELSE Goto(p, "track") /\ seen' = [seen EXCEPT ![p].orders = orders, ![p].entry = entry]
    /\ UNCHANGED <<exchange, store, lock, todo, mishaps>>

ReadOrders(p) ==
    /\ pc[p] = "orders"
    /\ IF p \in Autos
         THEN Goto(p, "clear") /\ todo' = [todo EXCEPT ![p] = orders] /\ UNCHANGED seen
         ELSE /\ Goto(p, "track") /\ UNCHANGED todo
              /\ seen' = [seen EXCEPT ![p].orders = orders, ![p].entry = entry]
    /\ UNCHANGED <<exchange, store, lock, mishaps>>

\* The manager's run fails; an opening pass goes on without the orders.
ReadFails(p) ==
    /\ pc[p] = "orders" /\ Mishap("read")
    /\ IF p \in Autos THEN Continue(p, "open") ELSE Return({p})
    /\ UNCHANGED <<exchange, store>>

-----------------------------------------------------------------------------
(* hl_manage: what to do about the position that was read.                 *)

Unprotected(v) == v.pos.size > 0 /\ Stops(v.orders) = {}

\* every run starts the count again
FirstSeen_Restarts(v, kept) == IF ~Unprotected(v) THEN "none" ELSE "lately"

\* _track_unprotected: when the coin was first seen without a stop; kept is
\* what the store says of that
FirstSeen(v, kept) ==
    IF ~Unprotected(v) THEN "none" ELSE IF kept = "none" THEN "lately" ELSE kept

\* a stop rests at the entry price of the position read; a trade at an
\* earlier trade's price finds that trade's stop there
AtEntry(v) ==
    {o \in v.orders : o.kind = "be" /\ EntryPx[o.trade] = EntryPx[v.pos.trade]}

\* the fills and the stop must both say so
Partial_NeedsBoth(v) == v.pos.part /\ \E o \in Stops(v.orders) : o.size > v.pos.size

\* what was read is partly closed: by the fills, or by a stop that is too big
Partial(v) == v.pos.part \/ \E o \in Stops(v.orders) : o.size > v.pos.size

\* a resting entry does not matter
Orphans_IgnoresEntry(v) ==
    IF v.pos.size = 0 THEN {o \in v.orders : o.aged} ELSE {}

\* reduce-only orders two minutes old, no position, no entry resting
Orphans(v) ==
    IF v.pos.size = 0 /\ ~v.entry THEN {o \in v.orders : o.aged} ELSE {}

\* Each action a plan may hold, for one coin: [step, orders to cancel].
\* The market price decides: with "tp1" between closing and moving the stop,
\* with "R" whether price has gone far enough for moving it.
Plans(v) ==
    IF v.pos.size = 0 THEN {<<"cancel", Orphans(v)>>}
    ELSE IF AtEntry(v) # {} THEN {<<"cancel", Stops(v.orders) \ AtEntry(v)>>}
    ELSE IF Stops(v.orders) = {} THEN {<<"cancel", {}>>}
    ELSE IF cfg.trigger = "R" THEN {<<"cancel", {}>>, <<"move", Stops(v.orders)>>}
    ELSE IF Partial(v) THEN {<<"close", {}>>, <<"move", Stops(v.orders)>>}
    ELSE {<<"cancel", {}>>}

\* The age is read and kept; when a command of the KV raises, executed or not,
\* the instance's file answers or takes the value.
Tracks(m, first) ==
    LET i == cfg.on[m] IN
    \/ /\ Fine
       /\ first = FirstSeen(seen[m], since) /\ since' = first /\ UNCHANGED filed
    \/ /\ Mishap("kv")
       /\ first \in {FirstSeen(seen[m], since), FirstSeen(seen[m], filed[i])}
       /\ since' \in {since, first} /\ filed' \in {filed, [filed EXCEPT ![i] = first]}

\* the plan is made; of what was read, only the position is looked at again
Track(m) ==
    LET v == seen[m] IN
    /\ pc[m] = "track"
    /\ \E first \in Ages, a \in Plans(v) :
        /\ Tracks(m, first)
        /\ Goto(m, IF Unprotected(v) /\ first = "grace" THEN "protect" ELSE a[1])
        /\ todo' = [todo EXCEPT ![m] = a[2]]
    /\ seen' = [seen EXCEPT ![m] = [Nothing EXCEPT !.pos = v.pos]]
    /\ UNCHANGED <<exchange, lock>>

\* the fresh stop has an id of its own every time
MoveStop_FreshId(m) ==
    LET v == seen[m]
        stop == Fresh("be", v.pos.trade, m, v.pos.size)
        id == <<"breakeven", EntryPx[v.pos.trade]>>
    IN
    /\ pc[m] = "move"
    /\ \/ /\ orders' = orders \union {stop} /\ known' = known \union {id}
          /\ \/ Fine /\ Continue(m, "cancel")
             \/ Mishap("lost") /\ Return({m})
       \/ /\ (Mishap("reject") \/ Mishap("raise"))
          /\ Return({m}) /\ UNCHANGED <<orders, known>>
    /\ UNCHANGED <<pos, entry, store>>

\* the answer of the exchange is not looked at before the old stop goes
MoveStop_Unchecked(m) ==
    LET v == seen[m]
        stop == Fresh("be", v.pos.trade, m, v.pos.size)
        id == <<"breakeven", EntryPx[v.pos.trade]>>
    IN
    /\ pc[m] = "move"
    /\ \/ /\ id \notin known
          /\ orders' = orders \union {stop} /\ known' = known \union {id}
          /\ \/ Fine /\ Continue(m, "cancel")
             \/ Mishap("lost") /\ Return({m})
       \/ /\ (id \in known \/ ~Held)
          /\ Fine /\ Continue(m, "cancel") /\ UNCHANGED <<orders, known>>
       \/ /\ Mishap("reject")
          /\ Continue(m, "cancel") /\ UNCHANGED <<orders, known>>
    /\ UNCHANGED <<pos, entry, store>>

\* The stop at entry is placed first; the old ones are cancelled only once
\* it is accepted.  The exchange refuses an id it has seen.
MoveStop(m) ==
    LET v == seen[m]
        stop == Fresh("be", v.pos.trade, m, v.pos.size)
        id == <<"breakeven", EntryPx[v.pos.trade]>>
    IN
    /\ pc[m] = "move"
    /\ \/ /\ id \notin known
          /\ orders' = orders \union {stop} /\ known' = known \union {id}
          /\ \/ Fine /\ Continue(m, "cancel")
             \/ Mishap("lost") /\ Return({m})
       \/ /\ (id \in known \/ ~Held)
          /\ Fine /\ Return({m}) /\ UNCHANGED <<orders, known>>
       \/ /\ (Mishap("reject") \/ Mishap("raise"))
          /\ Return({m}) /\ UNCHANGED <<orders, known>>
    /\ UNCHANGED <<pos, entry, store>>

\* the safety net, a percent beyond the mark (the mark makes the id new)
Protect(m) ==
    LET v == seen[m] IN
    /\ pc[m] = "protect"
    /\ \/ /\ orders' = orders \union {Fresh("protect", v.pos.trade, m, v.pos.size)}
          /\ (Fine \/ Mishap("lost"))
       \/ (~Held /\ Fine /\ UNCHANGED orders)
       \/ (Mishap("reject") \/ Mishap("raise")) /\ UNCHANGED orders
    /\ Return({m})
    /\ UNCHANGED <<pos, entry, known, store>>

\* Price is back through entry: close the remainder at market, in one order
\* that may fill in part; either way its id is used up.
CloseRemainder(m) ==
    LET id == <<"breakeven_close", EntryPx[seen[m].pos.trade]>> IN
    /\ pc[m] = "close"
    /\ \/ /\ id \notin known /\ Held
          /\ \E left \in 0..(pos.size - 1) :
                pos' = [pos EXCEPT !.size = left, !.part = left > 0]
          /\ known' = known \union {id}
          /\ (Fine \/ Mishap("lost"))
       \/ (id \in known \/ ~Held) /\ Fine /\ UNCHANGED <<pos, known>>
       \/ (Mishap("reject") \/ Mishap("raise")) /\ UNCHANGED <<pos, known>>
    /\ Return({m})
    /\ UNCHANGED <<orders, entry, store>>

\* one cancel of move_stop, cancel_stale, cancel_orphans or leftover_exits;
\* its answer is not looked at
CancelOne(p) ==
    /\ pc[p] \in {"cancel", "clear"}
    /\ \E o \in todo[p] :
        /\ \/ Fine /\ orders' = {r \in orders : [r EXCEPT !.aged = o.aged] # o}
           \/ Mishap("cancel") /\ UNCHANGED orders
        /\ todo' = [todo EXCEPT ![p] = @ \ {o}]
    /\ UNCHANGED <<pos, entry, known, store, lock, pc, seen>>

CancelsDone(p) ==
    /\ pc[p] \in {"cancel", "clear"} /\ todo[p] = {}
    /\ IF pc[p] = "clear" THEN Continue(p, "open") ELSE Return({p})
    /\ Fine /\ UNCHANGED <<exchange, store>>

-----------------------------------------------------------------------------
(* Opening a position and attaching its exits.                             *)

Opened ==
    [size |-> pos.size + 3, trade |-> pos.trade + 1, part |-> FALSE]

\* filled (a lost reply is SEND_FAILED and attaches nothing), or refused
Open(p) ==
    /\ pc[p] = "open"
    /\ \/ /\ pos.trade + 1 \in Trades
          /\ pos' = Opened
          /\ \/ /\ Fine /\ p \in Autos
                /\ seen' = [seen EXCEPT ![p].pos = Opened]
                /\ Goto(p, "sl") /\ UNCHANGED <<todo, lock>>
             \/ Fine /\ p \in Manuals /\ Return({p})
             \/ Mishap("lost") /\ Return({p})
       \/ Fine /\ Return({p}) /\ UNCHANGED pos
    /\ UNCHANGED <<orders, entry, known, store>>

\* one exit order: a rejection goes on to the next order, an exception
\* gives the rest up
Attach(p, kind, size, next) ==
    /\ pc[p] = kind
    /\ \/ /\ orders' = orders \union {Fresh(kind, seen[p].pos.trade, p, size)}
          /\ \/ Fine /\ (IF next = "done" THEN Return({p}) ELSE Continue(p, next))
             \/ Mishap("lost") /\ Return({p})
       \/ /\ Mishap("reject") /\ UNCHANGED orders
          /\ IF next = "done" THEN Return({p}) ELSE Continue(p, next)
       \/ Mishap("raise") /\ Return({p}) /\ UNCHANGED orders
    /\ UNCHANGED <<pos, entry, known, store>>

AttachStop(p) == Attach(p, "sl", 3, "tp1")
AttachTargets(p) ==
    \/ Attach(p, "tp1", 3, "done")
    \/ Attach(p, "tp1", 1, "tp2")
    \/ Attach(p, "tp2", 2, "done")

\* send_limit_open_with_tpsl: an entry with its stop and target attached
RestEntry ==
    /\ cfg.limits /\ ~entry /\ ~Held /\ pos.trade + 1 \in Trades
    /\ \E i \in Instances : lock[i] = NoPass
    /\ entry' = TRUE
    /\ orders' = orders \union {Fresh("sl", pos.trade + 1, NoPass, 3),
                                 Fresh("tp1", pos.trade + 1, NoPass, 3)}
    /\ UNCHANGED <<pos, known, store, lock, locals, mishaps>>

-----------------------------------------------------------------------------
(* The market, the owner, time and the platform.                           *)

EntryFills ==
    /\ entry /\ entry' = FALSE
    /\ pos.trade + 1 \in Trades
    /\ pos' = Opened
    /\ UNCHANGED <<orders, known, store, lock, locals, mishaps>>

Fills(o) ==
    /\ Held /\ o \in orders
    /\ LET left == IF pos.size > o.size THEN pos.size - o.size ELSE 0 IN
       pos' = [pos EXCEPT !.size = left, !.part = left > 0]
    /\ orders' = orders \ {o}
    /\ UNCHANGED <<entry, known, store, lock, locals, mishaps>>

OwnerCloses ==
    /\ Held
    /\ pos' = [pos EXCEPT !.size = 0, !.part = FALSE]
    /\ UNCHANGED <<orders, entry, known, store, lock, locals, mishaps>>

Later(age) == IF age = "lately" THEN "grace" ELSE age

\* A pass is stopped after 60 seconds (vercel.json), so none is under way
\* across two minutes.
TwoMinutes ==
    /\ \A p \in Passes : pc[p] = "idle"
    /\ orders' = {[o EXCEPT !.aged = TRUE] : o \in orders}
    /\ since' = Later(since) /\ filed' = [i \in Instances |-> Later(filed[i])]
    /\ <<orders', since', filed'>> # <<orders, since, filed>>
    /\ UNCHANGED <<pos, entry, known, lock, locals, mishaps>>

Crash(i) ==
    /\ lock[i] # NoPass /\ Mishap("crash")
    /\ Return({p \in Passes : cfg.on[p] = i})
    /\ filed' \in {filed, [filed EXCEPT ![i] = "none"]}
    /\ UNCHANGED <<exchange, since>>

\* a claim or a release of the instance, by file, rewrites the file without
\* the values that were in it (nothing counts these)
Rewrite(i) ==
    /\ filed[i] # "none" /\ Fine
    /\ filed' = [filed EXCEPT ![i] = "none"]
    /\ UNCHANGED <<exchange, since, lock, locals>>

ManagerStep(m) ==
    \/ ReadPosition(m) \/ ReadOrders(m) \/ ReadFails(m) \/ Track(m) \/ MoveStop(m)
    \/ Protect(m) \/ CloseRemainder(m) \/ CancelOne(m) \/ CancelsDone(m)

OpenerStep(p) ==
    \/ ReadPosition(p) \/ ReadOrders(p) \/ ReadFails(p) \/ CancelOne(p) \/ CancelsDone(p)
    \/ Open(p) \/ AttachStop(p) \/ AttachTargets(p)

Next ==
    /\ \/ \E m \in Managers : ManagerStep(m)
       \/ \E p \in Autos \union Manuals : OpenerStep(p)
       \/ \E o \in orders : Fills(o)
       \/ RestEntry \/ EntryFills \/ OwnerCloses \/ TwoMinutes
       \/ \E i \in Instances : Crash(i) \/ Rewrite(i)
    /\ UNCHANGED cfg

Spec == Init /\ [][Next]_vars

\* A pass that has begun goes on; the scheduler keeps calling the manager,
\* whatever else takes the lock in between; time passes.
Fairness ==
    /\ \A m \in Managers : SF_vars(ManagerStep(m) /\ UNCHANGED cfg)
    /\ \A p \in Autos \union Manuals : WF_vars(pc[p] # "idle" /\ OpenerStep(p) /\ UNCHANGED cfg)
    /\ SF_vars(TwoMinutes /\ UNCHANGED cfg)

FairSpec == Spec /\ Fairness

-----------------------------------------------------------------------------
\* the position has a stop of its own trade
Guarded == \E o \in Stops(orders) : o.trade = pos.trade

(* Only a fill takes a position's last stop away: no manager and no        *)
(* opening pass ever cancels it (hl_manage: "the position is never without *)
(* a stop, even if a cancel fails").                                       *)
StopKept == [][Held /\ pos' = pos /\ Guarded => Guarded']_vars

(* Re-runs and overlapping runs never stack stops at entry (the "duplicate *)
(* instead of stacking a second stop" of hl_manage.run).                   *)
OneStopAtEntry ==
    \A o, r \in orders :
        o.kind = "be" /\ r.kind = "be" /\ o.trade = r.trade => o = r

(* A fresh entry whose exits are still being placed is never touched.      *)
FreshEntryUntouched ==
    \A m \in Managers, p \in Autos :
        pc[m] = "protect" /\ pc[p] \in {"sl", "tp1", "tp2"}
            => seen[m].pos.trade # seen[p].pos.trade

(* The exits of an entry that still waits for its fill are not orphans.    *)
(* (With trigger = "R" a manager can also take them for the old stops of a *)
(* position that ended between its two reads: see README.md.)              *)
RestingEntryKeepsExits ==
    entry => \E o \in Stops(orders) : o.trade = pos.trade + 1

(* A leftover target never closes part of a later position that execute    *)
(* opened, as long as cancels work (a limit entry does not clear the coin).*)
NoForeignTarget ==
    ~cfg.limits /\ "cancel" \notin cfg.faults /\ Held =>
        \A o \in Targets(orders) : o.trade = pos.trade

(* A position without any stop gets one, or is closed.                     *)
UnprotectedIsRepaired ==
    \A t \in Trades : (Held /\ pos.trade = t /\ Stops(orders) = {}) ~>
        (~Held \/ pos.trade # t \/ Stops(orders) # {})

(* After TP1 the remainder's stop moves to entry, or the rest is closed, or *)
(* the market close at entry is used up: one order with a fixed id, which   *)
(* may fill in part and is refused from then on (hl_manage.run).            *)
StopReachesEntry ==
    \A t \in Trades : (Held /\ pos.trade = t /\ pos.part) ~>
        \/ ~Held \/ pos.trade # t
        \/ \E o \in orders : o.kind = "be" /\ o.trade = t
        \/ <<"breakeven_close", EntryPx[t]>> \in known
=============================================================================
