------------------------------ MODULE ScalpBook -----------------------------
(***************************************************************************)
(* The passes of the 15-minute scalp book (app._scalp_run, _scalp_hl and   *)
(* what they call): read the account, the orders and the records, manage   *)
(* what runs, take the ranked setups within the limits, write the records  *)
(* back.  One pass works at a time: ScalpLock!OneOwner is what the lock     *)
(* promises.  A pass is a sequence of remote calls and may be stopped      *)
(* between any two; fills and exits happen between them too.               *)
(*                                                                         *)
(* An entry has size 2, so that it can fill in part and a close can fill   *)
(* half of it, and an add has size 2.  Prices, dollars at risk and the     *)
(* entry checks that depend on the market are a free choice (TurnDown).    *)
(***************************************************************************)
EXTENDS Naturals, FiniteSets, Sequences, SequencesExt

CONSTANTS
    Coins,
    Settings,     \* the configurations that are tried, a set of records
    MaxSetups,    \* bound on the setups of one pass
    MaxSize,      \* bound on the size of a position
    MaxLoose,     \* bound on the size that rests loose on one side of a coin
    MaxMishaps    \* bound on how many kinds of mishaps happen

\* reply: an order is executed and its caller sees an exception
\* partial: a timeout close fills in part
\* part_fill: an entry fills in part and the rest of it goes on resting
\* late_fill: an entry fills between the reading of the account and its cancel
\* cancel: an order's cancel fails and the exception is swallowed
\* stale_add: an add is sent on a position that has changed since it was read
\* kv: a read of the records or the counter fails, or a write of them
\* bare_flip: the stop of a flip's new position is not confirmed
\* unwind: the stop for an added position is refused and the add is undone
\* stopped: the platform stops the pass
AllMishaps == {"reply", "partial", "part_fill", "late_fill", "cancel", "kv", "bare_flip", "stale_add",
               "unwind", "stopped"}

\* mode: SCALP_MODE, market entries ("blend") or limit entries ("sweep")
\* open, perSide, new, adds: SCALP_MAX_OPEN, _LONGS and _SHORTS, _NEW_PER_CANDLE, _ADDS
\* coins, mishaps: what the configuration is tried with
ASSUME ScalpBookAssumption ==
    /\ Settings \subseteq [mode : {"engine", "limit"}, open : Nat, perSide : Nat, new : Nat, adds : Nat,
                           coins : SUBSET Coins, mishaps : SUBSET AllMishaps]
    /\ MaxSetups \in Nat /\ MaxMishaps \in Nat /\ MaxSize \in Nat /\ MaxSize >= 4
    /\ MaxLoose \in Nat /\ IsFiniteSet(Coins)

VARIABLES
    cfg,        \* the configuration
    pos,        \* pos[c]: the exchange's position, side and size
    rest,       \* rest[c]: the side of the book's last entry while all of it rests, or "none"
    loose,      \* loose[c]: what else rests, by side: what is left of entries that filled in
                \*   part, and entries that another was placed beside
    stops,      \* stops[c]: its stop orders, each with whether the pass has it listed
    saved,      \* the records as stored: saved[c] is a record or NoRec
    entries,    \* the stored number of entries on this candle
    offered,    \* the coins whose setup of this candle has been claimed
    filled,     \* history: the entries and adds really made on this candle
    suffered,   \* history: the mishaps that have happened
    step,       \* where in its work the pass is
    view,       \* the positions as the pass has read them
    recs,       \* the records in its memory
    todo,       \* the cancels and closes it still has to send
    queue,      \* the ranked setups it still has to consider
    batch       \* the limits' counters

exchange == <<pos, rest, loose, stops>>
stored == <<saved, entries, offered>>
locals == <<step, view, recs, todo, queue, batch>>
vars == <<cfg, exchange, stored, filled, suffered, locals>>

Sides == {"LONG", "SHORT"}
Flat == [side |-> "none", size |-> 0]
NoRec == [side |-> "none", state |-> "none", bare |-> FALSE, adds |-> 0]
Rec(s, st, b) == [side |-> s, state |-> st, bare |-> b, adds |-> 0]
NoRecs == [c \in Coins |-> NoRec]
NoView == [c \in Coins |-> Flat]
Nothing == [s \in Sides |-> 0]
StopOf(n) == [size |-> n, listed |-> FALSE]
NoBatch == [LONG |-> 0, SHORT |-> 0, candle |-> 0]
Setups == [coin : cfg.coins, side : Sides]
CoinsOf(q) == {q[k].coin : k \in DOMAIN q}

BookSteps == {"idle", "account", "orders", "manage", "setups", "open", "bare", "left",
              "reopen", "rebare", "swap", "cover", "uncover", "count", "save", "done"}

Positions == {Flat} \union [side : Sides, size : 1..MaxSize]
Records ==
    {NoRec} \union [side : Sides, state : {"pending", "open"}, bare : BOOLEAN, adds : 0..cfg.adds]

\* the types of everything but what rests loose
WorkTypeOK ==
    /\ cfg \in Settings
    /\ pos \in [Coins -> Positions] /\ view \in [Coins -> Positions]
    /\ rest \in [Coins -> Sides \union {"none"}]
    /\ stops \in [Coins -> SUBSET [size : 1..MaxSize, listed : BOOLEAN]]
    /\ saved \in [Coins -> Records] /\ recs \in [Coins -> Records]
    /\ entries \in 0..cfg.new /\ offered \subseteq Coins /\ filled \in Nat
    /\ suffered \subseteq cfg.mishaps
    /\ step \in BookSteps
    /\ queue \in Seq(Setups) /\ todo \subseteq Coins \X {"cancel", "close"}
    /\ batch \in [LONG : Nat, SHORT : Nat, candle : 0..cfg.new]

BookTypeOK == WorkTypeOK /\ loose \in [Coins -> [Sides -> Nat]]

Idle ==
    /\ step' = "idle" /\ view' = NoView /\ recs' = NoRecs
    /\ todo' = {} /\ queue' = <<>> /\ batch' = NoBatch

BookInit ==
    /\ cfg \in Settings
    /\ pos = [c \in Coins |-> Flat]
    /\ rest = [c \in Coins |-> "none"] /\ loose = [c \in Coins |-> Nothing]
    /\ stops = [c \in Coins |-> {}]
    /\ saved = NoRecs /\ entries = 0 /\ offered = {}
    /\ filled = 0 /\ suffered = {}
    /\ step = "idle" /\ view = NoView /\ recs = NoRecs
    /\ todo = {} /\ queue = <<>> /\ batch = NoBatch

Mishap(m) ==
    /\ m \in cfg.mishaps
    /\ suffered' = suffered \union {m}
    /\ Cardinality(suffered') <= MaxMishaps

NextSetup(s) == queue' = Tail(queue) /\ step' = s

-----------------------------------------------------------------------------
(* Each setup is claimed before the lock is asked for; a pass that finds   *)
(* it busy, or is stopped, loses them.                                     *)

Begin ==
    /\ step = "idle"
    /\ \E q \in BoundedSeq(Setups, MaxSetups) :
          /\ CoinsOf(q) \intersect offered = {} /\ Cardinality(CoinsOf(q)) = Len(q)
          /\ offered' = offered \union CoinsOf(q)
          /\ \/ queue' = q /\ step' = "account"
             \/ UNCHANGED <<queue, step>>                      \* DISARMED, BUSY
    /\ UNCHANGED <<cfg, exchange, saved, entries, filled, suffered, view, recs, todo, batch>>

Stop ==
    /\ step # "idle"
    /\ IF step = "done" THEN UNCHANGED suffered ELSE Mishap("stopped")
    /\ Idle
    /\ stops' = [c \in Coins |-> {[o EXCEPT !.listed = FALSE] : o \in stops[c]}]
    /\ UNCHANGED <<cfg, pos, rest, loose, stored, filled>>

(* The reads, and scalp_live.sweep.                                        *)

\* account_state raises: nothing is managed and nothing is written
ReadAccount ==
    /\ step = "account"
    /\ \/ view' = pos /\ step' = "orders"
       \/ UNCHANGED view /\ step' = "done"
    /\ UNCHANGED <<cfg, exchange, stored, filled, suffered, recs, todo, queue, batch>>

\* scalp_live.held: the coin's position is on the record's side
Held(c, r) == view[c].side = r.side

\* what sweep may ask for coin c; the ages and the mark are free
Wants(c, r, rests, known) ==
    LET pending == r.state = "pending"  open == r.state = "open"  held == Held(c, r) IN
    CASE r = NoRec -> {"keep"}
      [] pending /\ held -> {"promote"}
      [] pending /\ ~held /\ ~known -> {"keep"}
      [] pending /\ ~held /\ known /\ ~rests -> {"drop"}
      [] pending /\ ~held /\ known /\ rests -> {"keep", "cancel"}
      [] open /\ ~held -> {"drop"}
      [] open /\ held -> {"keep", "close"}

Swept(r, want) ==
    CASE want = "promote" -> [r EXCEPT !.state = "open"]
      [] want = "drop" -> NoRec
      [] OTHER -> r

Acts == [Coins -> {"keep", "promote", "cancel", "drop", "close"}]

\* the orders, or the knowledge that they could not be read
SeesOrders(known) ==
    stops' = IF known THEN [c \in Coins |-> {[o EXCEPT !.listed = TRUE] : o \in stops[c]}] ELSE stops

\* whether a record's entry is among the orders: which of several is its, is free
Rests(c) == IF loose[c] = Nothing THEN {rest[c] # "none"} ELSE BOOLEAN

\* orders that could not be read count as no orders
Sweep_Guess ==
    /\ step = "orders"
    /\ \E act \in Acts, known \in BOOLEAN :
          /\ SeesOrders(known)
          /\ \A c \in Coins : \E rests \in IF known THEN Rests(c) ELSE {FALSE} :
                act[c] \in Wants(c, saved[c], rests, TRUE)
          /\ recs' = [c \in Coins |-> Swept(saved[c], act[c])]
          /\ todo' = {<<c, act[c]>> : c \in {d \in Coins : act[d] \in {"cancel", "close"}}}
    /\ step' = "manage"
    /\ UNCHANGED <<cfg, pos, rest, loose, stored, filled, suffered, view, queue, batch>>

\* reads the orders and the records: a failed read of those is an empty book
Sweep ==
    /\ step = "orders"
    /\ \E act \in Acts, found \in {saved, NoRecs}, known \in BOOLEAN :
          /\ SeesOrders(known)
          /\ IF found = saved THEN UNCHANGED suffered ELSE Mishap("kv")
          /\ \A c \in Coins : \E rests \in Rests(c) : act[c] \in Wants(c, found[c], rests, known)
          /\ recs' = [c \in Coins |-> Swept(found[c], act[c])]
          /\ todo' = {<<c, act[c]>> : c \in {d \in Coins : act[d] \in {"cancel", "close"}}}
    /\ step' = "manage"
    /\ UNCHANGED <<cfg, pos, rest, loose, stored, filled, view, queue, batch>>

-----------------------------------------------------------------------------
(* What runs is managed first, one remote call at a time.                  *)

Close(c) ==
    /\ pos' = [pos EXCEPT ![c] = Flat] /\ stops' = [stops EXCEPT ![c] = {}]
    /\ UNCHANGED <<rest, loose>>

CloseHalf(c) ==
    /\ pos[c].size > 1 /\ pos' = [pos EXCEPT ![c].size = @ \div 2]
    /\ UNCHANGED <<rest, loose, stops>>

MoreLoose(c, s, n) == loose[c][s] + n <= MaxLoose /\ loose' = [loose EXCEPT ![c][s] = @ + n]
LessLoose(c, s, n) == loose[c][s] >= n /\ loose' = [loose EXCEPT ![c][s] = @ - n]

Pop(c) == recs' = [recs EXCEPT ![c] = NoRec]
Record(c, r) == recs' = [recs EXCEPT ![c] = r]

\* what rests of the entry and the reduce-only orders that were listed; errors are swallowed
CancelEntry(c) ==
    /\ step = "manage" /\ <<c, "cancel">> \in todo
    /\ \/ rest' = [rest EXCEPT ![c] = "none"] /\ UNCHANGED <<loose, suffered>>
       \/ /\ \E s \in Sides, n \in 1..2 : s = recs[c].side /\ LessLoose(c, s, n)
          /\ UNCHANGED <<rest, suffered>>
       \/ /\ rest[c] # "none" \/ loose[c] # Nothing
          /\ Mishap("cancel") /\ UNCHANGED <<rest, loose>>
    /\ stops' \in {stops, [stops EXCEPT ![c] = {}]}
    /\ Pop(c)
    /\ todo' = todo \ {<<c, "cancel">>}
    /\ UNCHANGED <<cfg, pos, stored, filled, step, view, queue, batch>>

\* a timed-out scalp is forgotten although its close was refused
TimeOut_Forgets(c) ==
    /\ step = "manage" /\ <<c, "close">> \in todo
    /\ Close(c) \/ UNCHANGED exchange
    /\ Pop(c)
    /\ todo' = todo \ {<<c, "close">>}
    /\ UNCHANGED <<cfg, stored, filled, suffered, step, view, queue, batch>>

\* a market close after the longest hold: taken (also if only in part), or
\* not as far as the pass can tell
TimeOut(c) ==
    /\ step = "manage" /\ <<c, "close">> \in todo
    /\ \/ Close(c) /\ Pop(c) /\ UNCHANGED suffered
       \/ CloseHalf(c) /\ Mishap("partial") /\ Pop(c)
       \/ Close(c) /\ UNCHANGED <<recs, suffered>>
       \/ UNCHANGED <<exchange, recs, suffered>>
    /\ todo' = todo \ {<<c, "close">>}
    /\ UNCHANGED <<cfg, stored, filled, step, view, queue, batch>>

Count(r, s) == Cardinality({c \in Coins : r[c].side = s})

\* Batch(recs, entries_this_candle): a counter that cannot be read is 0
StartBatch ==
    /\ step = "manage" /\ todo = {}
    /\ \E n \in {entries, 0} :
          /\ IF n = entries THEN UNCHANGED suffered ELSE Mishap("kv")
          /\ batch' = [LONG |-> Count(recs, "LONG"), SHORT |-> Count(recs, "SHORT"), candle |-> n]
    /\ step' = "setups"
    /\ UNCHANGED <<cfg, exchange, stored, filled, view, recs, todo, queue>>

-----------------------------------------------------------------------------
(* The setups, in their order.                                             *)

Setup == Head(queue)
Mine == recs[Setup.coin]
Considers == step = "setups" /\ queue # <<>>
Flips == Mine.state = "open" /\ cfg.mode = "engine" /\ Setup.side # Mine.side

\* Batch.check, without the dollars at risk
Allows(b, s) == b.candle < cfg.new /\ b.LONG + b.SHORT < cfg.open /\ b[s] < cfg.perSide
AllowsAdd(b) == b.candle < cfg.new

Committed(b, s) == [b EXCEPT ![s] = @ + 1, !.candle = @ + 1]
CommittedAdd(b) == [b EXCEPT !.candle = @ + 1]

\* POSITION_EXISTS, or turned down by the entry checks, the limits or the exchange
TurnDown ==
    /\ Considers /\ Mine.state # "open"
    /\ NextSetup("setups")
    /\ UNCHANGED <<cfg, exchange, stored, filled, suffered, view, recs, todo, batch>>

\* a new entry: neither recorded nor held, and within the limits
Enters ==
    /\ Considers /\ Mine = NoRec /\ view[Setup.coin] = Flat
    /\ Allows(batch, Setup.side)

GoMarket ==
    /\ Enters /\ cfg.mode = "engine"
    /\ step' = "open"
    /\ UNCHANGED <<cfg, exchange, stored, filled, suffered, view, recs, todo, queue, batch>>

Capped(n) == IF n > MaxSize THEN MaxSize ELSE n

Traded(x, s, n) ==
    CASE x.side \in {s, "none"} -> [side |-> s, size |-> Capped(x.size + n)]
      [] x.side \notin {s, "none"} /\ x.size = n -> Flat
      [] x.side \notin {s, "none"} /\ x.size > n -> [x EXCEPT !.size = @ - n]
      [] x.side \notin {s, "none"} /\ x.size < n -> [side |-> s, size |-> n - x.size]

Trade(c, s) ==
    /\ pos' = [pos EXCEPT ![c] = Traded(@, s, 2)] /\ filled' = filled + 1
    /\ UNCHANGED <<rest, loose>>

\* the stops after a fill: those of a position that stays, and the one attached to the entry
StopsKept(c) == IF pos'[c].side = pos[c].side THEN stops[c] ELSE {}
Attached(c, s) == IF pos'[c].side = s THEN {StopOf(2)} ELSE {}

\* n of an entry fills; its exits may be active before all of it has filled
FillsInPart(c, s, n) ==
    /\ pos' = [pos EXCEPT ![c] = Traded(@, s, n)]
    /\ \E more \in {{}, Attached(c, s)} : stops' = [stops EXCEPT ![c] = StopsKept(c) \union more]

Counted ==
    /\ batch' = Committed(batch, Setup.side)
    /\ NextSetup("count")

\* _scalp_place: a limit entry with its stop and target attached.  It rests,
\* also beside one the book does not know; or it fills, in full or in part; or
\* it rests and nobody heard.
PlaceLimit ==
    /\ Enters /\ cfg.mode = "limit"
    /\ LET c == Setup.coin  s == Setup.side
           Resting ==
               /\ rest' = [rest EXCEPT ![c] = s] /\ filled' = filled + 1 /\ UNCHANGED <<pos, stops>>
               /\ IF rest[c] = "none" THEN UNCHANGED loose ELSE MoreLoose(c, rest[c], 2)
       IN \/ Resting /\ Record(c, Rec(s, "pending", FALSE)) /\ Counted /\ UNCHANGED suffered
          \/ /\ Trade(c, s) /\ stops' = [stops EXCEPT ![c] = {StopOf(2)}]
             /\ Record(c, Rec(s, "open", FALSE)) /\ Counted /\ UNCHANGED suffered
          \/ /\ FillsInPart(c, s, 1) /\ MoreLoose(c, s, 1) /\ filled' = filled + 1 /\ UNCHANGED rest
             /\ Record(c, Rec(s, "open", FALSE)) /\ Counted /\ Mishap("part_fill")
          \/ Resting /\ Mishap("reply") /\ NextSetup("setups") /\ UNCHANGED <<recs, batch>>
    /\ UNCHANGED <<cfg, stored, view, todo>>

\* _scalp_market: execute answers no; it filled and nobody heard; it is open
\* with its stop; it is open and its stop was not confirmed.  After a flip the
\* counters move only in the third case.
OpenMarket(flip) ==
    /\ step = IF flip THEN "reopen" ELSE "open"
    /\ LET c == Setup.coin  s == Setup.side
           GivesUp == NextSetup(IF flip THEN "save" ELSE "setups") /\ UNCHANGED <<recs, batch>>
       IN \/ GivesUp /\ UNCHANGED <<exchange, filled, suffered>>
          \/ GivesUp /\ Trade(c, s) /\ UNCHANGED stops /\ Mishap("reply")
          \/ /\ Trade(c, s) /\ stops' = [stops EXCEPT ![c] = {StopOf(2)}]
             /\ Record(c, Rec(s, "open", FALSE)) /\ Counted /\ UNCHANGED suffered
          \/ /\ Trade(c, s) /\ stops' \in {stops, [stops EXCEPT ![c] = {StopOf(2)}]}
             /\ Record(c, Rec(s, "open", TRUE))
             /\ step' = IF flip THEN "rebare" ELSE "bare"
             /\ IF flip THEN Mishap("bare_flip") ELSE UNCHANGED suffered
             /\ UNCHANGED <<queue, batch>>
    /\ UNCHANGED <<cfg, stored, view, todo>>

\* an entry whose stop was not confirmed is closed at once; the record goes
\* only when the account then shows the coin flat
CloseBare(flip) ==
    /\ step = IF flip THEN "rebare" ELSE "bare"
    /\ \/ Close(Setup.coin) /\ (Pop(Setup.coin) \/ UNCHANGED recs)
       \/ (CloseHalf(Setup.coin) \/ UNCHANGED exchange) /\ UNCHANGED recs
    /\ IF flip THEN NextSetup("save") /\ UNCHANGED batch ELSE Counted
    /\ UNCHANGED <<cfg, stored, filled, suffered, view, todo>>

(* _scalp_flip: close, look what is left, and only then cancel and reopen. *)

FlipClose ==
    /\ Considers /\ Flips
    /\ LET c == Setup.coin
           Taken == UNCHANGED queue /\ step' = "left"
       IN \/ UNCHANGED exchange /\ NextSetup("save")
          \/ Close(c) /\ (NextSetup("save") \/ Taken)
          \/ CloseHalf(c) /\ Taken
    /\ UNCHANGED <<cfg, stored, filled, suffered, view, recs, todo, batch>>

\* the exits are cancelled and the record dropped on the answer to the close
FlipLeft_Trusts ==
    /\ step = "left"
    /\ stops' = [stops EXCEPT ![Setup.coin] = {}]
    /\ Pop(Setup.coin)
    /\ \/ NextSetup("save")
       \/ Allows(batch, Setup.side) /\ step' = "reopen" /\ UNCHANGED queue
    /\ UNCHANGED <<cfg, pos, rest, loose, stored, filled, suffered, view, todo, batch>>

FlipLeft ==
    /\ step = "left"
    /\ \/ NextSetup("save") /\ UNCHANGED recs                  \* unreadable, or a rest is left
       \/ /\ pos[Setup.coin] = Flat
          /\ Pop(Setup.coin)
          /\ \/ NextSetup("save")
             \/ Allows(batch, Setup.side) /\ step' = "reopen" /\ UNCHANGED queue
    /\ UNCHANGED <<cfg, exchange, stored, filled, suffered, view, todo, batch>>

(* _scalp_update: an add, or a tighter stop placed before the old ones go. *)

Updates == Considers /\ Mine.state = "open" /\ ~Flips

KeepLevels ==
    /\ Updates
    /\ NextSetup("save")
    /\ UNCHANGED <<cfg, exchange, stored, filled, suffered, view, recs, todo, batch>>

\* plan_update and exit_state: the setup and the position are on the record's side
SameWay == Updates /\ Setup.side = Mine.side /\ Held(Setup.coin, Mine)

\* a reduce-only order is taken only while there is something to reduce
PlaceStop(n) ==
    /\ pos[Setup.coin].size > 0
    /\ stops' = [stops EXCEPT ![Setup.coin] = @ \union {StopOf(n)}]
    /\ UNCHANGED <<pos, rest, loose>>

TightenStop ==
    /\ SameWay
    /\ PlaceStop(view[Setup.coin].size)
    /\ step' = "swap"
    /\ UNCHANGED <<cfg, stored, filled, suffered, view, recs, todo, queue, batch>>

Listed == {o \in stops[Setup.coin] : o.listed}

\* the stops listed before the pass go, those whose cancel does not fail
DropOldStops ==
    /\ step = "swap"
    /\ \E gone \in SUBSET Listed :
          /\ IF gone = Listed THEN UNCHANGED suffered ELSE Mishap("cancel")
          /\ stops' = [stops EXCEPT ![Setup.coin] = @ \ gone]
    /\ NextSetup(IF batch.candle > entries THEN "count" ELSE "save")
    /\ UNCHANGED <<cfg, pos, rest, loose, stored, filled, view, recs, todo, batch>>

\* _scalp_add, _scalp_add_fixed: a market add, refused or filled
Add ==
    /\ SameWay /\ Mine.adds < cfg.adds /\ AllowsAdd(batch)
    /\ Trade(Setup.coin, Setup.side)
    /\ \/ /\ IF pos[Setup.coin] = view[Setup.coin] THEN UNCHANGED suffered ELSE Mishap("stale_add")
          /\ step' = "cover" /\ UNCHANGED queue
       \/ NextSetup("save") /\ Mishap("reply")
    /\ UNCHANGED <<cfg, stops, stored, view, recs, todo, batch>>

\* the old stops are left as they are: the new size is not covered
CoverAdd_NoStop ==
    /\ step = "cover"
    /\ Record(Setup.coin, [Mine EXCEPT !.adds = @ + 1, !.bare = FALSE])
    /\ batch' = CommittedAdd(batch)
    /\ step' = "swap"
    /\ UNCHANGED <<cfg, exchange, stored, filled, suffered, view, todo, queue>>

\* _scalp_protect_add: a stop for the size the account shows, or for the
\* planned one when it cannot be read; then the old stops go
CoverAdd ==
    /\ step = "cover"
    /\ \/ /\ PlaceStop(pos[Setup.coin].size) \/ PlaceStop(Capped(view[Setup.coin].size + 2))
          /\ Record(Setup.coin, [Mine EXCEPT !.adds = @ + 1, !.bare = FALSE])
          /\ batch' = CommittedAdd(batch)
          /\ step' = "swap" /\ UNCHANGED suffered
       \/ /\ Mishap("unwind")
          /\ step' = "uncover"
          /\ UNCHANGED <<exchange, recs, batch>>
    /\ UNCHANGED <<cfg, stored, filled, view, todo, queue>>

\* the added size is closed again, or the record says it could not be
UndoAdd ==
    /\ step = "uncover"
    /\ LET c == Setup.coin  before == view[c].size
           Undone == pos[c].size > before /\ pos' = [pos EXCEPT ![c].size = before]
       IN /\ \/ Undone /\ UNCHANGED recs
             \/ Undone /\ Record(c, [Mine EXCEPT !.bare = TRUE])
             \/ UNCHANGED pos /\ Record(c, [Mine EXCEPT !.bare = TRUE])
    /\ batch' = CommittedAdd(batch)
    /\ NextSetup("save")
    /\ UNCHANGED <<cfg, rest, loose, stops, stored, filled, suffered, view, todo>>

-----------------------------------------------------------------------------
(* The writes.  A failed one is swallowed.                                 *)

\* the count of this candle's entries is kept in memory only
SaveCount_Skipped ==
    /\ step = "count" /\ step' = "save"
    /\ UNCHANGED <<cfg, exchange, stored, filled, suffered, view, recs, todo, queue, batch>>

SaveCount ==
    /\ step = "count" /\ step' = "save"
    /\ \/ entries' = batch.candle /\ UNCHANGED suffered
       \/ Mishap("kv") /\ UNCHANGED entries
    /\ UNCHANGED <<cfg, exchange, saved, offered, filled, view, recs, todo, queue, batch>>

\* after a setup that changed something, and once more at the end of the pass
Save ==
    /\ step = "save" \/ (step = "setups" /\ queue = <<>>)
    /\ \/ saved' = recs /\ UNCHANGED suffered
       \/ Mishap("kv") /\ UNCHANGED saved
    /\ step' = IF step = "save" THEN "setups" ELSE "done"
    /\ UNCHANGED <<cfg, exchange, entries, offered, filled, view, recs, todo, queue, batch>>

-----------------------------------------------------------------------------
(* The exchange on its own, and the next candle.                           *)

\* a pass may still act on the account as it was before
Reading == step \in {"orders", "manage"}

Fill(c) ==
    /\ rest[c] # "none"
    /\ rest' = [rest EXCEPT ![c] = "none"]
    /\ pos' = [pos EXCEPT ![c] = Traded(@, rest[c], 2)]
    /\ stops' = [stops EXCEPT ![c] = StopsKept(c) \union Attached(c, rest[c])]
    /\ IF Reading THEN Mishap("late_fill") ELSE UNCHANGED suffered
    /\ UNCHANGED <<cfg, loose, stored, filled, locals>>

\* half of an entry: what is left of it is loose from now on
FillPart(c) ==
    /\ rest[c] # "none"
    /\ FillsInPart(c, rest[c], 1) /\ MoreLoose(c, rest[c], 1)
    /\ rest' = [rest EXCEPT ![c] = "none"]
    /\ Mishap("part_fill")
    /\ UNCHANGED <<cfg, stored, filled, locals>>

FillLoose(c) ==
    /\ \E s \in Sides, n \in 1..2 : LessLoose(c, s, n) /\ FillsInPart(c, s, n)
    /\ UNCHANGED <<cfg, rest, suffered, stored, filled, locals>>

\* its stop or its target
Exit(c) ==
    /\ pos[c].size > 0 /\ stops[c] # {}
    /\ Close(c)
    /\ UNCHANGED <<cfg, stored, filled, locals, suffered>>

NewCandle ==
    /\ step = "idle" /\ offered # {}
    /\ offered' = {} /\ entries' = 0 /\ filled' = 0
    /\ UNCHANGED <<cfg, exchange, saved, suffered, locals>>

Work ==
    \/ ReadAccount \/ Sweep
    \/ \E c \in Coins : CancelEntry(c) \/ TimeOut(c)
    \/ StartBatch \/ TurnDown \/ GoMarket \/ PlaceLimit
    \/ \E flip \in BOOLEAN : OpenMarket(flip) \/ CloseBare(flip)
    \/ FlipClose \/ FlipLeft
    \/ KeepLevels \/ TightenStop \/ Add \/ CoverAdd \/ UndoAdd \/ DropOldStops
    \/ SaveCount \/ Save

BookNext ==
    \/ Begin \/ Work \/ Stop
    \/ \E c \in Coins : Fill(c) \/ FillPart(c) \/ FillLoose(c) \/ Exit(c)
    \/ NewCandle

BookSpec == BookInit /\ [][BookNext]_vars

-----------------------------------------------------------------------------
(* Properties.  Each names the mishaps that break it.                      *)

Side(c) == IF rest[c] # "none" THEN rest[c] ELSE pos[c].side

(* Every scalp the book has on the exchange is on record between passes,   *)
(* whatever closes were refused, stops were not confirmed or adds were     *)
(* undone: what is not on record is never managed again (_scalp_hl:        *)
(* "Running scalps are always managed").  An entry that fills in part is   *)
(* not kept so: its record goes with the position that part opened, and    *)
(* what is left of it rests on (scalp_live.sweep).                         *)
EveryScalpOnRecord ==
    step = "idle" /\ suffered \subseteq {"bare_flip", "unwind"} =>
        \A c \in Coins : Side(c) # "none" => saved[c].side = Side(c)

\* no fill, reply or KV command goes astray, and with limit entries the book
\* neither adds nor leaves an entry resting that it does not know: what such an
\* entry fills between the reading and a new stop is not in that stop's size
Steady ==
    IF cfg.mode = "engine" THEN suffered \intersect {"late_fill", "reply", "kv"} = {}
    ELSE cfg.adds = 0 /\ suffered \subseteq {"partial"}

Covered(c) == \E o \in stops[c] : o.size >= pos[c].size

(* No step takes the last stop of a recorded scalp that stays open, not    *)
(* even if the pass ends right after it: exits go only once the coin is    *)
(* flat or a new stop stands (_scalp_flip, _scalp_update,                  *)
(* _scalp_protect_add: "confirmed, before the old stops go").              *)
StopKept ==
    [][Steady' =>
         \A c \in Coins :
            Covered(c) /\ saved[c].side = pos[c].side /\ pos'[c].side = pos[c].side
                    /\ pos'[c].size \in 1..pos[c].size =>
                Covered(c)']_vars

(* A scalp whose size no stop covers is closed, or its record says so.     *)
BareIsFlagged ==
    step = "idle" /\ suffered \subseteq {"bare_flip", "unwind", "partial"} =>
        \A c \in Coins :
            saved[c].state = "open" /\ pos[c].side = saved[c].side /\ ~Covered(c) => saved[c].bare

(* The book never enters a coin it already trades: one entry or position   *)
(* per coin, until one fills in part, and as many adds as allowed.  An add *)
(* that could be neither covered nor undone is not counted                 *)
(* (_scalp_add_fixed returns before it), so the book may add once more.    *)
OneScalpPerCoin ==
    /\ suffered \subseteq {"bare_flip", "unwind", "partial"} =>
           \A c \in Coins : (rest[c] = "none" \/ pos[c] = Flat) /\ loose[c] = Nothing
    /\ suffered \subseteq {"bare_flip", "partial"} =>
           \A c \in Coins : pos[c].size <= 2 * (1 + cfg.adds)

Exposed(s) == {c \in Coins : Side(c) = s}

(* The limits hold for what is on the exchange, over all passes of a       *)
(* candle: per candle, per direction and in all (scalp_guard.Batch).       *)
WithinLimits ==
    suffered = {} =>
        /\ filled <= cfg.new
        /\ \A s \in Sides : Cardinality(Exposed(s)) <= cfg.perSide
        /\ Cardinality(UNION {Exposed(s) : s \in Sides}) <= cfg.open

(* Each entry is counted the moment it fills (the docstring of _scalp_hl). *)
EveryEntryCounted == suffered \subseteq {"bare_flip"} => filled <= cfg.new
=============================================================================
