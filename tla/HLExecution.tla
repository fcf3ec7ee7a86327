---------------------------- MODULE HLExecution -----------------------------
(***************************************************************************)
(* Opening positions on Hyperliquid: hl_exchange.open_position and the     *)
(* passes that call it (app._hl_auto_execute_pass with hl_autoexec.execute *)
(* and POST /api/hl/execute), with the part of the 15m scalp pass that     *)
(* opens positions beside them.                                            *)
(*                                                                         *)
(* A request is a thread of a serverless instance.  Requests of ONE        *)
(* instance are serialised by app._hl_execute_lock while they read the     *)
(* account and place orders; instances share the KV and the exchange only. *)
(* One order is one unit of exposure.  Reduce-only orders (stops, targets) *)
(* open nothing and are the subject of HLProtect.                          *)
(***************************************************************************)
EXTENDS Naturals, FiniteSets, SequencesExt

CONSTANTS
    Instances,
    Autos, Manuals, Scalps,  \* the requests, by what they run
    InstanceOf,              \* InstanceOf[r]: the instance request r runs in
    Signals, Coins,
    CoinOf,                  \* CoinOf[s]: the coin signal s trades
    MaxOrdersPerRun,         \* hl_exchange.caps: HL_MAX_ORDERS_PER_RUN
    MaxExposure,             \* HL_MAX_EXPOSURE_USD, in orders
    ExchangeDedups,          \* does the exchange refuse a client order id it has seen?
    Faults,                  \* what may go wrong
    MaxHeld, MaxFills,       \* bounds: orders on one coin, fills of one signal
    NoRequest,               \* "nobody holds the lock"
    NoSignal                 \* "no signal in hand"

Requests == Autos \union Manuals \union Scalps

\* send_reply: an order is filled and the sender sees an exception
\* kv_down, kv_reply, disk, crash: as in ClaimLedger
AllFaults == {"send_reply", "kv_down", "kv_reply", "disk", "crash"}

ASSUME HLExecutionAssumption ==
    /\ Autos \intersect Manuals = {} /\ (Autos \union Manuals) \intersect Scalps = {}
    /\ InstanceOf \in [Requests -> Instances]
    /\ CoinOf \in [Signals -> Coins]
    /\ MaxOrdersPerRun \in Nat /\ MaxExposure \in Nat
    /\ ExchangeDedups \in BOOLEAN
    /\ Faults \subseteq AllFaults
    /\ MaxHeld \in Nat \ {0} /\ MaxFills \in Nat \ {0}
    /\ NoRequest \notin Requests /\ NoSignal \notin Signals

VARIABLES
    held,      \* held[c]: orders' worth of position on coin c (exchange)
    known,     \* the signals whose client order id the exchange has seen
    fills,     \* fills[s]: how often an order for signal s was filled
    redis,     \* the order keys claimed in the shared KV
    file,      \* file[i]: the order keys in instance i's fallback file
    scalp,     \* the coins the scalp book has a record of (KV)
    lock,      \* lock[i]: the request holding instance i's execute lock
    pc,        \* pc[r]: where request r is
    todo,      \* todo[r]: the signals r has not considered yet
    cur,       \* cur[r]: the signal r is working on
    snap,      \* snap[r][c]: the position on coin c in r's account snapshot
    placed     \* placed[r]: run_order_count

exchange == <<held, known, fills>>
ledger   == <<redis, file>>
plan     == <<todo, cur>>
snapshot == <<snap, placed>>
vars == <<exchange, ledger, scalp, lock, pc, plan, snapshot>>

Steps == {"idle", "wait", "filter", "next", "lookup", "claim", "send", "release", "record"}

TypeOK ==
    /\ held \in [Coins -> 0..MaxHeld]
    /\ known \subseteq Signals
    /\ fills \in [Signals -> 0..MaxFills]
    /\ redis \subseteq Signals
    /\ file \in [Instances -> SUBSET Signals]
    /\ scalp \subseteq Coins
    /\ lock \in [Instances -> Requests \union {NoRequest}]
    /\ pc \in [Requests -> Steps]
    /\ todo \in [Requests -> SUBSET Signals]
    /\ cur \in [Requests -> Signals \union {NoSignal}]
    /\ snap \in [Requests -> [Coins -> Nat]]
    /\ placed \in [Requests -> Nat]

NoAccount == [c \in Coins |-> 0]

Init ==
    /\ held = [c \in Coins |-> 0]
    /\ known = {}
    /\ fills = [s \in Signals |-> 0]
    /\ redis = {}
    /\ file = [i \in Instances |-> {}]
    /\ scalp = {}
    /\ lock = [i \in Instances |-> NoRequest]
    /\ pc = [r \in Requests |-> "idle"]
    /\ todo = [r \in Requests |-> {}]
    /\ cur = [r \in Requests |-> NoSignal]
    /\ snap = [r \in Requests |-> NoAccount]
    /\ placed = [r \in Requests |-> 0]

May(fault) == fault \in Faults

Goto(r, step) == pc' = [pc EXCEPT ![r] = step]

\* open_position returns: the pass turns to its next signal
NextSignal(r) == Goto(r, "next") /\ cur' = [cur EXCEPT ![r] = NoSignal]

\* the requests of R end and their local variables are gone
Return(R) ==
    /\ pc' = [r \in Requests |-> IF r \in R THEN "idle" ELSE pc[r]]
    /\ todo' = [r \in Requests |-> IF r \in R THEN {} ELSE todo[r]]
    /\ cur' = [r \in Requests |-> IF r \in R THEN NoSignal ELSE cur[r]]
    /\ snap' = [r \in Requests |-> IF r \in R THEN NoAccount ELSE snap[r]]
    /\ placed' = [r \in Requests |-> IF r \in R THEN 0 ELSE placed[r]]

CoinOrder == SetToSeq(Coins)

\* Running(account)[n]: the notional of the positions on the first n coins
Running(account) ==
    LET sum[n \in 0..Cardinality(Coins)] ==
            IF n = 0 THEN 0 ELSE sum[n - 1] + account[CoinOrder[n]]
    IN  sum

\* the notional of all positions of an account (or of a snapshot of it)
Exposure(account) == Running(account)[Cardinality(Coins)]

-----------------------------------------------------------------------------
(* Choosing the signals, before the lock is taken.                         *)

\* the scalp book's coins are not left out
SelectAuto_IgnoresBusy(r) ==
    /\ r \in Autos /\ pc[r] = "idle"
    /\ \E S \in SUBSET Signals \ {{}} :
        /\ \A s, t \in S : CoinOf[s] = CoinOf[t] => s = t
        /\ todo' = [todo EXCEPT ![r] = S]
    /\ Goto(r, "wait")
    /\ UNCHANGED <<exchange, ledger, scalp, lock, cur, snapshot>>

\* One row per symbol and candle, so the coins differ; symbols the scalp
\* book is busy with are left out.
SelectAuto(r) ==
    /\ r \in Autos /\ pc[r] = "idle"
    /\ \E S \in SUBSET Signals \ {{}} :
        /\ \A s, t \in S : CoinOf[s] = CoinOf[t] => s = t
        /\ \A s \in S : CoinOf[s] \notin scalp
        /\ todo' = [todo EXCEPT ![r] = S]
    /\ Goto(r, "wait")
    /\ UNCHANGED <<exchange, ledger, scalp, lock, cur, snapshot>>

\* POST /api/hl/execute: one signal, with an explicit ref
SelectManual(r) ==
    /\ r \in Manuals /\ pc[r] = "idle"
    /\ \E s \in Signals : todo' = [todo EXCEPT ![r] = {s}]
    /\ Goto(r, "wait")
    /\ UNCHANGED <<exchange, ledger, scalp, lock, cur, snapshot>>

SelectScalp(r) ==
    /\ r \in Scalps /\ pc[r] = "idle"
    /\ Goto(r, "wait")
    /\ UNCHANGED <<exchange, ledger, scalp, lock, plan, snapshot>>

-----------------------------------------------------------------------------
(* Under the lock: the account snapshot.                                   *)

\* the account is read without the lock
ReadAccount_Unlocked(r) ==
    /\ pc[r] = "wait"
    /\ lock' = [lock EXCEPT ![InstanceOf[r]] = r]
    /\ snap' = [snap EXCEPT ![r] = held]
    /\ placed' = [placed EXCEPT ![r] = 0]
    /\ Goto(r, IF r \in Autos THEN "filter" ELSE "next")
    /\ UNCHANGED <<exchange, ledger, scalp, plan>>

ReadAccount(r) ==
    /\ pc[r] = "wait" /\ lock[InstanceOf[r]] = NoRequest
    /\ lock' = [lock EXCEPT ![InstanceOf[r]] = r]
    /\ snap' = [snap EXCEPT ![r] = held]
    /\ placed' = [placed EXCEPT ![r] = 0]
    /\ Goto(r, IF r \in Autos THEN "filter" ELSE "next")
    /\ UNCHANGED <<exchange, ledger, scalp, plan>>

\* the scalp book has its own exposure cap: its coins leave the snapshot
DropScalpCoins(r) ==
    /\ pc[r] = "filter"
    /\ snap' = [snap EXCEPT ![r] = [c \in Coins |-> IF c \in scalp THEN 0 ELSE @[c]]]
    /\ Goto(r, "next")
    /\ UNCHANGED <<exchange, ledger, scalp, lock, plan, placed>>

-----------------------------------------------------------------------------
(* open_position for one signal of the pass.                               *)

\* MAX_ORDERS_PER_RUN or POSITION_EXISTS
Refuse(r) ==
    /\ pc[r] = "next" /\ r \notin Scalps
    /\ \E s \in todo[r] :
        /\ placed[r] >= MaxOrdersPerRun \/ snap[r][CoinOf[s]] > 0
        /\ todo' = [todo EXCEPT ![r] = @ \ {s}]
    /\ UNCHANGED <<exchange, ledger, scalp, lock, pc, cur, snapshot>>

Consider(r) ==
    /\ pc[r] = "next" /\ r \notin Scalps
    /\ \E s \in todo[r] :
        /\ placed[r] < MaxOrdersPerRun /\ snap[r][CoinOf[s]] = 0
        /\ todo' = [todo EXCEPT ![r] = @ \ {s}]
        /\ cur' = [cur EXCEPT ![r] = s]
    /\ Goto(r, "lookup")
    /\ UNCHANGED <<exchange, ledger, scalp, lock, snapshot>>

\* ALREADY_PLACED (exchange), ORDER_STATUS_UNAVAILABLE, NO_MARK_PRICE,
\* STALE_ENTRY or a can_place reason: the market and the lookup decide
LookupStops(r) ==
    /\ pc[r] = "lookup"
    /\ NextSignal(r)
    /\ UNCHANGED <<exchange, ledger, scalp, lock, todo, snapshot>>

\* the exchange is not asked, only the exposure is checked
LookupPasses_NotAsked(r) ==
    /\ pc[r] = "lookup"
    /\ Exposure(snap[r]) + 1 <= MaxExposure
    /\ Goto(r, "claim")
    /\ UNCHANGED <<exchange, ledger, scalp, lock, plan, snapshot>>

\* the exchange does not know the order and MAX_EXPOSURE does not bind
LookupPasses(r) ==
    /\ pc[r] = "lookup"
    /\ cur[r] \notin known
    /\ Exposure(snap[r]) + 1 <= MaxExposure
    /\ Goto(r, "claim")
    /\ UNCHANGED <<exchange, ledger, scalp, lock, plan, snapshot>>

ClaimShared(r) ==
    /\ pc[r] = "claim"
    /\ cur[r] \notin redis
    /\ redis' = redis \union {cur[r]}
    /\ Goto(r, "send")
    /\ UNCHANGED <<exchange, file, scalp, lock, plan, snapshot>>

\* won in the instance's fallback file
ClaimFile(r) ==
    LET i == InstanceOf[r] IN
    /\ pc[r] = "claim"
    /\ cur[r] \notin file[i]
    /\ \/ May("kv_down") /\ redis' = redis
       \/ May("kv_reply") /\ redis' = redis \union {cur[r]}
    /\ \/ file' = [file EXCEPT ![i] = @ \union {cur[r]}]
       \/ May("disk") /\ file' = file
    /\ Goto(r, "send")
    /\ UNCHANGED <<exchange, scalp, lock, plan, snapshot>>

\* ALREADY_PLACED (claim); a key the file refuses may have been set in Redis
ClaimLost(r) ==
    /\ pc[r] = "claim"
    /\ \/ /\ cur[r] \in redis \/ (May("kv_down") /\ cur[r] \in file[InstanceOf[r]])
          /\ redis' = redis
       \/ /\ May("kv_reply") /\ cur[r] \in file[InstanceOf[r]]
          /\ redis' = redis \union {cur[r]}
    /\ NextSignal(r)
    /\ UNCHANGED <<exchange, file, scalp, lock, todo, snapshot>>

\* the client order id is drawn afresh, so the exchange cannot know it
Execute_FreshId(s) ==
    /\ held[CoinOf[s]] < MaxHeld /\ fills[s] < MaxFills
    /\ held' = [held EXCEPT ![CoinOf[s]] = @ + 1]
    /\ fills' = [fills EXCEPT ![s] = @ + 1]
    /\ known' = known

\* the exchange executes the market order of signal s under its client
\* order id, a function of the signal and its candle
Execute(s) ==
    /\ ExchangeDedups => s \notin known
    /\ held[CoinOf[s]] < MaxHeld /\ fills[s] < MaxFills
    /\ held' = [held EXCEPT ![CoinOf[s]] = @ + 1]
    /\ fills' = [fills EXCEPT ![s] = @ + 1]
    /\ known' = known \union {s}

\* accepted: count it and reflect it into the snapshot (_reflect_open)
SendAccepted_NotReflected(r) ==
    /\ pc[r] = "send"
    /\ Execute(cur[r])
    /\ placed' = [placed EXCEPT ![r] = @ + 1]
    /\ NextSignal(r)
    /\ UNCHANGED <<ledger, scalp, lock, todo, snap>>

SendAccepted(r) ==
    /\ pc[r] = "send"
    /\ Execute(cur[r])
    /\ placed' = [placed EXCEPT ![r] = @ + 1]
    /\ snap' = [snap EXCEPT ![r][CoinOf[cur[r]]] = @ + 1]
    /\ NextSignal(r)
    /\ UNCHANGED <<ledger, scalp, lock, todo>>

\* rejected inside a 200; the exchange may or may not remember the id
SendRejected(r) ==
    /\ pc[r] = "send"
    /\ known' \in {known, known \union {cur[r]}}
    /\ Goto(r, "release")
    /\ UNCHANGED <<held, fills, ledger, scalp, lock, plan, snapshot>>

\* an exception: the order was not sent (leverage refused, no network), or
\* it was filled and the reply was lost
SendRaises(r) ==
    /\ pc[r] = "send"
    /\ \/ UNCHANGED exchange
       \/ May("send_reply") /\ Execute(cur[r])
    /\ Goto(r, "release")
    /\ UNCHANGED <<ledger, scalp, lock, plan, snapshot>>

ReleaseShared(r) ==
    /\ pc[r] = "release"
    /\ redis' = redis \ {cur[r]}
    /\ NextSignal(r)
    /\ UNCHANGED <<exchange, file, scalp, lock, todo, snapshot>>

ReleaseFile(r) ==
    LET i == InstanceOf[r] IN
    /\ pc[r] = "release"
    /\ \/ May("kv_down") /\ redis' = redis
       \/ May("kv_reply") /\ redis' = redis \ {cur[r]}
    /\ \/ file' = [file EXCEPT ![i] = @ \ {cur[r]}]
       \/ May("disk") /\ file' = file
    /\ NextSignal(r)
    /\ UNCHANGED <<exchange, scalp, lock, todo, snapshot>>

Finish(r) ==
    /\ pc[r] = "next" /\ todo[r] = {} /\ r \notin Scalps
    /\ lock' = [lock EXCEPT ![InstanceOf[r]] = NoRequest]
    /\ Return({r})
    /\ UNCHANGED <<exchange, ledger, scalp>>

-----------------------------------------------------------------------------
(* The scalp pass, as far as the other passes can see it: it opens a coin  *)
(* its snapshot shows free and writes the record afterwards.               *)

ScalpOpen(r) ==
    /\ r \in Scalps /\ pc[r] = "next"
    /\ \E c \in Coins :
        /\ snap[r][c] = 0 /\ held[c] < MaxHeld
        /\ held' = [held EXCEPT ![c] = @ + 1]
        /\ snap' = [snap EXCEPT ![r] = [d \in Coins |-> IF d = c THEN 1 ELSE 0]]
    /\ Goto(r, "record")
    /\ UNCHANGED <<known, fills, ledger, scalp, lock, plan, placed>>

ScalpRecord(r) ==
    /\ pc[r] = "record"
    /\ scalp' = scalp \union {c \in Coins : snap[r][c] > 0}
    /\ lock' = [lock EXCEPT ![InstanceOf[r]] = NoRequest]
    /\ Return({r})
    /\ UNCHANGED <<exchange, ledger>>

\* the book drops the record of a coin that is no longer held
ScalpForget(c) ==
    /\ c \in scalp /\ held[c] = 0
    /\ scalp' = scalp \ {c}
    /\ UNCHANGED <<exchange, ledger, lock, pc, plan, snapshot>>

-----------------------------------------------------------------------------
(* The environment.                                                        *)

\* a stop, a target, a liquidation or the owner closes the position
Close(c) ==
    /\ held[c] > 0
    /\ held' = [held EXCEPT ![c] = 0]
    /\ UNCHANGED <<known, fills, ledger, scalp, lock, pc, plan, snapshot>>

\* the platform stops instance i with everything that runs in it
Crash(i) ==
    /\ May("crash")
    /\ \E r \in Requests : InstanceOf[r] = i /\ pc[r] # "idle"
    /\ Return({r \in Requests : InstanceOf[r] = i})
    /\ lock' = [lock EXCEPT ![i] = NoRequest]
    /\ file' \in {file, [file EXCEPT ![i] = {}]}
    /\ UNCHANGED <<exchange, redis, scalp>>

Select(r) == SelectAuto(r) \/ SelectManual(r) \/ SelectScalp(r)

Guard(r) ==
    ReadAccount(r) \/ DropScalpCoins(r) \/ Refuse(r) \/ Consider(r)
        \/ LookupStops(r) \/ LookupPasses(r)

Claim(r) == ClaimShared(r) \/ ClaimFile(r) \/ ClaimLost(r)

Send(r) == SendAccepted(r) \/ SendRejected(r) \/ SendRaises(r)

Conclude(r) == ReleaseShared(r) \/ ReleaseFile(r) \/ Finish(r)

Scalp(r) == ScalpOpen(r) \/ ScalpRecord(r)

Next ==
    \/ \E r \in Requests : Select(r) \/ Guard(r) \/ Claim(r) \/ Send(r) \/ Conclude(r) \/ Scalp(r)
    \/ \E c \in Coins : ScalpForget(c) \/ Close(c)
    \/ \E i \in Instances : Crash(i)

Spec == Init /\ [][Next]_vars

-----------------------------------------------------------------------------
(* No signal is ever filled twice: hl_execution's "placement is            *)
(* exactly-once per cause", over retries, instances and lost replies.      *)
OneFillPerCause == \A s \in Signals : fills[s] <= 1

Once == INSTANCE OncePerKey WITH Keys <- Signals, effect <- fills

(* Opening orders implements OncePerKey, one key per causing signal.       *)
ImplementsOncePerKey == Once!Spec

(* The account never holds a second position on a coin (hl_exchange:       *)
(* "reconciled").                                                          *)
OnePositionPerCoin == \A c \in Coins : held[c] <= 1

(* What the open orders are worth stays within HL_MAX_EXPOSURE_USD.        *)
ExposureWithinCap == Exposure(held) <= MaxExposure

(* A pass acts on a snapshot taken before passes of other instances        *)
(* placed, so a coin may hold one position per instance, but no more:      *)
(* within an instance the lock and the reflected snapshot keep it to one.  *)
(* Beside the 15m book, whose coins a pass leaves out when it chooses its  *)
(* signals, before it waits for the lock, and hides from its own snapshot, *)
(* every waiting pass may open one more.                                   *)
StackingBounded ==
    \A c \in Coins : held[c] <=
        Cardinality(Instances) + (IF Scalps = {} THEN 0 ELSE Cardinality(Autos))
=============================================================================
