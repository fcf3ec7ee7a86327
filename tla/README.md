# Verification of the cryptoAIbadshah backend

TLA+ modules, TLC runs and TLAPS proofs for `src/backend/`. State machines for
the parts that act on the outside world or keep a record that must not be wrong:
the act-once ledger, opening positions on Hyperliquid and protecting them, the
15-minute scalp book and its lock, the published signals with the monitor that
decides their outcome, the daily close post, and the user accounts. Operators for
the rules those parts follow: the signal engine, charts and indicators, sizing,
the policy of publication, the scheduler's minutes, the paper account, the replay, the statistics of recorded
signals.

Contents: [the system](#the-system) · [inventory](#inventory) ·
[modules](#modules-and-how-they-correspond-to-the-code) · [runs](#runs) ·
[bounds](#bounds-and-why-they-are-enough) · [fairness](#fairness) ·
[proofs](#proofs) · [disagreements](#where-the-code-and-its-documents-disagree) ·
[not modelled](#not-modelled) · [plan](#plan)

## The system

A Flask application (`src/backend/app.py`) runs as serverless instances with a
60 second limit on a request (`vercel.json`). A Cloudflare worker
(`src/cloudflare/hl-manage-worker/worker.js`) wakes every minute and calls its
job endpoints: the position manager, the outcome monitor, the close post, the
15-minute scalp pass. People call the same endpoints by hand. Nothing prevents
two calls from overlapping, in one instance or in two, nor an instance from
being stopped between two of its remote calls.

The instances share four stores, and everything interesting happens between
them:

| store | who writes | what protects it |
|---|---|---|
| Redis KV (`kv.py`): dedup claims, the sets of the close post, the scalp book and its lock, first-seen times of unprotected coins | every job | `SET NX` for claims; plain `GET`/`SET` otherwise; a per-instance file when a command raises |
| Postgres: signals, targets, events, voids, users | publication, monitor, owner | row locks (`SELECT … FOR UPDATE`), unique keys, transactions |
| the exchange: positions, orders, client order ids | execute, manage, scalp, the owner, the market | deterministic client order ids; otherwise nothing |
| memory of one process: `_hl_execute_lock`, caches | requests of that instance | a `threading.Lock`, invisible to other instances |

## Inventory

For each component: state, operations, what is hard, what makes it correct.
The module in italics models it; the reasons for leaving parts out are under
[not modelled](#not-modelled).

**KV claim ledger and dispatch** (`kv.py`, `app._dispatch_once`,
`ops_alerts.send`) — *ClaimLedger, OncePerKey*. State: the claimed keys in
Redis, one fallback file per instance. Operations: `claim`, the act it guards,
`release` when the act fails; TTL expiry. Hard: a claim answered from a file
nobody else sees, a command executed whose reply is lost, a crash between claim
and act, a retry after a success nobody heard of. Correct: no cause takes
effect twice; a failed act is not lost for ever.

**Hyperliquid order placement** (`hl_exchange.open_position`,
`hl_execution.claim_order`, `hl_autoexec.execute`,
`app._hl_auto_execute_pass`, `POST /api/hl/execute`) — *HLExecution, HLSizing*. State: the
positions and known order ids (exchange), claims (KV), the execute lock, and in
each pass the signals left, the account snapshot, the orders placed. Hard: passes
that act on snapshots, two instances, two books on one account, lost fills. Correct:
one fill per signal, one position per coin, exposure within the cap.

**Hyperliquid position protection** (`hl_autoexec._attach_exits`,
`leftover_exits`, `hl_manage.run`, `plan`, `_track_unprotected`) —
*HLProtect*. State: the position, its resting orders, the first-seen time, and
in each pass what it read and what it will cancel. Hard: two reads that do not
belong together, orders filling meanwhile, cancels that did nothing, a fresh
entry whose exits are still on their way. Correct: nothing but a fill takes a
position's last stop away; a bare position gets one; old exits never touch a
new position.

**Signal lifecycle and outcome monitor** (`signal_store.py`,
`signal_monitor.py`, the archive and void endpoints) — *SignalStore,
SignalMonitor, MonitorRotation*. State: the row (status, fill, hit targets,
stop, return, extremes, event keys), and in each run its stale copy, the candles
fetched, the calls planned, the rows its transaction holds. Hard: overlapping
runs deciding on old rows, runs that come late or are cut off, candles in which
several things happened, one session for all signals. Correct: one ending,
never rewritten, a record that never flatters the strategy and a return that
follows from it, and no signal that is passed over for ever.

**15-minute scalp book** (`scalp_live.py`, `scalp_guard.py`,
`sweep_fvg.py`, `app._scalp_*`) — *ScalpLock, ScalpBook, ScalpSetups*. State: a KV lock with the time it was
taken, the saved records, the count of a candle's entries; in a pass the account
as read and the orders still to send. Operations: sweep, timeouts, entries in
two modes, flips, adds, tighter stops. Hard: a lock taken over by its time, a
record list read and written back whole, orders placed before the record is
saved, entries that fill in part, fills between a read and a cancel. Correct: one pass at a time, every
scalp on record and behind a stop, and limits that hold across passes.

**Publication of signals** (`close_publish.py`, `signal_publish.py`,
`rec_policy.py`, `publication_batch.py`, `app._close_*`) — *ClosePicks, ClosePublish,
SlotPublish, SignalPolicy*. State: the recorded signals, the
set of each close in the KV, the claims of the post and of the tweet. Hard: a
retry after half a scan, two scans of one close, a post built from sets that
other calls made. Correct: what is posted is recorded, the post shows the
record, one post per day, and it goes out. The 4H publication
(`publication_batch.py`), which nothing schedules any more, can still be run by hand:
its frozen batch, completed by whoever comes, is *SlotPublish*; the screening and
ranking of both are *SignalPolicy*.

**User accounts and sessions** (`user_store.py`, `auth.py`) — *Accounts*.
State: role, enabled flag, password, session version; in a request the rows
it has locked and counted. Hard: two administrators removing each other, a
login overtaken by a reset, the order of row locks. Correct: an administrator
remains, a session dies with its password, no deadlock by design.

**Job scheduler** (`cloudflare/hl-manage-worker/worker.js`) — *Scheduler*. A clock
without state: the minute decides which jobs are called, each with a timeout,
retries for some statuses, and an alert if it still fails. Hard: calls that outlive
the next one, failures nobody hears of. Its calls are the environment of the other
modules.

**Signal engine** (`indicators.py`, `patterns.py`, `candle_analysis.py`,
`lifecycle.py`, `signals.py`, `hl_meta.py`,
`hl_autoexec.select_confirmed`) — *Indicators, ChartStructure, ChartPatterns,
SignalScore, SignalLevels*. Pure: from closed candles to readings, from readings to
a score, from a score to entry, stop, targets and leverage. Hard: edges of windows
and steps, the two directions, ties, what is stale. Correct: mirrored for the two
directions, targets in order and the stop on its side, a verdict on a pattern that
later candles do not rewrite.

**Outcome statistics and paper account** (`signal_tracker.py`,
`signal_analytics.py`, `postmortem_report.py`, `live_attribution.py`,
`paper_account.py`) — *Outcomes, PaperAccount*. Reports over recorded rows; no
state. Hard: several reports count the same rows by different rules, over a page
that may be cut. Correct: no row is lost or counted twice, no group too thin decides, no
advice against the price, no money appears or vanishes.

**Pattern memory** (`pattern_persist.py`, `pattern_store.py`) — *PatternMemory*.
Confirmed breakouts kept in the KV until they resolve, for display; an append-only
event log. Correct: one record per structure, and its levels never move.

**Studies and backtests** (`portfolio_backtest.py`, `recent_signals.py`) — *Replay,
Outcomes*. The publication
strategy walked over recorded history. Correct: nothing from later is used, and what a
report adds up comes from its trades.

**Alerts and messages** (`ops_alerts.py`, `telegram.py`) — the once-per-key
claim is ClaimLedger's; the rest is text and HTTP. **Execution evidence**,
**market data clients**, **ML research**, **database schema**, **dashboard** — not
modelled, see below.

How the modelled components meet: the monitor and execution read signals that
publication wrote; the claims of execution, of the close post and of the scalp
lock are keys of the KV ledger (ClosePublish is proved to use it as ClaimLedger
describes); the manager acts on positions that execution opened and on limit
entries that the scalp book rests; a pass of the scalp book runs under the lock
of ScalpLock; the scalp book shares account, exposure and process lock with
execution (the `Scalps` of HLExecution). The pure modules fill in what the state
machines leave to a choice: a strength, a size, a level, a refusal.

## Modules and how they correspond to the code

`PROJECT.json` ("map") names the lines of every definition. An operator with an
underscore in its name (`Judge_Optimist`) is a plausible wrong version of the
definition it is named for; it is used only to show that a property can fail.

### OncePerKey, ClaimLedger

`OncePerKey` is the abstract promise: the effect of a key happens at most once
and is never undone. `ClaimLedger` is `kv.py` under its callers. A worker is an
instance: it wins a claim in Redis (`ClaimShared`), or, when the command
raises, in its own file (`ClaimFile`), or, where the file cannot be written
either, for nothing (`ClaimNoFile`: `_file_claim` swallows the error and returns
`True`). Where Redis sets the key, the reply is lost and the file already has the
key, the claim is refused and Redis keeps a key that nobody holds
(`ClaimRefused`). A worker acts (`ActSucceeds`, `ActFails`; an exception may
hide a success), and gives the claim back after a failure (`ReleaseShared`,
`ReleaseFile`, `ReleaseNoFile`). The environment expires keys and stops instances.
`suffered` is a history variable: the properties say which faults they survive
(`Sound`: none but crashes), so one run and one set of theorems cover every
mixture of faults. A command that is executed and raises anyway is a fault of
its own (`kv_reply`).

### HLExecution

A request is a thread of an instance. `SelectAuto` and `SelectManual` choose
the signals before the lock; `ReadAccount` takes the instance's lock and the
snapshot; `DropScalpCoins` hides the scalp book's coins from it; `Refuse` and
`Consider` are the guards of `open_position` before the remote lookup,
`LookupStops` and `LookupPasses` those after it; then the claim, with all the ends
it has in ClaimLedger (`ClaimLost`: somebody has the key, or this instance's file
has it and Redis took it just now), send, and release on failure. `SendAccepted` includes `_reflect_open`; `SendRaises` covers an
order not sent and a fill whose reply is lost. Sizes and prices are one unit
of exposure per order, and the checks that depend on the market (price drift,
minimum size, margin) are the choice `LookupStops`. `Scalps` are the passes of
the other book as far as this one can see them. `ExchangeDedups` says whether
the exchange refuses a client order id it has seen: the code relies on it in one
place and on its own lookup and claim in another, so the runs use both values.

### HLProtect

One coin; an entry has size 2 and its stop and targets are separate orders,
each placed by its own call in the order of `send_exit_orders`. A manager run is
`ReadPosition`, `ReadOrders` (two calls, so the world may change in between),
`Track` (first-seen time and plan in one step), then one remote
call at a time: `MoveStop`, `Protect`, `CloseRemainder`, `CancelOne`. After
`Track` the pass keeps only the position it read, which is all the code looks at
again. The first-seen time is in the KV (`since`); a command that raises is
answered by the instance's file (`filed`), which another time may have been
left in, and which loses it whenever some other key is claimed or released there
(`Tracks`, `Rewrite`). The market close at entry is one order that takes what
it can get and has a fixed id: it may leave a rest, and is refused from then on. Opening passes clear leftovers first. Fills, the owner, two minutes
passing (`TwoMinutes`; no request survives that long) and crashes are the
environment. A behaviour has one of `Settings`: which passes run in which
instance, whether limit entries rest, the trigger `HL_BREAKEVEN_TRIGGER` (with
`"tp1"`, the default, the stop moves when the position was partly closed, with
`"R"` when price has gone a multiple of the risk, a free choice here)
and what may go wrong. Prices matter only as far as two trades enter at the same
rounded price (`EntryPx`), because the break-even order's id depends on it.

### SignalStore, SignalMonitor, MonitorRotation

`SignalStore` holds the row and the lifecycle calls as operators from row to
row: what is allowed, refused, a duplicate, and what is written, the realised
return (`WeightedReturn`, `Realised`) included. `PriceStructure`, `FilledAt` and `Booked`
name what publication, a fill and a booking write. Returns are counted in parts of
the position (`Whole` of them) times steps of the price, so that the shares 50,
30 and 20 % and an even split are whole numbers; the code's division by the
entry price scales every term alike.

`SignalMonitor` adds a clock, a market that prints arbitrary candles, and
runs: `List`, `AttachTargets` (a second query that may see later commits),
`Fetch`, `Decide` (`Evaluate`: `Walked`, the walk over the candles, as a function of
how many it has seen),
`Begin` (takes the row lock with the first write), `Apply` per call, `Commit`;
`CutOff` at any point loses what was not committed. The owner archives and
voids. Prices are points on a small scale; a candle is its low, high and close.

`MonitorRotation` is a run over several signals and leaves the single signal to
`SignalMonitor`: a signal is quiet, shows a new extreme, or an event that takes
two actions to record. A run lists the stalest first (`Listed`), fetches for
all of them, and walks the list on one session: `Measure` and `Act` take row
locks that only a commit gives back, a failing statement (`Fails`) kills the
transaction (`aborted`), the platform or the database (`Crash`, `Victim`) ends
runs. The order of `updated_at` is the order of commits.

### ScalpLock, ScalpBook

`ScalpLock` is `_scalp_lock_take` and `_scalp_lock_drop` command by command:
the claimed key, whose time runs out in Redis and never in a file, and the
time beside it, by which a pass takes a stale lock over. Every instance has a file
of its own (`keyIn`, `timeIn`), which answers where Redis is not configured and for
each command that raises, executed or not. A file that cannot be written lets
every claim win. A claim or a release, of the lock or of any other key
(`OtherKey`: each pass claims its setups before it takes the lock), writes the keys
back and not the times. Times are timers advanced by `Tick`; a request lasts at
most `Life`, a key `TTL`.

`ScalpBook` is a pass under that lock, one remote call after the other: read
account, orders and records, `Sweep`, `CancelEntry` and `TimeOut`, then
setup by setup `Enters` with `PlaceLimit` or `OpenMarket` (and `CloseBare`
where its stop is not confirmed), `FlipClose` and `FlipLeft`, `Add` with
`CoverAdd` and `UndoAdd`, `TightenStop` and `DropOldStops`, `SaveCount` and
`Save`. `Fill`, `Exit` and `NewCandle` are the environment, `Stop` is the platform's limit.
Sizes are 2 per entry so that half of it can fill, be it of a close or of an entry. A
limit order fills at once, rests, or does the first with one half and the second with
the other (`PlaceLimit`, `FillPart`; the mishap `part_fill`). `rest` is the entry the
book knows of; what is left of an entry that filled in part, and an entry that
another was placed beside, is `loose`: it rests, may fill at any time (`FillLoose`), and a
pass knows of it only what it reads as an open order of the coin.
`suffered` records which mishaps have happened; each property names those that
break it.

### ClosePicks, ClosePublish

`ClosePicks` has the pure parts: which closes are due on a day (`DueOn`), the
business-week candle (`BusinessWeeks`), selection (`SelectPublishable`),
grouping (`Group`).
`ClosePublish` is `_close_run`: a call loads the sets that are there, scans one
that is missing (`Scan`), records its picks one by one (`Persist`), keeps the
set (`Save`), and with all sets there dispatches post and tweet under a claim.
The claim is ClaimLedger's: the same variables, and every step is one of its
steps or leaves them alone, a claim that is refused with its key set
(`DispatchRefused`) included.

### Accounts

A request is a transaction: `Select` the enabled privileged accounts, `LockRow`
by row in id order, `LockTarget`, then `Disable`, `SetRole`, `Delete` or
`Refuse` on what it counted. The kind of a guarded change is chosen when it is decided,
because nothing before depends on it. `Reset`, `CheckOwn` and `ChangeOwn` are the
password changes, `Login` hands out a cookie, `Valid` is the check of every
request, `Abort` ends a request at any point. `known` and `shifted` are
history.

### SlotPublish

A request is a list of steps over a store that other requests also write: scan,
freeze the batch (the first one wins), record each row, mark the slot complete, then
boosts, audit and post. The post is claimed, sent and, where the answer is no, given
back, with a press of the button beside it: the claim may be answered by a file,
set and refused, and a message may arrive whose answer is lost (`Claiming`,
`Sending`, `Pressing`); `excused` counts what lets a second post out. The operators run requests one inside the other and
return all ends; `ReportChecks` states what every end has in common. Below them are the
pure parts: slots and wake times, what is screened out as an extra, what is told of
a trade that was not made.

### The pure modules

| module | what it is | checked in |
|---|---|---|
| Rounding | Python's `round` and the shared arithmetic, exact fractions otherwise | with its users |
| Indicators | flow, volume, gaps, candles, averages and crosses, flips, bands, clouds, the RSI's divergence and markers, the age of an event, the whole candle analysis; which candles are fit to be read, what the day's list and the bell tell | PatternChecks |
| ChartStructure, ChartPatterns | swings, structure, pools, zones, trendlines; reversals, triangles, wedges, flags and their lives | PatternChecks |
| SignalScore | every vote, the group caps, radar, combinations, multiplier, direction, strength, tier | SignalChecks |
| SignalLevels | entry, stop clear of pools, target ladder, snapping to walls, leverage | SignalChecks |
| SignalPolicy | the gates of publication, calibration, BTC adjustment, ranking, what may be traded | SignalChecks |
| HLSizing | lots, accepted prices, drift, collateral, splitting the targets; round trips from fills | TradingChecks |
| ScalpSetups | setups, score, exits, size, sweep of records, ladder; dollar limits, pauses, memory of stop-outs | TradingChecks |
| ClosePicks | which closes are due, the business-week candle, selection, grouping | SignalChecks, MCClosePublish |
| Scheduler, PaperAccount, PatternMemory | the minutes of a week; the account's walk; capture, re-evaluation and display | PatternChecks |
| Outcomes | the tracker's rows, advice and lists; analytics, postmortem, cadence, attribution; live against replay | ReportChecks |
| Replay | what a slot could see, the walk of a trade, costs, the report | ReportChecks |

A `*Checks` module states, each as a named `ASSUME`, what these operators promise over
bounded inputs; TLC evaluates them at the start of the run whose MC module extends it
(SignalChecks: `close_post`; PatternChecks: `scalp_lease`; TradingChecks:
`protect_one` and `protect_overlap`; ReportChecks: `accounts`). Some state a reference
definition, some a law (mirror images, monotony, conservation), and some that a
comment of the code is not quite true. The operators were also compared with the
Python functions on some thousands of random inputs each while they were written.

### MC modules and proofs

`MC*.tla` give model values, settings and small functions to TLC.
`*_proofs.tla` hold the theorems: `ClaimLedger_proofs`, `HLExecution_proofs` (also HLSizing),
`HLProtect_proofs`, `Monitor_proofs` (SignalMonitor, SignalStore and MonitorRotation),
`Scalp_proofs` (ScalpLock, ScalpBook and ScalpSetups), `ClosePublish_proofs` (also
SignalPolicy and SlotPublish), `Accounts_proofs`, and
`Rules_proofs` for SignalLevels, PaperAccount and PatternMemory. Each
state machine has a type invariant (`TypeOK`, `LockTypeOK`, `BookTypeOK`); no cfg lists
it, since the properties would not evaluate or would fail where it is broken; add it to
any cfg to see it hold.

## Runs

| run | instance | shows |
|---|---|---|
| `claim_faults` | 3 instances, 1 key, all 6 faults | `ClaimGuardsEffect` until Redis or a reply fails; `DegradedBound`: while Redis is only unreachable, at most once per store; the ledger `ImplementsOncePerKey`; `FailureIsRetriable` (liveness): a failed act gives its claim back, unless the KV was down, the instance stopped, or a claim was set and refused |
| `hl_one` | 1 instance, an automatic and a manual pass, 3 signals on 2 coins, KV faults, full disks, crashes; the exchange does *not* refuse a repeated id | `OneFillPerCause`, `OnePositionPerCoin`, `ExposureWithinCap` over both passes |
| `hl_two` | 2 instances, a scalp pass in one of them, 4 signals on one coin, lost replies, crashes; the exchange refuses a repeated id | refinement `ImplementsOncePerKey`, and how far stale snapshots reach: `StackingBounded`, one position per instance on a coin and one more per pass beside the scalp book |
| `protect_one` | 1 instance: a manager in tp1 mode, an opening pass, a manual open, any one of 7 mishaps, 2 trades | `StopKept`: only a fill takes the last stop; `FreshEntryUntouched`: no safety net on an entry in progress; `UnprotectedIsRepaired` and `StopReachesEntry` (liveness) |
| `protect_overlap` | managers in 2 instances: beside an opening pass, R trigger, a lost reply; and beside resting limit entries, failing cancels and KV; 2 trades | `OneStopAtEntry`: overlapping runs do not stack stops; `NoForeignTarget`: an old target never meets a new position; `RestingEntryKeepsExits`: exits of a waiting entry are not orphans |
| `monitor_overlap` | 2 runs of any delay, long signal, 3 targets, 7 candle shapes | `OneVerdict`, `VerdictIsFinal`, `NoWinAfterStop` |
| `monitor_live` | 1 run at a time, short signal, clock finer than the candles | `FillIsFirstTouch`, `ReturnFollowsRow`, `EverySignalEnds` (liveness) |
| `monitor_rotation` | 2 runs over 2 signals, lists of 1 or 2, any failure | `WholeAndDurable`: no signal shows half a decision, and none that a run has finished waits in an open transaction; `EveryEventIsRecorded` (liveness) |
| `scalp_lease` | 2 passes: over Redis in 2 instances, over the file of one, over the files of two of which one cannot be written; 2 commands that raise, 2 stopped passes | `OneOwner` until a takeover or a KV failure, over Redis everywhere, over a file in its instance; `NeverBusyForGood` (liveness) unless other keys keep dropping the lock's time |
| `scalp_book` | market entries and adds: one coin with every mishap, two coins with binding limits; limit entries: one coin with one kind of mishap at a time, two coins with binding limits | `EveryScalpOnRecord`, `StopKept`, `BareIsFlagged`, `OneScalpPerCoin`, `WithinLimits` |
| `close_post` | a Saturday with 2 closes, 4 calls in 2 instances, 2 failures | `RowsAreThePost`, `PostedIsRecorded`, `DeliveredAfterGoodCalls`, `RepeatsChangeNothing`, refinement `ImplementsClaimLedger` |
| `accounts` | 3 accounts from an empty table, 2 overlapping requests | `NeverStranded`, `SessionMatchesPassword`, `NothingSlipsBetween`, `DeadlockNeedsShift` |

Every property of a run is paired with a wrong version of some mapped
definition under which TLC finds it violated ("mutants" in `PROJECT.json`).
The cfgs switch deadlock checking off because the modelled programs may stop:
every bound (fills, trades, the clock, calls) ends in a state with nothing left
to do. A deadlock of the program itself (row locks, a lock nobody gives back)
is a property of its own: `DeadlockNeedsShift`, `NeverBusyForGood`,
`EveryEventIsRecorded`.

Sizes of the larger ones: `scalp_book` 5.1 million states in two to three minutes;
`monitor_overlap` 0.8 million, `hl_one` 0.7 million, `monitor_rotation` 0.2 million,
each in less than two.

## Bounds and why they are enough

- `MaxEffect` = 5: `DegradedBound` allows 1 + 3 effects, so the bound lies above
  what the property permits. One key, because no action reads two keys; the
  theorems cover any number.
- `MaxHeld`, `MaxFills`: one above what the properties allow, so that a violation
  is not cut away.
- Three signals on two coins (or four on one): two signals compete for a coin while
  a third does not. `MaxExposure` = 1 in `hl_one` makes the cap bind at the
  second order; `hl_two` leaves it slack so that stacking can show.
- `EntryPx` of length 2: leftovers, foreign targets, stale first-seen times and
  repeated ids all need a second trade and nothing more. `MaxMishaps` = 1 there: a
  single failure anywhere; with no bound the liveness properties say nothing, since
  calls that always fail repair nothing.
- `MaxClock` 3 (6 with two ticks to a candle): past the fill window and the maximum
  age, so that withdrawal, expiry and late runs all happen. Candle shapes: at
  the entry, at each target, past all targets, to the stop, across stop and
  target.
- `MonitorRotation`: two signals and lists of one are the smallest instance in
  which a signal can be passed over and two runs can wait on each other; one failure
  fires every failing action.
- `ScalpLock`: a tick is the longest the three KV calls of the take last (24 s);
  `Life` 2 and `TTL` 4 ticks keep the order of 60 s and 110 s, the proof needs
  only `Delay <= Life < TTL`. Two kills: one leaves a lock, one more its taker's;
  two raises: a claim and its drop.
- `ScalpBook`: two setups per pass (an entry and what it changes for the next),
  two *kinds* of mishaps, each as often as it likes; limits of one make them bind.
  `MaxSize` = 5: an entry and an add of 2 and a fill more; a position that could grow
  for ever would hide nothing new, since no rule looks at more than whether a stop covers
  the size. `MaxLoose` = 2: the rests of two entries, or a whole one, on a side; they bear
  only on properties that a partial fill breaks anyway, or must not break. Limit entries
  meet one kind of mishap per configuration, because what rests loose beside two
  of them multiplies the states; there `StopKept` asks for more than with market entries
  (`Steady`): no adds and no mishap but a partial close, because an entry that the book does
  not know of may fill between the reading and the new stop, which then covers less than
  the position. The proofs hold for any size of at least 4 and any `MaxLoose`.
- `ClosePublish`: two closes, so that sets come from different calls; four
  calls (two good ones and two that spoil); two failures; two lists of
  candidates that differ in coin, side and venue.
- `Accounts`: the smallest table with a guard and a target beside it; two versions of
  a password (`MaxVersion` = 1 change), since a cookie is old or not.

## Fairness

- `ClaimLedger`: an invocation that is not stopped finishes its act and its
  release (straight-line code, weak fairness). Winning a claim is not fair: no
  caller has to come back.
- `HLProtect`: strong fairness of each manager, because the worker calls the
  manager every minute for ever and the lock and the coin are free again and
  again between calls, not continuously; weak fairness of opening passes already under
  way (they return or are stopped); strong fairness of `TwoMinutes`, because
  time passes whenever no request is running. Crashes and failures need no
  fairness; `MaxMishaps` bounds them.
- `SignalMonitor`: the clock ticks, runs take their steps (the worker calls the monitor
  over and over), and from some moment on runs are no longer cut off. Without
  the last, a monitor whose every run times out decides nothing, and no code
  could change that.
- `MonitorRotation`: strong fairness of a run's next step, because PostgreSQL
  queues waiters for a row lock and ends a deadlock; weak fairness of `Event`,
  because every signal's window ends some day. `MaxFailures` bounds failures.
- `ScalpLock`: time passes and the scheduler starts passes (weak), a pass goes
  on past an execute lock that is free again and again (strong); nothing is assumed of
  other keys, so the property names them. `MaxKills`
  bounds stopped passes: if every pass were stopped no lock could help.

## Proofs

TLAPS checks these for every value of the constants that satisfies the modules'
assumptions (any number of instances, requests, coins, candles, bounds). A
hypothesis in the third column is one the code does not guarantee; without it the
property is false, and the [disagreements](#where-the-code-and-its-documents-disagree)
show how.

| theorem | states | provided that |
|---|---|---|
| **ClaimLedger** `TypeCorrect` | types, under every fault | |
| `ActsAtMostOnce`, `ClaimGuards` | `AtMostOnce`, `ClaimGuardsEffect` | |
| `ClaimImplementsOncePerKey` | the ledger implements `OncePerKey` until Redis or a reply fails | |
| `DegradesGracefully` | `DegradedBound` | finitely many instances |
| **HLExecution** `TypeCorrect` | types, under every fault | |
| `NeverASecondPosition` | `OnePositionPerCoin`, lost fills and crashes included | one instance, scalp book off (`OneInstanceOnly`) |
| `CapHolds` | `ExposureWithinCap` | the same, no fill reply is lost, finitely many coins |
| `OnceByClaim` | `OneFillPerCause`, even if the exchange accepts an id twice | the KV answers and replies arrive |
| `OnceByExchangeOrLookup` | `OneFillPerCause` | the exchange refuses a repeated id, or one instance |
| `OpeningImplementsOncePerKey` | placement implements `OncePerKey` | one of the three |
| `StacksWithin` | `StackingBounded` | finitely many instances and passes |
| `OrderFits` | an order is the most the notional buys, worth the least allowed, within the cap even at its limit price, and paid for | |
| `DriftStaysShort` | a signal that is not stale has its stop ahead and most of its risk left | drift fraction below the whole risk |
| `SplitIsTheWhole` | the two parts of a position make it up, each worth an order | |
| `StopOnlyMovesAway` | the placed stop only gives room, and stays a price | a stop of 100 units or more |
| `PriceIsTaken` | a rounded price has the asset's step and five figures, is near, and rounds to itself | prices to `Highest`, steps to a million units |
| **HLProtect** `TypeCorrect` | types | |
| `StopAtEntryIsOne` | `OneStopAtEntry`, any number of managers and instances | |
| `EntryIsLeftAlone` | `FreshEntryUntouched` | managers run in the instance of the opening pass |
| `TargetsAreOwn` | `NoForeignTarget` in every setting with `Clears` | opening passes in one instance, no manual open or limit entries, cancels and reads succeed |
| `RestingExitsStay` | `RestingEntryKeepsExits` in every setting with `LimitsAlone` | managers with trigger `tp1` and no opening pass beside the limit entries |
| `LastStopStays` | `StopKept` | one instance, no limit entries, trades enter at different prices |
| **Monitor** `OneEnding`, `EndingIsFinal` | `OneVerdict`, `VerdictIsFinal` | |
| `FillsAtFirstTouch` | `FillIsFirstTouch` | |
| `NoWinsAfterStop` | `NoWinAfterStop` | |
| `ReturnFromTheRow` | `ReturnFollowsRow`: the booked return is the row's | one run at a time |
| `FinishedWorkIsDurable` | `WholeAndDurable`: no half of a decision, and nothing a run has finished waits in an open transaction (what it *reports* may have been rolled back) | |
| **Scalp** `LockTypeCorrect`, `OneOwnerCorrect` | types; `OneOwner`: over Redis one owner in all, over a file that can be written one in its instance | no lock was taken over, no command raised (`Delay <= Life < TTL`, as configured) |
| `BookInvariant`, `BookTypeCorrect` | the inductive invariant; types | |
| `OnRecordAlways`, `OneScalpAlways` | `EveryScalpOnRecord`, `OneScalpPerCoin` | entries fill in full, and no other mishap but those the property names |
| `BareAlwaysFlagged` | `BareIsFlagged` | the same, closes in part allowed |
| `LimitsHold` | `WithinLimits` | no mishap |
| `StopsAreKept` | `StopKept`, an action property | `Steady`: no fill, reply or KV command goes astray; with limit entries nothing but closes in part, and no adds |
| `SkippedReadChangesNothing` | not asking for the hour gives what asking would | |
| `StopsOnlyTighten` | a new stop is tighter than all that rest, and behind the price | |
| `BatchStaysWithin` | no sequence of entries and adds takes a count above its limit | |
| `StopOutHolds` | a stop-out blocks its coin and direction for the cooldown, then until a blank candle | later exits the same way are stop-outs too, and no pruning comes after its memory's time |
| **ClosePublish** `PostedCorrect`, `RecordIsThePost` | `PostedIsRecorded`, `RowsAreThePost` | |
| `DeliveredInTime`, `RepeatsAreIdle` | `DeliveredAfterGoodCalls`, `RepeatsChangeNothing` | |
| `PublishImplementsClaimLedger` | post and tweet use the ledger as ClaimLedger describes | |
| `SelectedAreCandidates` | what is selected is on the list, and at most `topN` of it | |
| `ThirdsWaitForAll` | the list is full, and a third of a kind is there only when nobody else is left | |
| `CalibrationKeepsTheGate` | calibration never raises a strength nor moves it across the floor | |
| `PassedIsSound` | what passes the gates has its stop, targets and reward in order, beyond the live price | |
| `SlotIsWhole` | a slot shows all that one scan leaves, for good; every post is of all of it, and one goes out, and one more at most for each send that arrived and was reported as failed, each claim a file answered, each press of the button | finitely many requests |
| **Accounts** `Invariant`, `TypeCorrect` | the inductive invariant; types | |
| `RolesKept` | `NeverStranded` | |
| `SessionsEndWithPassword`, `ChangeIsAtomic` | `SessionMatchesPassword`, `NothingSlipsBetween` | |
| `DeadlockFree` | `DeadlockNeedsShift`, circles of any length | |
| **Rules** `LadderOrdered` | the targets stand in order and within reach | |
| `ClearNeverTightens` | clearing a stop of pools only moves it away from the entry, within the cap | |
| `FreshIsSound`, `StepKeepsSound`, `AccountStaysSound` | the paper account neither overdraws nor loses money, over any history | returns are integers, a row opens once |
| `TrackedIsFrozen`, `KeysStayUnique` | a remembered pattern keeps its levels; one record per structure | |

**Ledger.** `ClaimGuardsEffect` is not inductive: nothing in it says that the worker
about to act has a key without effect. `IInv` adds `Owns`: whoever is between
claim and release has a key that is claimed in Redis and has had no effect.
All of it is conditional on `Sound`; since history only grows (`SoundBefore`), a
step that leaves the history sound started from a sound one. For the bound while
Redis is down, `CountInv` assigns every effect, and every key in a worker's
hand, a claim of its own in one of the stores (Redis or an instance's file); there are
no more stores than workers plus one.

**One position per coin.** The lock admits one pass. During it, every pending signal
whose coin is held is one whose coin the snapshot shows (`SnapInv`): a
fill the pass heard of was reflected, and one whose reply was lost concerns a
coin no other pending signal of the pass shares (`DistinctInv`), so the order
sent next is always for a free coin (`CurInv`). This is where "one row per
symbol" in the selection matters; without it a lost fill could be doubled.
`CapInv` carries the exposure the same way: what the pass has in its books is at least what is
held, as long as no fill is lost.

**Once per signal, three ways.** Whoever is about to send or release is the only owner
of a claim on an unfilled signal (`ClaimInv`, needs the KV); or the exchange refuses
the second order (`ExchangeInv`); or the pass that holds the lock has looked
the id up and nobody else could have sent it since (`LookInv`). Each gives the
refinement of `OncePerKey`.

**Stacking.** A coin gets a second position only from a pass whose snapshot was too
old. `StackInv` counts, for each coin, the openers: an instance that has opened it shows it
in later snapshots, so it opens once per instance, and the passes that already waited with a
snapshot beside the scalp book add one each.

**Protection.** `LockedStep` keeps the lock with the pass under way; `ClearedStep` the coin
clear of old exits until the next position opens; `AtEntryOnce` ties a claimed break-even
id to the stop that has it; `KeptStep` says of every pass what it has listed for cancelling: never
the last stop of the position it read.

**One ending.** Nothing of the decision is used: whatever `Evaluate` returns,
the row lock makes the transaction row a continuation of the committed one, the
status machine gives terminal statuses no successor, and a recorded key ends
the signal exactly when the status it leads to is terminal (`KeyEnds`).

**First touch, no win after the stop.** Here everything is about the decision.
`GoodWalk` says what the walk knows after each candle: an order that waits has met no
candle that could fill it, a trade that runs none that took the published stop since
one could; `WalkGood` keeps it, so whatever is decided is good (`EvaluateGood`), from however old a row.
`StoryInv` then follows the calls through plans and transactions. The stop has to be on
the losing side of the entry (`validate_price_structure`), or the stop
moved to the entry would be looser than the published one. A candle that closes later
does not change what earlier ones told (`CandlesStay`).

**The return.** `ReturnInv` says of the committed row, and of the row inside the
transaction, that their return is their own, and of a run that is alone that its
snapshot is the committed row (`RunFits`) and its plan fits it. `PriceStructure` holds from publication on and `FilledAt` says which price a
fill has, so each call that books does so from the ladder, the stop and the fill the row
shows (`Booked`), and the sum over the targets that `WeightedReturn` folds is what they
paid plus the rest at the stop. Beside another run this fails: a run that holds an older
row books at the stop as it knew it.

**Rotation.** The order by `updated_at` lists every signal once (`ListOK`), so what a
run has finished is not among what it still holds back.

**One owner.** The invariant `Lease` says of the owner that what is left of the
key plus its own age is at least `TTL`; a request's age stays below that, so the
key outlives it (`OwnerHasKey`) and nobody else can win the key meanwhile. Over a file
the owner's key is in its instance's file, where no time runs out.

**Scalp book.** `BookInv` has a part per coin (`CoinsInv`: what is on the exchange, what
the records in memory and in the store say of it, and which mishap explains a difference), facts
about where the pass is (`Facts`), what can rest loose (`LooseInv`: nothing, until an
entry fills in part, an answer is lost, a cancel is not obeyed or a pass stops), and the
counts of the limits (`CountInv`).

**Close post.** A set is kept only after each of its picks was recorded, so what calls hold is
recorded (`RecordedStep`); while no scan was disturbed the record is no more than that
(`ExactStep`); each good call leaves one more set (`DeliveryStep`); and a call inside the
ledger is one that sends (`AtJobStep`), which gives the refinement.

**Selection.** A place on the list is a place in the ranking (`Places`), so nobody is
there twice; the second pass only fills what the first left free, so whoever is not
on the list then was refused as a third of a kind.

**Slot.** Whatever requests run inside one another, each step has one of a few effects on
what they share (`StepIs`), and each effect keeps `SlotInv`: the visible rows are all
that the frozen batch leaves (`WholeBatch`), and every post is of all of them,
with no more of them than have the claim or an excuse: what was sent, a claim that is free
and the requests about to send are together at most one more than the excuses (`PostWhole`). Stops, repeats and deployments are steps between the effects (`Between`).

**Orders and guard.** The bounds of an order are the guards of `Judge` multiplied out. A
price is rounded twice; of two powers of ten one divides the other, so the second
rounding keeps what the first gave, unless the price reached the next power of ten, and
that is round in every step (`StaysBelow`). The guard's counts and the memory of
stop-outs are kept by each call, and by `UpTo` by any number of them.

**Accounts.** `Inv` keeps three facts: a request past its locks holds the rows
it counted (`Holding`), what it counted is still privileged (`Counted`), and a
cookie has a version no newer than its account and of that version's password
(`Fresh`). Deciding on two counted rows leaves one (`GuardLeavesOne`). For the
deadlock, while nothing shifted all lockers see the same set (`Views`) and hold a
prefix of it (`InOrder`); a chain of waiting requests then ends after three hops
(`NoChain`), so there is no circle, whatever its length.

**Walks and counts.** The provers cannot use a theorem whose parameter is an operator, so
the library's induction theorems are closed to them.
`Rules_proofs` proves induction over a finite set and over the numbers up to n for *sets*
(`SetInduction`, `UpTo`), and the walks that are reasoned about are recursive
functions (`Walked`, `HitsUpTo`, `Only`, `Running`, the paper account's `Walk`): a lemma first shows that
the function exists (`WalkedDef` and its like), then `UpTo` does the induction. The
folds of the community modules choose such a function: `FoldExists` shows it is there,
by descent through the finite sets (`SetDescent`), and `SumDrop` that a sum loses the term of
an element that is left out.

Only model-checked:

- the liveness properties (`FailureIsRetriable`, `UnprotectedIsRepaired`,
  `StopReachesEntry`, `EverySignalEnds`, `EveryEventIsRecorded`, `NeverBusyForGood`): fairness
  and `ENABLED` are out of the provers' reach;
- the bounded checks of the pure modules, but for those the theorems above state for
  every input.

Every invariant and every action property of the runs is stated by a theorem.

## Where the code and its documents disagree

Nothing below makes a run fail: the runs check what the code does keep, under
the settings that keep it. Each row is a statement of a comment, a docstring or
a document that the model refutes, with the setting that shows it (a
property added to the cfg named, or a constant changed in it).

| the text says | the code does | how to see it |
|---|---|---|
| `kv.py:72`: a claim wins exactly once | a lost reply or an outage moves the claim to a file of one instance; another claims again | `claim_faults`, `AtMostOnce` without its `Sound`, `Faults = {"kv_down"}` |
| `app.py:4288`: a claim is given back on failure, or it would suppress the alert for good | Redis sets the key, the reply is lost, the instance's file has the key from an earlier attempt: nobody holds the claim and nobody gives it back | `claim_faults`, `FailureIsRetriable` without its last disjunct |
| `app.py:4278`: sends at most once | an exception raised after the send was executed releases the claim, and the retry sends again | the same with `{"act_reply"}` |
| `hl_exchange.py:13`: never a duplicate position | true in one instance; two instances with snapshots of the same moment open two | `hl_two`, `OnePositionPerCoin`; how many is `StackingBounded` |
| `app.py:6050`: the two books stay apart | they read the account at different moments and share a coin | the same |
| exposure stays below the cap | a fill whose reply was lost is not counted in its pass | `hl_one` with `"send_reply"` in `Faults`, `ExposureWithinCap` |
| `hl_exchange.py:136`: a fill is never without a stop | one manager reads the position before a limit entry fills and its orders after, takes the new exits for leftovers and cancels them | `protect_one` with limits, trigger `tp1`, one manager: `StopKept` |
| `hl_autoexec.py:396`: only leftovers are cancelled | a second pass in another instance takes the exits the first is placing for leftovers | `protect_one` with two automatic passes in two instances, `StopKept` |
| `app.py:5351`: one manager at a time | the lock is one process's; two managers move one stop and each cancels the other's | `protect_overlap`, `StopKept` |
| `hl_manage.py:376`: a fresh entry is left alone for two minutes | with the KV failing, the first-seen time of an earlier trade survives and the new entry is closed at once | `protect_overlap` with fault `"kv"` in the first setting, `FreshEntryUntouched` |
| `hl_autoexec.py:440`: what could not be cancelled is reported | a refused cancel counts as done and the old target stays | `protect_overlap` with fault `"cancel"` in the first setting, `NoForeignTarget` |
| `hl_manage.py:314`: the stop is moved to this trade's entry | a second trade at the same rounded price finds the id of the first move used, and its stop is never moved | `protect_one` with `EntryPx <- SamePrice`, `StopReachesEntry` |
| `hl_manage.py:29` (past TP1 the rest is closed at market where a stop at entry would be through it) | the close is one order that may fill in part, and its id is used up: the rest keeps its old stop | `protect_one`, `StopReachesEntry` without its last disjunct |
| `hl_manage.py:364`: without a KV nothing is ever old enough | without a KV, and when a command raises, the time is kept in the instance's file | `Tracks`; how it can hurt is the row on `hl_manage.py:376` |
| `app.py:5824`: BUSY for good is what the time beside the lock prevents | without Redis each claim and release of another key drops that time, as every pass does with its own setups, and the clock starts again | `scalp_lease`, `NeverBusyForGood` without its second disjunct |
| resting entries keep their exits | with trigger `R` the manager knows no limit entries and cancels their exits | `protect_overlap`, second setting with trigger `"R"`, `RestingEntryKeepsExits` |

### Further disagreements

Signals and their outcomes:

- `README.md:567` (nothing is decided before the fill): the run that books the fill
  also judges that candle, whose touch of a target may have come before the entry
  (`NoOutcomeBeforeFill`, stated nowhere in the cfgs because no setting keeps it).
- `README.md:575`, `signal_monitor.py:171` (a rerun decides nothing new): a run that
  starts after a stop was moved judges the candles before the move by the new stop,
  and can end a trade on a candle an earlier run had passed.
- `signal_store.py:1106` ("current_stop_loss is where the stop actually sits now")
  and `signal_monitor.py:293` ("from here the trade cannot lose"): a run that listed
  the row before another run committed TP1 and the moved stop, and came to write
  later, books the rest at the published stop (`ReturnFollowsRow` in
  `monitor_overlap`).
- `signal_monitor.py:309`: a candle that opens in the fill window and closes after
  the deadline fills the signal in one run and leaves it withdrawn in an
  earlier one (`WithdrawnUntouched` in `monitor_live`).
- `signal_store.py:79`: the status machine lets an OPEN trade be CANCELLED; an
  overlapping run with a stale row does it (`CancelledNeverFilled` in
  `monitor_overlap`).
- `signal_monitor.py:432`: a late run measures candles after the trade's end
  (`MeasuredWhileOpen` in `monitor_live`).
- `signal_monitor.py:545` ("whatever arrived is usable"): one fetch past the
  budget skips every signal of the run. `:391` ("they committed"): earlier actions
  of the list are rolled back with the one that failed, though reported as applied.
  "Rotation, not a blind spot": quiet signals never touch `updated_at`, so the tail
  waits until their windows end. `SET LOCAL statement_timeout` ends with the first
  commit.

Scalp book:

- `app.py:6691` ("One pass at a time"): two passes may both take over a stale lock; without
  Redis every instance has a lock of its own, and a file that cannot be written gives
  it to everybody. What holds is `OneOwner`.
- `app.py:6691` ("running scalps are always managed"): an entry that fills in part is
  promoted while the rest of it rests; when that part exits its record is dropped
  (`scalp_live.py:785-802`) and the rest, which nobody has on record, may fill later
  (`EveryScalpOnRecord`, `OneScalpPerCoin` with `"part_fill"` allowed).
- "Each counted the moment it fills": a pass stopped between order and save leaves
  entries uncounted (`EveryEntryCounted`).
- "The original part keeps its stop": not when the exits of an add are refused.
- A late fill of an order whose cancel was answered, a record dropped after a
  partial timeout close, an `UNPROTECTED_OPEN` record that nothing retries before
  its timeout, setups claimed before the lock and lost when the answer is BUSY.

Close post:

- After a stopped call, an overlap or a failing KV a close is scanned again: picks
  are recorded that were never posted; one coin twice when the venue differs; an
  idempotent hit keeps the old direction and levels while the post shows the new
  ones. `/api/closes` ("what the post was built from") is false after an overlap.
- The tweet is only tried by the call whose post went out.
- `DATA_NOT_CURRENT`, `next` and `skipped` are answered with 200, so a morning without a
  post alerts nobody. The claim of a stopped sender suppresses the day's post. The
  private copy goes out with every attempt.
- `kv._file_claim` and `release` drop every value kept in the file.
- A claim that is refused with its key set (`ClaimRefused`) answers "already sent" from then
  on, and no one has sent (`DispatchRefused`).
- `business_weeks` ("a finished week needs all five days") keeps the newest week with
  a gap even when it is finished.

Accounts:

- `user_store.py:218` ("a consistent global order to avoid deadlocks"): two
  requests deadlock once a third changes privileges while they lock; PostgreSQL
  aborts one (`DeadlockNeedsShift` says that nothing else can cause it).
- Enabling an account again revives the cookies it had before.

4H publication (each a check of `ReportChecks`, evaluated with `accounts`):

- `app.py:3327` ("a failure here never affects the published set"): a row of an extra that
  the store refuses takes the slot with it at every retry (`ExtraSinksTheSlot`).
- After a deployment a frozen slot answers with a failure even when it was finished: the
  version is compared before it is asked whether the batch is complete (`DeployStrandsTheSlot`).
- What is kept beside a slot may describe a scan that lost (`LosersNotes`); a slot whose
  candles were recorded by the one before shows nothing (`LaggingSlotIsSilent`), and no one
  resumes an incomplete batch of a past slot. A scheduler that starts within two minutes of its wake
  skips that slot (`StartMayMissItsSlot`).
- `_dispatch_once` ("at most once per publication slot"): a message that arrived and whose
  answer was lost is reported as failed (`telegram.py:432-441`), the claim is given back and
  the retry posts again; the button of `/api/telegram/send` asks for no claim
  (`SlotIsWhole` counts both).
- `_hl_history_verdict` tells the oldest reason, not the last (`OldestReasonIsTold`).
- `app.py:2946` (reward below 1.3 is dropped): the floor is 1.5 (`PassedIsSound`).
- `.github/workflows/signal-publish.yml` and `telegram-alerts.yml` say that the worker
  schedules them; it does not.

Signal engine, charts and indicators (checks of `SignalChecks` and `PatternChecks`):

- The reward of 1.5 needs a stop of less than two fifths of the reach
  (`RewardNeedsATightStop`); a snapped target of a short may lie below zero
  (`OnlyLongSnapsCrossZero`); a stop cleared of one pool may stand in front of another
  (`ClearedStopMayBeThreatened`).
- "4 of 5" earns less than "3 of 5" (`FourAgreeingWeighLess`); a contradiction may
  amplify (`ContradictionMayAmplify`); crowded longs add to a LONG (`HotFundingBacksALong`); a
  played-out divergence still counts with a MACD cross (`SpentDivergenceStillCounts`); one
  sign is "many" (`OneSignElevates`); the tier is named before the last correction
  (`TierMayLag`); a missing index is extreme fear (`MissingIndexIsFear`); an unsided
  Fibonacci zone speaks for a short (`UnsidedFibSellsShort`).
- No body is ever beyond a trendline, so nothing that waits for a broken one happens
  (`LineIsNeverBroken`); past breaks of structure come and go (`BreaksAreRewritten`); a
  reversal that has reached its target is still confirmed (`SpentReversalStands`); the newest engulfing
  candle stands, not the largest (`NewestEngulfs`); a feed with holes counts as fresh
  (`HolesExcuseDelay`); a market that stands still reads short (`StillnessReadsShort`).

Ages, lists and the bell (`PatternChecks`):

- `candle_analysis.py` ("drop a pattern that has aged past its grace bars"), `lifecycle.py`
  (a change of character fades over ten candles): of the events annotated only a sweep has
  an age. A change of character always reports 0, an engulfing candle 1, and the age of a
  setup is taken off it before it is asked for, so it counts in full
  (`OnlyTheSweepFades`).
- The weekly divergence of the analysis needs two closes after its swing, that of the list
  and the bell three: one says confirmed where the other says forming
  (`WeeklyIsConfirmedFirst`).
- `app.py:5147` ("`detected_at` is the FIRST time we saw each alert"): it is the close of the
  alert's candle, whatever was stored; for a marker or a divergence that is three
  closes before it could be found (`SeenIsTheCandle`). And unlike the messages the bell
  takes its candles unchecked.
- The status of a marker is what the last close says, so void turns into active again; the
  day's list reads every close and does not (`VoidMayRevive`, `ListLeavesOnce`).
- `_split_closed` returns open candles as closed when the clock is behind the feed
  (`OpenMayPassAsClosed`); the monitor decides on series with a hole that are invalid for
  publication (`MonitorTakesHoles`).

Trading rules (`TradingChecks`): the longer sequence of a sweep may be forgotten where a replay
keeps it (`SmcMayForget`); fills of one moment are put in the order of their names
(`SameMomentIsScrambled`); some losses are no stop-outs for the memory (`LossesThatAreNoStop`);
the drift allowed may pass a target snapped very near (`DriftMayPassTheTarget`).

Studies (`ReportChecks`): a coin is free again when the candle that ended its trade opens
(`BusyEndsACandleEarly`); half of the families reported as available are no input of a
reading (`FamiliesAreNotInputs`); no run can be a replay of production (`NeverParity`); the
drawdown follows the slots (`DrawdownFollowsTheSlots`).

Statistics (`ReportChecks`):

- `signal_analytics.py:258` and its note at 292 call `candidate_stop_floor_pct` the heat that
  three quarters of the winners stayed within; it is the 75th percentile of negative
  numbers sorted upwards, the heat that three quarters exceeded
  (`StopFloorIsTheWrongQuartile`).
- `signal_tracker.py:195` divides by the stop as it was moved, not by "the original risk"
  (`RIsOfTheMovedStop`). The tracker counts `SL_HIT` as a loss by its status,
  `classify_outcome` by its return (`TwoScoreboards`).
- `collapse_republished` merges against the first print so that drifts do not chain
  (`:493`); it is given the newest first and hands the older levels to the row, so they do, and a row
  shows one print's entry beside another's move (`NewestFirstChains`,
  `OldestFirstDoesNotChain`).
- The tracker cuts its page before it leaves the extra strategy out
  (`ExtrasUseUpThePage`). The cadence reads one page of 100 whatever limit it documents
  (`app.py:8565`), so behind as many open signals it sees no closes
  (`CadenceSeesAPage`).

## Not modelled

Abstractions inside the modelled parts: prices are small integers; the entry match
within 2% is taken to hold; reduce-only orders vanish when a position is flat;
dollars at risk and market checks are free choices; the scheduler is "a call at
any moment"; in `MonitorRotation` the order of `updated_at` is commit order, an
event is two actions, and the market's news is quiet, extreme or an event; type
invariants are stated (and proved where a proofs module exists) but are not in the
cfgs.

| part | why |
|---|---|
| Wilson intervals, leverage and liquidation notes, tables of the reports | arithmetic of one line, or layout |
| market data clients (`binance.py`, `btc_onchain.py`, `macro.py`, …) | fetching, caching and parsing; a failed or late answer is a choice in the modules that use it |
| the fusion of timeframes and the tuning switches of the engine | off by default, or text for the dashboard |
| other studies (`backtest.py`, comparisons), ML research | run by hand or off; they decide nothing |
| execution evidence (`hl_evidence`), pattern event log | appended, read by nobody who decides; a failure is swallowed |
| database schema, migrations, sessions | row locks, unique keys, commit and rollback are modelled where they matter |
| `close_signal`, postmortem notes of a signal | nothing in the program calls the first; the second is text |
| trade side in HLProtect, several coins in one manager run | the rules are mirrored; the manager treats coins one by one and shares nothing between them but the lock |
| low-volatility and weekly-lean filters of the automatic pass | they only shrink a set that is arbitrary in the model |
| the SQL mirror of the scalp book, the forward log, the private copy of a post | written after the fact and read by reports |
| alert text, message text, HTTP | wording |
| dashboard | presentation |

## Plan

Done, in this order: the ledger and its callers; execution and protection; the
signal's row, monitor and rotation; the scalp lock and book; the close post; accounts;
then the pure rules with their checks, the slot's batch, the statistics of closed rows, and
the proofs above.

Open:

1. Proofs: more of the pure laws for every input (`RankingIsStable`, `ReportAddsUp`,
   `RepeatedCandleCountsOnce`); each needs an induction over sequences of its own.
2. The rest of `app.py`: the fusion of timeframes behind `/api/recommendations`.
3. An abstract specification of the scalp book (a set of covered scalps within limits)
   that `ScalpBook` refines while no mishap has happened.
