---------------------------- MODULE ScalpSetups -----------------------------
(***************************************************************************)
(* The 15-minute scalps: their two setups, read off closed candles         *)
(* (backend/sweep_fvg.py); and, in backend/scalp_live.py, what makes a     *)
(* scalp (score, exits, size), what a recorded scalp needs (held, sweep,   *)
(* settle) and how a running one is changed (the ladder of targets,        *)
(* plan_update, plan_add). Points are in tenths, weights in thousandths,   *)
(* prices in ticks and sizes in lots. The code divides a size as a binary  *)
(* fraction, which may leave a share one lot short of the exact one used   *)
(* here.                                                                   *)
(***************************************************************************)
EXTENDS Rounding, FiniteSets, Sequences, FiniteSetsExt, SequencesExt

-----------------------------------------------------------------------------
(* backend/sweep_fvg.py: a sweep takes out a confirmed swing and closes    *)
(* back; a gap left by the move away from it is where the scalp enters.    *)
(*                                                                         *)
(* Candle k of a sequence closes at slot k.  Everything is written for     *)
(* LONG; a SHORT is a LONG on the candles turned upside down.  A stop is   *)
(* in parts of 2000 of a tick, so that the buffer of 0.05 per cent beyond  *)
(* a wick is exact.                                                        *)

SWING == 3
FVG_BARS == 6
LOOKBACK == 96
MIN_RR == 15                 \* in tenths
SMC_CHOCH_BARS == 12
SMC_BOS_BARS == 16

Turned(bars) == [k \in DOMAIN bars |-> [high |-> -bars[k].low, low |-> -bars[k].high, close |-> -bars[k].close]]
Seen(bars, dir) == IF dir = "LONG" THEN bars ELSE Turned(bars)

\* pivots: no candle within SWING of i reaches beyond it
IsLow(bars, i) == \A j \in (i - SWING)..(i + SWING) : bars[i].low <= bars[j].low
IsHigh(bars, i) == \A j \in (i - SWING)..(i + SWING) : bars[i].high >= bars[j].high

\* _known: the pivots of the lookback that were confirmed before candle k
Candidates(k) == Greater(SWING + 1, k - LOOKBACK)..(k - SWING - 1)
KnownLows(bars, k) == {i \in Candidates(k) : IsLow(bars, i)}
KnownHighs(bars, k) == {i \in Candidates(k) : IsHigh(bars, i)}

First == 2 * SWING + 3
\* The wick takes out the latest low and the candle closes back above it
Swept(bars, i) ==
    LET lows == KnownLows(bars, i) IN
    lows # {} /\ LET level == bars[Max(lows)].low IN bars[i].low < level /\ level < bars[i].close

UnderWick(wick) == 2000 * wick - Abs(wick)
HighsOver(bars, k, price) == {bars[i].high : i \in {i \in KnownHighs(bars, k) : bars[i].high > price}}
Risk(limit, sl) == Abs(2000 * limit - sl)

-----------------------------------------------------------------------------
(* setups: sweep, gap, entry                                               *)

Gaps(bars, i) ==
    {k \in (i + 1)..Lesser(i + FVG_BARS, Len(bars)) :
        bars[k].low > bars[k - 2].high /\ bars[k - 2].high > bars[i].low}

\* The sweep at i with the first gap after it, entered at the gap's top
SetupsAt(bars, i, since, least) ==
    LET k == Min(Gaps(bars, i))
        limit == bars[k].low
        sl == UnderWick(bars[i].low)
        target == Min(HighsOver(bars, k, limit))
        reward == 2000 * (target - limit)
    IN  IF ~Swept(bars, i) \/ Gaps(bars, i) = {} THEN {}
        ELSE IF k < since \/ HighsOver(bars, k, limit) = {} THEN {}
        ELSE IF Risk(limit, sl) = 0 \/ 10 * reward < least * Risk(limit, sl) THEN {}
        ELSE {[sweep |-> i, ready |-> k, limit |-> limit, sl |-> sl, target |-> target,
               rr |-> Round(100 * reward, Risk(limit, sl))]}

\* One setup per gap, the earliest sweep's
SweepSetups(bars, since, least) ==
    LET all == UNION {SetupsAt(bars, i, since, least) : i \in First..Len(bars)}
    IN  {s \in all : \A t \in all : t.ready = s.ready => s.sweep <= t.sweep}

-----------------------------------------------------------------------------
(* smc_setups: sweep, change of character, break of structure, gap         *)

LowestOf(bars, from, to) == Min({bars[j].low : j \in from..to})
HighestOf(bars, from, to) == Max({bars[j].high : j \in from..to})

\* The first of some candles at which a walk ends: beyond up, unless it is below down
Reached(bars, span, Up(_), Down(_)) ==
    LET ends == {j \in span : bars[j].close > Up(j) \/ bars[j].close < Down(j)}
    IN  IF ends = {} THEN {}
        ELSE LET j == Min(ends) IN IF bars[j].close < Down(j) THEN {} ELSE {j}

Choch(bars, i) ==
    LET guard == KnownHighs(bars, i)
    IN  IF guard = {} THEN {}
        ELSE Reached(bars, (i + 1)..Lesser(Len(bars), i + SMC_CHOCH_BARS),
                     LAMBDA j : bars[Max(guard)].high, LAMBDA j : LowestOf(bars, i, j - 1))
Bos(bars, i, choch) ==
    Reached(bars, (choch + 2)..Lesser(Len(bars), choch + SMC_BOS_BARS),
            LAMBDA k : HighestOf(bars, i, k - 1), LAMBDA k : LowestOf(bars, i, choch))
\* The candle that completes the gap of the break
GapOf(bars, bos) ==
    LET ready == {m + 1 : m \in {m \in Greater(2, bos - 1)..Lesser(Len(bars) - 1, bos + 1) :
                                    bars[m + 1].low > bars[m - 1].high}}
    IN  IF ready = {} THEN {} ELSE {Min(ready)}

SmcAt(bars, i) ==
    IF ~Swept(bars, i) THEN {}
    ELSE UNION {UNION {
        {[sweep |-> i, choch |-> c, bos |-> b, ready |-> r, limit |-> bars[r].low,
          sl |-> UnderWick(LowestOf(bars, i, c))] : r \in GapOf(bars, b)} : b \in Bos(bars, i, c)} :
            c \in Choch(bars, i)}
Usable(s) == Risk(s.limit, s.sl) >= 3 * Abs(s.limit) /\ Risk(s.limit, s.sl) <= 60 * Abs(s.limit)

\* A setup consumes the candles up to its entry
SmcSetups(bars, since) ==
    LET Scan[i \in Nat] ==
            IF i > Len(bars) THEN {}
            ELSE LET found == {s \in SmcAt(bars, i) : Usable(s)} IN
                 IF found = {} THEN Scan[i + 1]
                 ELSE found \union Scan[(CHOOSE s \in found : TRUE).ready + 1]
    IN  {s \in Scan[First] : s.ready >= since}

-----------------------------------------------------------------------------
(* structure_exit: from candle i's close                                   *)

StructureExit(bars, i) ==
    LET close == bars[i].close
        lows == {j \in KnownLows(bars, i + 1) : bars[j].low < close}
        highs == HighsOver(bars, i + 1, close)
    IN  IF lows = {} \/ highs = {} THEN {}
        ELSE {[sl |-> UnderWick(bars[Max(lows)].low), target |-> Min(highs)]}


None == -100000

-----------------------------------------------------------------------------
(* The size.  cap is the market capitalisation in millions of dollars.     *)

LevCap(cap) ==
    IF cap = None THEN 7
    ELSE IF cap >= 100000 THEN 20 ELSE IF cap >= 10000 THEN 10
    ELSE IF cap >= 1000 THEN 7 ELSE IF cap >= 200 THEN 5 ELSE 3

\* hlMax = 0 when the exchange's maximum is unknown; notional in cents
SizePlan(entry, stop, cap, hlMax, risk, margin) ==
    LET dist == Greater(500 * Distance(entry, stop), entry)      \* of 500 * entry
        most == IF hlMax = 0 THEN LevCap(cap) ELSE Greater(1, Lesser(LevCap(cap), hlMax))
        full == 500 * risk * entry >= margin * most * dist
        need == -((-500 * risk * entry) \div (dist * margin))
    IN  [cap |-> most, leverage |-> IF full THEN most ELSE Clamp(1, need, most),
         notional |-> IF full THEN 100 * margin * most ELSE Round(50000 * risk * entry, dist)]

\* The fixed exits, -10 / +15 / +20 per cent of the margin, in parts of 20 * lev of a tick
RoeLevels(entry, dir, lev) ==
    LET At(twentieths) == entry * (20 * lev + Sign(dir) * twentieths)
    IN  [sl |-> At(-2), tp1 |-> At(3), tp2 |-> At(4)]
FixedLeverage(lev, hlMax) == IF hlMax = 0 THEN lev ELSE Greater(1, Lesser(lev, hlMax))

-----------------------------------------------------------------------------
(* exits, for a market entry at candle i's close, in parts of 28000 of a   *)
(* tick; LONG on the candles as Seen by the direction                      *)

TrueRange(bars, j) ==
    Max({bars[j].high - bars[j].low, Abs(bars[j].high - bars[j - 1].close),
         Abs(bars[j].low - bars[j - 1].close)})
RangeSum(bars, i) == FoldSet(LAMBDA j, sum : sum + TrueRange(bars, j), 0, (i - 13)..i)

TARGET_R == 15
Exits(bars, i) ==
    LET unit == 28000
        close == unit * bars[i].close
        swings == {s \in {14 * x.sl : x \in StructureExit(bars, i)} :
                      close - s >= 56 * Abs(bars[i].close) /\ close - s <= 840 * Abs(bars[i].close)}
        ranges == IF i < 15 THEN 0 ELSE RangeSum(bars, i)
        stops == IF swings # {} THEN swings
                 ELSE IF ranges = 0 THEN {}
                 ELSE {close - Greater(3000 * ranges, 56 * Abs(bars[i].close))}
        TargetFor(sl) ==
            LET far == {t \in {unit * x.target : x \in StructureExit(bars, i)} :
                           10 * (t - close) >= TARGET_R * (close - sl)}
            IN  IF far # {} THEN Min(far) ELSE close + (TARGET_R * (close - sl)) \div 10
    IN  {[sl |-> sl, target |-> TargetFor(sl),
          rr |-> Round(100 * (TargetFor(sl) - close), close - sl)] : sl \in stops}

-----------------------------------------------------------------------------
(* The score                                                               *)

\* Full at the turn, gone after six closed candles
Fade(age) == IF age >= 6 THEN 0 ELSE Round(1000 * (6 - Greater(0, age)), 6)

\* dist: hundredths of a per cent from the level
Near(dist) == IF dist = None \/ Abs(dist) > 40 THEN 0 ELSE Round(1000 * (80 - Abs(dist)), 80)

\* reversal_reads: the divergence of a candle counts from three candles later on
ReversalReads(a, dir) ==
    LET kind == IF dir = "LONG" THEN "oversold_bottom" ELSE "overbought_top"
        words == IF dir = "LONG" THEN {"bullish", "hidden_bullish"} ELSE {"bearish", "hidden_bearish"}
        turns == {Fade(m.age) : m \in {m \in a.markers : m.active /\ m.kind = kind /\ m.age # None}}
        d == a.divergence
    IN  [turn |-> Max(turns \union {0}),
         divergence |-> IF d.type \notin words \/ d.playedOut THEN 0
                        ELSE IF d.forming THEN 1000 ELSE IF d.age = None THEN 0 ELSE Fade(d.age - 3),
         fib |-> IF a.fib.inZone /\ ~a.fib.void /\ (a.fib.bias = "long") = (dir = "LONG") THEN 1000 ELSE 0,
         level |-> Near(IF dir = "LONG" THEN a.support ELSE a.resistance)]
Weight(reads) == reads.turn + reads.divergence + reads.fib + reads.level

\* compose_score: the structure and the fresh reads share a cap
StructurePoints == [smc |-> 200, sweep |-> 100, none |-> 0]
ReversalPoints(reads) == Lesser(Round(150 * Weight(reads), 1000), 150)
Score(base, structure, reads, h1) ==
    base + Lesser(StructurePoints[structure] + ReversalPoints(reads), 250) + h1

H1_POINTS == 50
H1Vote(h1, dir) == IF h1 = dir THEN H1_POINTS ELSE IF h1 \in {"LONG", "SHORT"} THEN -H1_POINTS ELSE 0

\* blend: the 1H read is asked only where it can change the outcome.  r.exits
\* is what Exits finds, r.reads the fresh reads of the direction.
Blend(r, floor, leastRr, needsReversal) ==
    LET close == r.base >= floor - 200
        without == Score(r.base, r.structure, r.reads, 0)
        score == IF without + H1_POINTS >= floor
                 THEN Score(r.base, r.structure, r.reads, H1Vote(r.h1, r.dir)) ELSE without
        Refused == [is |-> IF close THEN "why" ELSE "quiet", score |-> 0]
    IN  IF ~r.fresh \/ r.dir \notin {"LONG", "SHORT"} THEN [is |-> "quiet", score |-> 0]
        ELSE IF needsReversal /\ Weight(r.reads) = 0 THEN Refused
        ELSE IF score < floor THEN Refused
        ELSE IF \A e \in r.exits : e.rr < leastRr THEN [is |-> "why", score |-> 0]
        ELSE [is |-> "scalp", score |-> score]

\* Which engine reads must point the setup's way in the limit mode
Confirmed(mode, m15, h1, dir) ==
    /\ mode \in {"15m", "1h+15m"} => m15 = dir
    /\ mode \in {"1h", "1h+15m"} => h1 = dir

\* Off the exchange, or its price more than one per cent from the candles'
Untradeable(listed, mid, close) ==
    ~listed \/ (mid # None /\ close # None /\ 100 * Distance(mid, close) > close)

\* An opposite signal flips a running scalp, or only closes it
MayFlip(strength, least, flippedLately) == strength >= least /\ ~flippedLately

-----------------------------------------------------------------------------
(* The recorded scalp                                                      *)

\* held: the position of the coin, on the record's side, entered within two per cent
HeldBy(pos, rec) ==
    /\ pos.side = rec.dir
    /\ rec.limit > 0 /\ 50 * Distance(pos.entry, rec.limit) <= rec.limit

ENTRY_BARS == 8
Beyond(dir, price, level) == IF dir = "LONG" THEN price <= level ELSE price >= level
\* w: the position, the ids of the resting orders (when they are known), the
\* mark; times in candles
Needs(rec, w, now, hold) ==
    IF rec.state = "pending"
    THEN IF HeldBy(w.pos, rec) THEN "promote"
         ELSE IF ~w.known THEN "keep"
         ELSE IF rec.oid \notin w.resting THEN "drop"
         ELSE IF now - rec.placed >= ENTRY_BARS \/ (w.mark # None /\ Beyond(rec.dir, w.mark, rec.sl))
         THEN "cancel" ELSE "keep"
    ELSE IF ~HeldBy(w.pos, rec) THEN "drop"
    ELSE IF now - rec.opened >= hold THEN "close" ELSE "keep"

\* settle: fills of the coin between two times; prices are volume-weighted
Amount(fs, Of(_)) == FoldLeft(LAMBDA sum, f : sum + Of(f), 0, fs)
ExitReason(rec, opens, closes, timedOut) ==
    LET f == Amount(opens, LAMBDA x : x.sz)
        e == Amount(closes, LAMBDA x : x.sz)
        paid == Amount(opens, LAMBDA x : x.px * x.sz)
        got == Amount(closes, LAMBDA x : x.px * x.sz)
        risk == Abs(paid - rec.sl * f)                    \* times f
        Off(level) == Abs(got - level * e) * f            \* times e and f
    IN  IF timedOut THEN "timeout"
        ELSE IF closes = <<>> \/ risk = 0 THEN "other"
        ELSE IF 4 * Off(rec.target) <= risk * e THEN "target"
        ELSE IF 4 * Abs(got * f - paid * e) <= risk * e THEN "breakeven"
        ELSE IF 2 * Off(rec.sl) <= risk * e \/ Sign(rec.dir) * (got - rec.sl * e) < 0 THEN "stop"
        ELSE "other"
Settle(fills, rec, timedOut, until) ==
    LET mine == SelectSeq(fills, LAMBDA x : x.coin = rec.coin /\ x.time >= rec.placed /\ x.time <= until)
        opens == SelectSeq(mine, LAMBDA x : x.open)
        closes == SelectSeq(mine, LAMBDA x : ~x.open)
    IN  IF opens = <<>> THEN {}
        ELSE {[pnl |-> Amount(closes, LAMBDA x : x.pnl) - Amount(mine, LAMBDA x : x.fee),
               reason |-> ExitReason(rec, opens, closes, timedOut)]}

-----------------------------------------------------------------------------
(* Changing a running scalp                                                *)

Ahead(dir, price, mark) == Sign(dir) * (price - mark) > 0
ByReach(levels, mark) == SetToSortSeq(levels, LAMBDA a, b : Distance(a, mark) < Distance(b, mark))

\* split: the nearest levels go while a share is worth less than least (lots
\* times ticks); the last level takes the remainder
MAX_TPS == 3
Split(levels, size, mark, least) ==
    LET Fits(n) == n = 1 \/ (size \div n) * mark >= least
        n == Max({k \in 1..Len(levels) : Fits(k)})
        kept == SubSeq(levels, Len(levels) - n + 1, Len(levels))
        share == size \div n
    IN  IF share = 0 THEN <<[px |-> Last(levels), size |-> size]>>
        ELSE [k \in 1..n |-> [px |-> kept[k], size |-> IF k = n THEN size - share * (n - 1) ELSE share]]

\* tp_ladder; the empty ladder means no change
TpLadder(existing, new, size, dir, mark, least) ==
    LET levels == ByReach(existing, mark)
        full == Len(levels) >= MAX_TPS
        kept == IF full THEN Front(levels) ELSE levels
    IN  IF ~Ahead(dir, new, mark) \/ size <= 0 THEN <<>>
        ELSE IF \E p \in existing : 2000 * Distance(new, p) < p THEN <<>>
        ELSE IF full /\ Distance(new, mark) <= Distance(Last(levels), mark) THEN <<>>
        ELSE Split(ByReach(Range(kept) \union {new}, mark), size, mark, least)

\* exit_state: the stops and the targets among the coin's reduce-only orders
IsStop(o, dir, mark) ==
    o.trigger /\ (o.kind = "stop" \/ (o.kind # "take" /\ Ahead(dir, mark, o.px)))
\* the tightest of some stops, as a set
Tightest(stops, dir) ==
    IF stops = {} THEN {} ELSE {IF dir = "LONG" THEN Max(stops) ELSE Min(stops)}
ExitState(orders, dir, mark) ==
    LET stops == {o \in orders : IsStop(o, dir, mark)}
    IN  [stops |-> stops, tps |-> orders \ stops, stop |-> Tightest({o.px : o \in stops}, dir)]

\* plan_update: the stop follows a fresh signal only if that tightens it
NewStop(sl, st, dir, mark) ==
    IF Ahead(dir, mark, sl) /\ \A cur \in st.stop : Ahead(dir, sl, cur) THEN {sl} ELSE {}
PlanUpdate(setup, st, size, dir, mark, least) ==
    [sl |-> NewStop(setup.sl, st, dir, mark),
     ladder |-> TpLadder({o.px : o \in st.tps}, setup.target, size, dir, mark, least)]

\* plan_add
AddPriceOk(mode, entry, mark, dir) ==
    LET gain == Sign(dir) * 1000 * (mark - entry) IN
    CASE mode = "any" -> TRUE
      [] mode = "better" -> gain <= -entry
      [] OTHER -> gain >= 2 * entry
PlanAdd(mode, setup, st, entry, dir, mark, adds, most) ==
    LET stops == IF NewStop(setup.sl, st, dir, mark) # {} THEN {setup.sl} ELSE st.stop
    IN  IF adds >= most \/ ~AddPriceOk(mode, entry, mark, dir) THEN {}
        ELSE {s \in stops : Ahead(dir, mark, s)}

-----------------------------------------------------------------------------
(* backend/scalp_guard.py: the limits of the scalp book and what makes an  *)
(* entry wait: dollars at risk, room to the next swing, the price left at  *)
(* the order, the memory of stop-outs, and the two pauses of a hot market. *)
(* Here prices are in ticks, times in minutes, dollars in parts of 10000   *)
(* where a risk is meant.  cfg has the SCALP_ settings the operators name. *)
(* How stretched a close is from its average (ext, hundredths of an ATR)   *)
(* is given.                                                               *)

Directions == {"LONG", "SHORT"}

-----------------------------------------------------------------------------
(* Dollars at risk.  Costs: 6.5 basis points in, 6.5 at the stop, 1.5 at   *)
(* the target.                                                             *)

RiskUsd(entry, stop, dollars) == Round(dollars * (10000 * Distance(entry, stop) + 13 * entry), entry)
\* A record whose risk cannot be read counts two per cent of its size, never zero
RecordRisk(r) ==
    IF r.entry = None \/ r.sl = None THEN 200 * r.dollars ELSE RiskUsd(r.entry, r.sl, r.dollars)

BookRisk(recs) == Round(FoldSet(LAMBDA r, sum : sum + RecordRisk(r), 0, recs), 100) * 100

\* book_state and Batch
BatchOf(recs, entriesThisCandle) ==
    [open |-> Cardinality(recs), candle |-> entriesThisCandle,
     side |-> [d \in Directions |-> Cardinality({r \in recs : r.dir = d})],
     risk |-> BookRisk(recs)]
Check(b, dir, risk, add, cfg) ==
    IF b.candle >= cfg.newPerCandle THEN "CANDLE_LIMIT"
    ELSE IF ~add /\ b.open >= cfg.maxOpen THEN "OPEN_LIMIT"
    ELSE IF ~add /\ b.side[dir] >= cfg.perSide[dir] THEN "SIDE_LIMIT"
    ELSE IF risk = None THEN "RISK_UNKNOWN"
    ELSE IF b.risk + risk > cfg.maxRisk THEN "RISK_LIMIT" ELSE "none"
Commit(b, dir, risk, add) ==
    [b EXCEPT !.candle = @ + 1, !.risk = @ + risk,
              !.open = IF add THEN @ ELSE @ + 1, !.side[dir] = IF add THEN @ ELSE @ + 1]

-----------------------------------------------------------------------------
(* The quality of an entry                                                 *)

\* _pivots: of equal highs in a row the first is the swing
SwingHighs(bars) ==
    {bars[i].high : i \in {i \in 4..(Len(bars) - 3) :
        /\ \A j \in (i - 3)..(i - 1) : bars[i].high > bars[j].high
        /\ \A j \in (i + 1)..(i + 3) : bars[i].high >= bars[j].high}}
\* The lows seen upside down
Inverted(bars) == [k \in DOMAIN bars |-> [high |-> -bars[k].low]]

\* The nearest confirmed swing of the last day against the trade
Opposing(bars, dir, entry) ==
    LET day == SubSeq(bars, Greater(1, Len(bars) - 95), Len(bars))
        swings == SwingHighs(IF dir = "LONG" THEN day ELSE Inverted(day))
    IN  {x \in swings : x > Sign(dir) * entry /\ \A y \in swings : y > Sign(dir) * entry => x <= y}
\* In hundredths of the risk
RoomR(bars, dir, entry, stop) ==
    {Round(100 * (x - Sign(dir) * entry), Distance(entry, stop)) : x \in Opposing(bars, dir, entry)}
QualityReasons(bars, dir, entry, stop, ext, cfg) ==
    IF entry = stop THEN {"NO_LEVELS"}
    ELSE (IF ext = None THEN {"NO_ATR"} ELSE IF ext > cfg.maxExtension THEN {"EXTENDED"} ELSE {})
         \union (IF \E room \in RoomR(bars, dir, entry, stop) : room < cfg.minRoom
                 THEN {"OPPOSING_STRUCTURE"} ELSE {})

\* live_check: the reward and the risk left at the price of the order, after costs
LiveReasons(dir, mark, stop, target, planned, cfg) ==
    LET risk == Sign(dir) * (mark - stop)
        reward == Sign(dir) * (target - mark)
        netRr == Round(100 * (10000 * reward - 8 * mark), 10000 * risk + 13 * mark)
        left == Round(100 * risk * planned, mark * Distance(planned, stop))
    IN  IF risk <= 0 \/ reward <= 0 THEN {"PRICE_PAST_LEVELS"}
        ELSE (IF netRr < cfg.minNetRr THEN {"LOW_NET_RR"} ELSE {})
             \union (IF planned # stop /\ left < cfg.minStopLeft THEN {"STOP_TOO_CLOSE"} ELSE {})

\* rank_key: quality, then score, then the less stretched, then the name
RanksBefore(a, b) ==
    LET Stretch(x) == IF x.ext = None THEN 9900 ELSE x.ext
        keyA == <<IF a.ok THEN 0 ELSE 1, -a.score, Stretch(a), a.name>>
        keyB == <<IF b.ok THEN 0 ELSE 1, -b.score, Stretch(b), b.name>>
    IN  \E k \in 1..4 : keyA[k] < keyB[k] /\ \A j \in 1..(k - 1) : keyA[j] = keyB[j]

-----------------------------------------------------------------------------
(* The memory of exits: a function from the keys <<coin, direction>> that  *)
(* have ended to how they last did                                         *)

RecordExit(memory, key, reason, at) ==
    [k \in DOMAIN memory \union {key} |->
        IF k = key THEN [reason |-> reason, at |-> at, reset |-> FALSE] ELSE memory[k]]
\* reads: the directions of the coin's candle that could be read, with
\* whether there was a qualifying setup
Observe(memory, coin, reads, slot) ==
    [k \in DOMAIN memory |->
        IF k[1] = coin /\ k[2] \in DOMAIN reads /\ ~reads[k[2]] /\ slot > memory[k].at
        THEN [memory[k] EXCEPT !.reset = TRUE] ELSE memory[k]]
ReentryBlock(memory, key, now, cfg) ==
    IF key \notin DOMAIN memory \/ memory[key].reason # "stop" THEN "none"
    ELSE IF now < memory[key].at + cfg.cooldown THEN "STOPOUT_COOLDOWN"
    ELSE IF ~memory[key].reset THEN "STOPOUT_NO_RESET" ELSE "none"
\* The 300 entries it may keep are more than the coins have directions
EXIT_MEMORY == 7 * 24 * 60
Prune(memory, now) == [k \in {k \in DOMAIN memory : now - memory[k].at < EXIT_MEMORY} |-> memory[k]]

\* add_block
AddBlock(rec, slot) ==
    IF slot <= rec.lastEntry THEN "ADD_SAME_SETUP" ELSE IF ~rec.reset THEN "ADD_NO_RESET" ELSE "none"
NeverLooser(dir, current, proposed) ==
    IF current = None THEN proposed
    ELSE IF dir = "LONG" THEN Greater(current, proposed) ELSE Lesser(current, proposed)

-----------------------------------------------------------------------------
(* The hot market.  h: the setups per candle, the targets hit, and until   *)
(* when each direction waits, for either reason                            *)

NoHeat == [slots |-> {}, targets |-> <<>>, last |-> None,
           until |-> [d \in Directions |-> 0], winUntil |-> [d \in Directions |-> 0]]
HOT_READ_WINDOW == 60
HOT_TP_WINDOW == 240
HEAT_KEEP == 1440
MAX_TARGETS == 100

HeatTarget(h, dir, at) == [h EXCEPT !.targets = Append(@, [at |-> at, dir |-> dir])]
RecentTargets(h, dir, now, window) ==
    Len(SelectSeq(h.targets, LAMBDA t : t.dir = dir /\ now - window < t.at /\ t.at <= now))
Reads(h, dir, now) ==
    FoldSet(LAMBDA s, sum : sum + s.count[dir], 0,
            {s \in h.slots : now - HOT_READ_WINDOW < s.at /\ s.at <= now})

\* Something new must push a count over: a setup on this candle, or a target
\* since the last one
Hot(h, dir, slot, count, cfg) ==
    \/ Reads(h, dir, slot) >= cfg.hotReads /\ count[dir] > 0
    \/ /\ cfg.hotTps > 0 /\ RecentTargets(h, dir, slot, HOT_TP_WINDOW) >= cfg.hotTps
       /\ \E k \in DOMAIN h.targets :
             h.targets[k].dir = dir /\ (h.last = None \/ h.targets[k].at > h.last)
WonThenBatch(h, dir, now, count, cfg) ==
    RecentTargets(h, dir, now, cfg.winWindow) >= cfg.winTps /\ count[dir] >= cfg.winBatch

HeatUpdate(h, slot, count, now, cfg) ==
    LET seen == [h EXCEPT !.slots = {s \in @ : s.at # slot} \union {[at |-> slot, count |-> count]}]
        late == Greater(slot, now)
        kept == SelectSeq(h.targets, LAMBDA t : t.at > slot - HEAT_KEEP)
    IN  [slots |-> {s \in seen.slots : s.at > slot - HEAT_KEEP}, last |-> slot,
         targets |-> SubSeq(kept, Greater(1, Len(kept) - MAX_TARGETS + 1), Len(kept)),
         until |-> [d \in Directions |-> IF Hot(seen, d, slot, count, cfg) THEN slot + cfg.hotPause
                                         ELSE h.until[d]],
         winUntil |-> [d \in Directions |-> IF WonThenBatch(seen, d, late, count, cfg)
                                            THEN late + cfg.winPause ELSE h.winUntil[d]]]
HotBlock(h, dir, now, cfg) == cfg.hotGuard /\ now < h.until[dir]
WinBlock(h, dir, now, cfg) == cfg.winPauseOn /\ now < h.winUntil[dir]

=============================================================================
