------------------------------- MODULE Replay -------------------------------
(***************************************************************************)
(* backend/portfolio_backtest.py: the publication strategy walked over the *)
(* history it could have seen.                                             *)
(*                                                                         *)
(* Times are in hours.  A candle has the fields ts (its opening), high,    *)
(* low and close.  A reading is SignalPolicy's, with radar (the reversal   *)
(* radar's mode and level), exhausted and flips.  A market gives the       *)
(* candles of a coin and a timeframe.  The set {} is Python's None.        *)
(***************************************************************************)
EXTENDS SignalPolicy, FiniteSets, FiniteSetsExt

Pub == INSTANCE ClosePicks

BTC == "BTC"
TFS == {"1H", "2H", "4H"}
Span(tf) == CASE tf = "1H" -> 1 [] tf = "2H" -> 2 [] OTHER -> 4
PUBLISH_TOP_N == 3
Newest(s, n) == SubSeq(s, Greater(1, Len(s) - n + 1), Len(s))

-----------------------------------------------------------------------------
(* What could be seen when.                                                *)

\* closed_slice: a candle counts once it has closed
Closed(bars, tf, at) == SelectSeq(bars, LAMBDA c : c.ts + Span(tf) <= at)
Window(bars, tf, at, lookback) == Newest(Closed(bars, tf, at), lookback)

\* publication_slots and publication_slots_every: the closes, in order
PublicationSlots(bars) == {bars[i].ts + Span("4H") : i \in DOMAIN bars}
SlotsEvery(bars, hours) ==
    {t \in {bars[i].ts + Span("1H") : i \in DOMAIN bars} : t % hours = 0}
Between(slots, from, to) == {t \in slots : from <= t /\ t <= to}
InOrder(times) ==
    [n \in 1..Cardinality(times) |-> CHOOSE t \in times : Cardinality({u \in times : u < t}) = n - 1]
\* the last `most` slots since `from` (0: all of them)
Slots(btc, hours, from, most) ==
    LET all == IF hours = 4 THEN PublicationSlots(btc["4H"]) ELSE SlotsEvery(btc["1H"], hours)
        order == InOrder({t \in all : t >= from})
    IN  IF most = 0 THEN order ELSE Newest(order, most)

\* atr_at, as the sum of n true ranges; none before the first n + 1 candles
TrueRange(c, before) ==
    Greater(c.high - c.low, Greater(Distance(c.high, before.close), Distance(c.low, before.close)))
AtrAt(bars, tf, at, n) ==
    LET win == Window(bars, tf, at, n + 1) IN
    IF Len(win) < n + 1 THEN {}
    ELSE {FoldLeft(LAMBDA sum, i : sum + TrueRange(win[i + 1], win[i]), 0, [i \in 1..n |-> i])}

\* widen_stop, in parts of 7000 of a tick; mult and add in hundredths
WidenStop(rec, bars, mult, add) ==
    LET dist == Distance(rec.entry, rec.sl)
        atr == IF add = 0 THEN 0 ELSE Max({0} \union AtrAt(bars, "2H", rec.slot, 14))
        new == Greater(7000 * dist, 70 * mult * dist + 5 * add * atr)
    IN  IF rec.direction = "LONG" THEN Greater(7 * rec.entry, 7000 * rec.entry - new)
        ELSE 7000 * rec.entry + new

\* the latest of the observations that were available, the first of equals
AsOf(snaps, slot) == {i \in DOMAIN snaps : snaps[i].at # {} /\ \A t \in snaps[i].at : t <= slot}
LatestOf(snaps, S) ==
    LET At(i) == CHOOSE t \in snaps[i].at : TRUE IN
    CHOOSE i \in S : \A j \in S : At(j) < At(i) \/ (At(j) = At(i) /\ i <= j)
MarketCapAt(snaps, slot) ==
    LET usable == {i \in AsOf(snaps, slot) : snaps[i].cap # {}} IN
    IF usable = {} THEN {} ELSE snaps[LatestOf(snaps, usable)].cap

-----------------------------------------------------------------------------
(* Which inputs there are (signal_inputs.py and the names of the report).  *)

EXTERNAL_FEATURE_FAMILIES ==
    {"funding", "open_interest", "futures_cvd", "long_short_ratio", "fear_greed",
     "news_sentiment", "onchain", "etf_flows", "macro", "options"}
EXTERNAL_HISTORICAL ==
    {"funding_rate", "open_interest", "futures_cvd", "long_short", "fear_greed", "news", "macro",
     "markets", "regime", "event_risk", "etf_flows", "options_expiry", "btc_mining",
     "whale_sells", "gomining_tokenomics", "tao_ecosystem", "liquidations"}

\* _ExternalCoverage.features_for over the requests made, each a pair of a
\* coin's observations and a slot
Features(snaps, slot) ==
    IF AsOf(snaps, slot) = {} THEN {} ELSE snaps[LatestOf(snaps, AsOf(snaps, slot))].names
Coverage(requests) ==
    LET Counted(acc, r) ==
            [requested |-> acc.requested + 1,
             future |-> acc.future + Cardinality({i \in DOMAIN r[1] : \E t \in r[1][i].at : t > r[2]}),
             available |-> [f \in EXTERNAL_FEATURE_FAMILIES |->
                 acc.available[f] + (IF f \in Features(r[1], r[2]) THEN 1 ELSE 0)]]
    IN  FoldLeft(Counted, [requested |-> 0, future |-> 0,
                           available |-> [f \in EXTERNAL_FEATURE_FAMILIES |-> 0]], requests)
Omitted(mode, cov) ==
    IF mode = "price_only" THEN EXTERNAL_FEATURE_FAMILIES
    ELSE {f \in EXTERNAL_FEATURE_FAMILIES : cov.available[f] = 0}

-----------------------------------------------------------------------------
(* Did every coin take part?                                               *)

Needed(sym) == IF sym = BTC THEN {"2H"} ELSE TFS
Ready(bars, tf, slot, warmup, lookback) ==
    LET win == Window(bars, tf, slot, lookback) IN
    /\ Len(win) >= warmup
    /\ Last(win).ts + Span(tf) = slot
    /\ \A i \in 2..Len(win) : win[i].ts - win[i - 1].ts = Span(tf)

\* history_coverage_report: what a coin lacked at which slot
HistoryReport(market, expected, slots, warmup, lookback) ==
    LET Misses(sym, tf) == {t \in slots : ~Ready(market[sym][tf], tf, t, warmup, lookback)}
        Unavailable(sym) == UNION {Misses(sym, tf) : tf \in Needed(sym)}
        lacking == IF slots = {} THEN expected ELSE {sym \in expected : Unavailable(sym) # {}}
    IN  [complete |-> lacking = {} /\ slots # {},
         lacking |-> lacking,
         misses |-> [sym \in lacking |-> [tf \in Needed(sym) |-> Cardinality(Misses(sym, tf))]],
         unavailable |-> MapThenSumSet(LAMBDA sym : Cardinality(Unavailable(sym)), expected),
         total |-> Cardinality(expected) * Cardinality(slots)]

\* universe_report; {} is a production universe nobody supplied
UniverseReport(seen, production, complete) ==
    LET missing == production \ seen
        whole == production # {} /\ missing = {} /\ complete
    IN  [mode |-> IF production = {} THEN "unspecified" ELSE IF whole THEN "production" ELSE "subset",
         missing |-> missing, complete |-> whole,
         extra |-> IF production = {} THEN {} ELSE seen \ production]

\* result_label and the blockers of _parity_block; run has the fields mode,
\* seen, production, history, pipeline, omitted and capped (every lookup of a
\* market cap found one)
ResultLabel(mode, universe, pipeline, external, capped, blockers) ==
    IF mode = "historical_full"
    THEN IF universe /\ pipeline /\ external /\ capped /\ blockers = {}
         THEN "production_parity" ELSE "historical_full_partial_coverage"
    ELSE IF universe THEN "full_universe_price_only" ELSE "subset_price_only"
Blockers(run) ==
    {b \in {"UNIVERSE_INCOMPLETE", "UNIVERSE_HISTORY_INCOMPLETE", "PIPELINE_INCOMPLETE",
            "EXTERNAL_DATA_ABSENT", "EXTERNAL_DATA_PARTIAL", "MARKET_CAP_FALLBACK",
            "LIVE_TICK_UNAVAILABLE", "DATA_QUALITY_NOT_RECONSTRUCTED"} :
        CASE b = "UNIVERSE_INCOMPLETE" -> run.production = {} \/ run.production \ run.seen # {}
          [] b = "UNIVERSE_HISTORY_INCOMPLETE" -> ~run.history
          [] b = "PIPELINE_INCOMPLETE" -> ~run.pipeline
          [] b = "EXTERNAL_DATA_ABSENT" -> run.mode = "price_only"
          [] b = "EXTERNAL_DATA_PARTIAL" -> run.mode # "price_only" /\ run.omitted # {}
          [] b = "MARKET_CAP_FALLBACK" -> ~run.capped
          [] OTHER -> TRUE}
Label(run) ==
    ResultLabel(run.mode, UniverseReport(run.seen, run.production, run.history).complete,
                run.pipeline, run.mode = "historical_full" /\ run.omitted = {}, run.capped,
                Blockers(run))

-----------------------------------------------------------------------------
(* What a slot publishes.                                                  *)

\* _reversal_against: the worst opposing level of the two radars
ReversalAgainst(dir, radars) ==
    LET against == {r.level : r \in {r \in radars : <<dir, r.mode>> \in {<<"LONG", "top">>, <<"SHORT", "bottom">>}}}
        order == <<"high", "elevated", "building", "low">>
    IN  IF against = {} THEN "none" ELSE order[Min({n \in 1..4 : order[n] \in against})]

\* the candidate of a coin; reads gives its three readings, 4H may be {}; a
\* replay takes every candle for good
HtfDirection(h4) == IF \E r \in h4 : r.tradeable THEN (CHOOSE r \in h4 : TRUE).direction ELSE "NEUTRAL"
Candidate(sym, reads, corr, btc, degraded) ==
    LET h1 == CHOOSE r \in reads["1H"] : TRUE
        h2 == CHOOSE r \in reads["2H"] : TRUE
        dir == h2.direction
        strength == SlotStrength(h1, h2, corr, btc)
        against == ReversalAgainst(dir, {h2.radar} \union {r.radar : r \in reads["4H"]})
        rr == (100 * Distance(Reward(h2.tps), h2.entry)) \div Distance(h2.sl, h2.entry)
    IN  [coin |-> sym, direction |-> dir, strength |-> strength, avg |-> AvgTfStrength(h1, h2),
         corr |-> corr >= 70, entry |-> h2.entry, sl |-> h2.sl, tps |-> h2.tps,
         quality |-> RecQuality(strength, dir, rr, HtfDirection(reads["4H"]), against,
                                h2.exhausted, h2.flips, degraded)]
Screened(reads, corr, btc) ==
    IF reads["1H"] = {} \/ reads["2H"] = {} THEN "MISSING_TIMEFRAME"
    ELSE ScreenCandidate(CHOOSE r \in reads["1H"] : TRUE, CHOOSE r \in reads["2H"] : TRUE, corr, btc)

\* one slot: coins in their order, ranked, the best of them picked
SlotInfluence(btcRead, onchain) ==
    IF btcRead = {} THEN BtcInfluence("NEUTRAL", 0, onchain)
    ELSE LET r == CHOOSE r \in btcRead : TRUE IN BtcInfluence(r.direction, r.strength, onchain)
SlotPicks(slot, order, reads, corr, btc) ==
    LET passing == SelectSeq(order, LAMBDA sym : Screened(reads[sym], corr[sym], btc) = "ok")
        ranked == RankCandidates([n \in DOMAIN passing |->
                      Candidate(passing[n], reads[passing[n]], corr[passing[n]], btc, FALSE)])
        picks == Pub!SelectPublishable(ranked, PUBLISH_TOP_N)
    IN  [n \in DOMAIN picks |-> picks[n] @@ ("slot" :> slot) @@ ("rank" :> n)]

-----------------------------------------------------------------------------
(* One recommendation walked forward.  cfg has the fields tf (the candles  *)
(* it is walked on), fill and age (the two windows in hours, 0: none),     *)
(* floor (the strength asked for), one (a trade per coin) and perLeg (fee  *)
(* and slippage of a leg, in basis points).                                *)

Working == {"PENDING", "OPEN", "PARTIAL_TP"}
NoPrice == 0
Whole(rec) == 10 * Len(rec.tps)
Share(rec, n) == IF Len(rec.tps) = 3 THEN <<15, 9, 6>>[n] ELSE 10
Ordered(rec) ==
    [status |-> "PENDING", stop |-> rec.sl, hits |-> {}, final |-> NoPrice,
     filled |-> {}, closed |-> {}, outcome |-> <<0, "working">>, moved |-> FALSE]

Touches(c, price) == c.low <= price /\ price <= c.high
Reaches(dir, c, price) == IF dir = "LONG" THEN c.high >= price ELSE c.low <= price
Breaks(dir, c, price) == IF dir = "LONG" THEN c.low <= price ELSE c.high >= price

Ended(pos, status, price, at, outcome) ==
    [pos EXCEPT !.status = status, !.final = price, !.closed = {at}, !.outcome = outcome]
StoppedAs(pos) ==
    LET n == Cardinality(pos.hits) IN
    IF pos.moved THEN <<n, "be">> ELSE <<n, "sl">>

\* signal_monitor.evaluate on one candle of a filled trade: the stop first, then
\* the targets, which bring the stop to the entry
Managed(rec, pos, c) ==
    LET hits == {n \in DOMAIN rec.tps \ pos.hits : Reaches(rec.direction, c, rec.tps[n])}
        all == pos.hits \union hits
    IN  IF Breaks(rec.direction, c, pos.stop)
        THEN Ended(pos, "STOP_LOSS_HIT", pos.stop, c.ts, StoppedAs(pos))
        ELSE IF hits = {} THEN pos
        ELSE IF all = DOMAIN rec.tps
        THEN [Ended(pos, "TARGET_HIT", rec.tps[Max(all)], c.ts, <<Max(all), "tp">>) EXCEPT !.hits = all]
        ELSE [pos EXCEPT !.status = "PARTIAL_TP", !.hits = all, !.stop = rec.entry,
                         !.moved = @ \/ pos.stop # rec.entry]
Aged(rec, pos, c, cfg) ==
    IF pos.status \in Working /\ cfg.age # 0 /\ c.ts + Span(cfg.tf) - rec.slot >= cfg.age
    THEN Ended(pos, "EXPIRED", c.close, c.ts, <<0, "expired">>) ELSE pos

\* the candle's close is the clock: an order is withdrawn at its deadline, and
\* a candle that opens past it cannot fill it
WalkOne(rec, pos, c, cfg) ==
    LET Due(t) == cfg.fill # 0 /\ t >= rec.slot + cfg.fill
        fills == Touches(c, rec.entry)
        filled == [pos EXCEPT !.status = "OPEN", !.filled = {c.ts}]
    IN  IF pos.status \notin Working THEN pos
        ELSE IF pos.status # "PENDING" THEN Aged(rec, Managed(rec, pos, c), c, cfg)
        ELSE IF Due(c.ts) THEN Ended(pos, "CANCELLED", NoPrice, rec.slot + cfg.fill, <<0, "cancelled">>)
        ELSE IF fills THEN Aged(rec, Managed(rec, filled, c), c, cfg)
        ELSE IF Due(c.ts + Span(cfg.tf)) THEN Ended(pos, "CANCELLED", NoPrice, c.ts, <<0, "cancelled">>)
        ELSE pos
WalkPosition(rec, bars, cfg) ==
    FoldLeft(LAMBDA pos, c : WalkOne(rec, pos, c, cfg), Ordered(rec),
             SelectSeq(bars, LAMBDA c : c.ts >= rec.slot))

\* the realised return in parts of the position times ticks; what is still open counts nothing
Gain(rec, pos) ==
    LET Leg(price) == Sign(rec.direction) * (price - rec.entry)
        banked == MapThenSumSet(LAMBDA n : Share(rec, n) * Leg(rec.tps[n]), pos.hits)
        rest == Whole(rec) - MapThenSumSet(LAMBDA n : Share(rec, n), pos.hits)
    IN  banked + (IF pos.final = NoPrice THEN 0 ELSE rest * Leg(pos.final))
\* _cost_pct: one leg in, one out for what was closed; in basis points of a part
Cost(rec, pos, perLeg) ==
    LET banked == MapThenSumSet(LAMBDA n : Share(rec, n), pos.hits) IN
    IF pos.filled = {} THEN 0
    ELSE perLeg * (Whole(rec) + (IF pos.final # NoPrice THEN Whole(rec) ELSE banked))
Measurable(pos) == pos.hits # {} \/ pos.final # NoPrice

\* _settle: the result in ten-thousandths of the risk taken
Settle(rec, pos, cfg) ==
    LET risk == Whole(rec) * Distance(rec.entry, rec.sl) IN
    [coin |-> rec.coin, slot |-> rec.slot, direction |-> rec.direction, status |-> pos.status,
     hits |-> pos.hits, moved |-> pos.moved, filled |-> pos.filled, closed |-> pos.closed,
     outcome |-> pos.outcome,
     hold |-> {t - f : t \in pos.closed, f \in pos.filled},
     r |-> IF Measurable(pos) /\ risk > 0
           THEN {Round(10000 * Gain(rec, pos) - rec.entry * Cost(rec, pos, cfg.perLeg), risk)} ELSE {}]

-----------------------------------------------------------------------------
(* The replay over the slots' picks, in their order: a pick becomes a      *)
(* trade and is walked at once, so that the next slot knows what is over.  *)

Forever == 1000000
Ends(trade) == IF trade.closed = {} THEN Forever ELSE CHOOSE t \in trade.closed : TRUE
Execute(acc, rec, market, cfg) ==
    LET busy == cfg.one /\ rec.coin \in DOMAIN acc.busy /\ acc.busy[rec.coin] > rec.slot
        trade == Settle(rec, WalkPosition(rec, market[rec.coin][cfg.tf], cfg), cfg)
    IN  IF rec.strength < cfg.floor THEN [acc EXCEPT !.below = @ + 1]
        ELSE IF busy THEN [acc EXCEPT !.skipped = @ + 1]
        ELSE [acc EXCEPT !.trades = Append(@, trade), !.busy = (rec.coin :> Ends(trade)) @@ @]
Trade(published, market, cfg) ==
    FoldLeft(LAMBDA acc, rec : Execute(acc, rec, market, cfg),
             [trades |-> <<>>, busy |-> << >>, below |-> 0, skipped |-> 0], published)
\* published: the slots' picks one after the other; reads, corr and btc of a slot
Replayed(slots, order, reads, corr, btc) ==
    FoldLeft(LAMBDA acc, t : acc \o SlotPicks(t, order, reads[t], corr, SlotInfluence(btc[t], 50)),
             <<>>, slots)

-----------------------------------------------------------------------------
(* The report.                                                             *)

Population(trades) ==
    LET Of(S) == Cardinality({i \in DOMAIN trades : trades[i].filled # {} /\ trades[i].status \in S}) IN
    [filled |-> Cardinality({i \in DOMAIN trades : trades[i].filled # {}}),
     cancelled |-> Cardinality({i \in DOMAIN trades : trades[i].status = "CANCELLED"}),
     completed |-> Of({"TARGET_HIT", "STOP_LOSS_HIT"}), expired |-> Of({"EXPIRED"}),
     open |-> Cardinality({i \in DOMAIN trades : trades[i].status \in Working})]

Settled(trades) ==
    SelectSeq(trades, LAMBDA t : /\ t.filled # {} /\ t.r # {}
                                 /\ t.status \in {"TARGET_HIT", "STOP_LOSS_HIT", "EXPIRED"})
Results(closed) == [n \in DOMAIN closed |-> CHOOSE r \in closed[n].r : TRUE]
SumR(rs) == FoldLeft(LAMBDA a, b : a + b, 0, rs)
\* the curve starts at nothing, and so does its peak
Drawdown(rs) ==
    FoldLeft(LAMBDA acc, r :
                LET eq == acc.eq + r
                    peak == Greater(acc.peak, eq)
                IN  [eq |-> eq, peak |-> peak, worst |-> Greater(acc.worst, peak - eq)],
             [eq |-> 0, peak |-> 0, worst |-> 0], rs).worst
\* a result of nothing counts as a loss
LosingStreak(rs) ==
    FoldLeft(LAMBDA acc, r : LET n == IF r <= 0 THEN acc.n + 1 ELSE 0 IN
                             [n |-> n, worst |-> Greater(acc.worst, n)],
             [n |-> 0, worst |-> 0], rs).worst
ByCoin(closed) ==
    [sym \in {closed[i].coin : i \in DOMAIN closed} |->
        LET own == SelectSeq(closed, LAMBDA t : t.coin = sym)
        IN  [trades |-> Len(own), total |-> SumR(Results(own))]]
BySlot(closed) ==
    [hour \in {closed[i].slot % 24 : i \in DOMAIN closed} |->
        LET own == SelectSeq(closed, LAMBDA t : t.slot % 24 = hour)
        IN  [trades |-> Len(own), total |-> SumR(Results(own))]]
Share1000(n, of) == Round(1000 * n, of)          \* a rate, in tenths of a per cent

\* aggregate, for at least one settled trade
Aggregate(trades) ==
    LET closed == Settled(trades)
        rs == Results(closed)
        wins == SelectSeq(rs, LAMBDA r : r > 0)
        losses == SelectSeq(rs, LAMBDA r : r <= 0)
        Count(P(_)) == Len(SelectSeq(closed, P))
        Side(dir) == SumR(Results(SelectSeq(closed, LAMBDA t : t.direction = dir)))
    IN  [trades |-> Len(closed), expectancy |-> Round(SumR(rs), Len(rs)), total |-> SumR(rs),
         winRate |-> Share1000(Len(wins), Len(rs)),
         factor |-> IF SumR(losses) = 0 THEN {} ELSE {Round(1000 * SumR(wins), -SumR(losses))},
         avgWin |-> IF wins = <<>> THEN 0 ELSE Round(SumR(wins), Len(wins)),
         avgLoss |-> IF losses = <<>> THEN 0 ELSE Round(SumR(losses), Len(losses)),
         drawdown |-> Drawdown(rs), streak |-> LosingStreak(rs),
         hits |-> [n \in 1..3 |-> Share1000(Count(LAMBDA t : n \in t.hits), Len(rs))],
         saved |-> [n \in 1..2 |-> Count(LAMBDA t : /\ t.hits = 1..n /\ t.moved
                                                    /\ t.status = "STOP_LOSS_HIT")],
         stopped |-> Count(LAMBDA t : t.status = "STOP_LOSS_HIT"),
         expired |-> Count(LAMBDA t : t.status = "EXPIRED"),
         full |-> Count(LAMBDA t : t.status = "TARGET_HIT"),
         long |-> Side("LONG"), short |-> Side("SHORT"),
         coins |-> ByCoin(closed), hours |-> BySlot(closed)]
Rates(trades) ==
    [fill |-> Share1000(Population(trades).filled, Len(trades)),
     cancelled |-> Share1000(Population(trades).cancelled, Len(trades))]
=============================================================================
