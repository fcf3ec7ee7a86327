---------------------------- MODULE SignalScore ----------------------------
(***************************************************************************)
(* backend/signals.py, generate_signal from the readings to the strength.  *)
(* Every reading of the market votes with signed points (above zero is     *)
(* bullish) for one of five groups; then the caps per group, the reversal  *)
(* radar, the combinations across groups, the multiplier, the direction,   *)
(* and what moves the strength once the direction is settled.              *)
(*                                                                         *)
(* A reading m is a record with the fields the votes below name.  Funding  *)
(* is in parts of 10^-4 per cent per 8 hours, changes, distances and       *)
(* volume ratios are in tenths, the other ratios and the weights w in      *)
(* hundredths.  The tuning switches and the front-loaded recency, off by   *)
(* default, are left out.  m.chain is the chain of BTC, empty for a coin   *)
(* without one.  The multiplier is taken exactly; the code's binary        *)
(* product can round a tie the other way, one point of the score.          *)
(***************************************************************************)
EXTENDS SignalLevels, Sequences, SequencesExt

Themes == {"trend", "momentum", "flow", "sentiment", "pattern"}

\* The value of a reading that did not arrive
None == -100000
Known(x, default) == IF x = None THEN default ELSE x

Way(word) == IF word = "bullish" THEN 1 ELSE IF word = "bearish" THEN -1 ELSE 0

\* The points of the first step of a ladder that x exceeds
Steps(x, ladder) ==
    LET above == {k \in DOMAIN ladder : x > ladder[k][1]}
    IN  IF above = {} THEN 0 ELSE ladder[Min(above)][2]
Graded(x, ladder) == Steps(x, ladder) - Steps(-x, ladder)

\* Daily context on a shorter timeframe, in hundredths
MacroWeight == ("15M" :> 20) @@ ("1H" :> 30) @@ ("2H" :> 40) @@ ("4H" :> 50) @@ ("8H" :> 65)
               @@ ("12H" :> 80) @@ [tf \in {"1D", "1W", "2W", "3W", "1M"} |-> 100]
CycleWeight == ("15M" :> 10) @@ ("1H" :> 15) @@ ("2H" :> 25) @@ ("4H" :> 45) @@ ("8H" :> 65)
               @@ ("12H" :> 82) @@ [tf \in {"1D", "1W", "2W", "3W", "1M"} |-> 100]
INTRADAY_NO_CYCLE_TFS == {"15M", "1H", "2H"}
Cyc(points, tf) == Round(points * CycleWeight[tf], 100)

-----------------------------------------------------------------------------
(* Momentum                                                                *)

\* An extreme level votes against itself; 45..65 is neutral
RsiLevel(rsi) ==
    IF rsi = None THEN 0
    ELSE Steps(-rsi, <<<<-25, 22>>, <<-35, 12>>, <<-45, 4>>>>) - Steps(rsi, <<<<75, 22>>, <<65, 12>>>>)
RsiSlope(slope) == Graded(slope, <<<<180, 16>>, <<90, 9>>, <<40, 4>>>>)
Roc(roc) == Graded(roc, <<<<120, 20>>, <<60, 12>>, <<25, 5>>>>)

\* dirs: the signs of the four last closed candles, or fewer
CandleConsistency(dirs) ==
    LET Count(sign) == Cardinality({k \in DOMAIN dirs : dirs[k] = sign})
        Vote(n) == IF n = 4 THEN 12 ELSE IF n = 3 THEN 6 ELSE 0
    IN  IF Len(dirs) < 4 THEN 0 ELSE Vote(Count(1)) - Vote(Count(-1))

\* A histogram against a strong raw trend is worth 4 only
MacdTurns(macd, word) == word \in {macd.cross, macd.zero}
Macd(macd, raw) ==
    LET Vote(word, against) ==
            IF MacdTurns(macd, word) THEN 20
            ELSE IF macd.trend = word /\ macd.hist = Way(word)
            THEN IF against >= 25 THEN 4 ELSE 10 ELSE 0
    IN  Vote("bullish", raw.bear) - Vote("bearish", raw.bull)

EmaCross(ema) ==
    IF Way(ema.cross) # 0 THEN 14 * Way(ema.cross) ELSE 6 * Way(ema.short)

StochVotes == [bull_surge |-> 16, bull_cross_oversold |-> 20, oversold |-> 10, near_oversold |-> 5,
               bear_collapse |-> -16, bear_cross_overbought |-> -20, overbought |-> -8,
               near_overbought |-> -4]
StochRsi(signal) == IF signal \in DOMAIN StochVotes THEN StochVotes[signal] ELSE 0

\* fresh in hundredths; a divergence still counting is worth a point at least
RsiDivergence(d) ==
    LET way == Way(d.type) + (CASE d.type = "hidden_bullish" -> 1 [] d.type = "hidden_bearish" -> -1
                                [] OTHER -> 0)
        full == IF d.type \in {"bullish", "bearish"}
                THEN IF d.forming THEN 8 ELSE IF d.strength >= 5 THEN 18 ELSE 12
                ELSE IF d.strength >= 5 THEN 14 ELSE 10
        faded == Round(full * Clamp(0, Known(d.fresh, 100), 100), 100)
    IN  IF d.playedOut THEN 0
        ELSE way * (IF faded = 0 /\ Known(d.fresh, 100) > 0 THEN 1 ELSE faded)

-----------------------------------------------------------------------------
(* Flow                                                                    *)

CvdBase == [spot_dominated_up |-> 35, spot_heavy_up |-> 30, confirmed_up |-> 26, spot_led_up |-> 20,
            futures_heavy_up |-> 14, futures_dominated_up |-> 10, futures_led_up |-> -16,
            spot_dominated_down |-> -35, spot_heavy_down |-> -30, confirmed_down |-> -26,
            spot_led_down |-> -20, futures_heavy_down |-> -14, futures_dominated_down |-> -10,
            futures_led_down |-> 16, spot_absorption_bullish |-> 12, spot_absorption_bearish |-> -12]

\* The two flows together, or each alone when they do not diverge; ratio is the
\* spot flow over the futures flow, whole
Cvd(type, ratio, spot, futures) ==
    IF type \notin DOMAIN CvdBase THEN 14 * Way(spot) + 7 * Way(futures)
    ELSE LET base == CvdBase[type]
             extra == IF type \in {"spot_dominated_up", "spot_dominated_down"}
                      THEN Clamp(0, Round(ratio - 10, 10), 5) ELSE 0
         IN  IF base > 0 THEN base + extra ELSE base - extra

Funding(rate) ==
    LET fr == Known(rate, 0)
    IN  Steps(-fr, <<<<200, 16>>, <<50, 8>>>>) - Steps(fr, <<<<400, 16>>, <<150, 8>>>>)

\* move: the price over five candles, "none" with fewer; unmoved counts as falling
OpenInterest(change, strong, quad, move) ==
    LET size == IF change > strong THEN 12 ELSE IF change > quad THEN 5
                ELSE IF change < -strong THEN 8 ELSE IF change < -quad THEN 4 ELSE 0
    IN  IF move = "none" THEN 0 ELSE IF move = "up" THEN size ELSE -size

OiSqueeze(squeeze) ==
    IF squeeze = "short_squeeze_fuel" THEN 6 ELSE IF squeeze = "long_squeeze_risk" THEN -6 ELSE 0

\* _squeeze_priming: the crowded side is paying to stay
SqueezePriming(m) ==
    IF m.funding = None \/ m.move = "none" THEN 0
    ELSE IF m.futures = "bearish" /\ m.move = "down" /\ m.quadrant = "shorts_building" /\ m.funding < -30
    THEN 6
    ELSE IF m.futures = "bullish" /\ m.move = "up" /\ m.quadrant = "longs_building" /\ m.funding > 300
    THEN -6 ELSE 0

BookVotes == [strong_bid |-> 6, bid_heavy |-> 3, strong_ask |-> -6, ask_heavy |-> -3]
OrderBook(imbalance, bidWall, askWall) ==
    (IF imbalance \in DOMAIN BookVotes THEN BookVotes[imbalance] ELSE 0)
    + (IF bidWall THEN 4 ELSE 0) - (IF askWall THEN 4 ELSE 0)

NetflowVotes == [high |-> -15, medium |-> -8, low |-> -3, accumulation |-> 10, withdrawal |-> 5]
Netflow(pressure) == IF pressure \in DOMAIN NetflowVotes THEN NetflowVotes[pressure] ELSE 0

EtfFlows(etf, tf) == IF etf.today = 0 THEN 0 ELSE Cyc(etf.points, tf)
Volume(vol) == Way(vol.way) * (IF vol.ratio >= 20 THEN 12 ELSE 8)

-----------------------------------------------------------------------------
(* Sentiment                                                               *)

\* The standing backdrop is daily context; a release within a day counts whole
MacroTilt(net) == Clamp(-18, Round(4 * net, 10), 18)
Macro(macro, tf) ==
    LET soon == IF macro.imminent THEN macro.soon ELSE 0
    IN  IF ~macro.events THEN 0
        ELSE Clamp(-18, Cyc(MacroTilt(macro.net - soon), tf) + MacroTilt(soon), 18)

Markets(net, tf) == Cyc(Clamp(-8, net, 8), tf)
Regime(r, isBtc, tf) ==
    Cyc(r.liquidity, tf) + (IF isBtc THEN 0 ELSE Cyc(r.alts, tf) + Cyc(r.oi, tf))

LongShort(ratio) ==
    IF ratio <= 0 THEN 0
    ELSE Steps(-ratio, <<<<-65, 6>>, <<-85, 3>>>>) - Steps(ratio, <<<<250, 6>>, <<150, 3>>>>)

\* An index of 0 is no reading
FearGreed(value, tf) ==
    IF value \in {None, 0} THEN 0
    ELSE Round(MacroWeight[tf] * Steps(-value, <<<<-16, 25>>, <<-31, 12>>>>), 100)
         - Round(MacroWeight[tf] * Steps(value, <<<<79, 25>>, <<64, 12>>>>), 100)

\* Headlines that confirm what the price has done already count half
Heat(m) == IF m.chain = <<>> THEN 0 ELSE m.chain[1].heat
Extended(m) == Known(m.rsi, 50) >= 70 \/ Known(m.fearGreed, 50) >= 75 \/ Heat(m) >= 2
WashedOut(m) == Known(m.rsi, 50) <= 30 \/ Known(m.fearGreed, 50) <= 25
News(m, tf) ==
    LET Weigh(n, pricedIn) ==
            LET points == Round(Clamp(6, 4 * n, 15) * MacroWeight[tf], 100)
            IN  IF pricedIn THEN Greater(2, points \div 2) ELSE points
    IN  CASE m.news.way = "bullish" -> Weigh(m.news.bull, Extended(m))
          [] m.news.way = "bearish" -> -Weigh(m.news.bear, WashedOut(m))
          [] OTHER -> 0

-----------------------------------------------------------------------------
(* Pattern                                                                 *)

\* Open gaps on one side of the price, as counts of plain gaps and of bags
Gaps(side) == Lesser(14 * side.bags + 8 * side.plain, 24)
Fvg(below, above) == Gaps(below) - Gaps(above)

\* An event that loses its weight over a number of candles
Faded(event, points, over) == Way(event.way) * Round(points * Greater(0, over - event.ago), over)
Choch(event) == Faded(event, 18, 10)
LiquidityGrab(event) == Faded(event, 15, 5)
AccSetup(setup) ==
    Way(setup.way) * Greater(8, IF setup.strength > 55 THEN Round(25 * (setup.strength - 55), 45) ELSE 0)

\* The first of a sequence to pass a test votes, once per direction
FirstVote(seq, Passes(_), Points(_)) ==
    LET Vote(word) ==
            LET i == SelectInSeq(seq, LAMBDA p : p.way = word /\ Passes(p))
            IN  IF i = 0 THEN 0 ELSE Points(seq[i])
    IN  Vote("bullish") - Vote("bearish")

\* A flag against a raw trend of 25 keeps a third
Flags(flags, raw) ==
    LET Points(f) ==
            LET base == IF f.dominant THEN 20 ELSE 10
                against == IF f.way = "bullish" THEN raw.bear ELSE raw.bull
            IN  IF against >= 25 THEN Greater(1, Round(3 * base, 10)) ELSE base
    IN  FirstVote(flags, LAMBDA f : f.active /\ f.confirmed, Points)

\* Reversals before triangles, each fresh for five bars
PatternFresh(p) == p.confirmed /\ p.ago \in 0..5
ReversalPatterns(reversals, triangles) ==
    FirstVote(reversals \o triangles, LAMBDA p : PatternFresh(p) /\ ~p.displayOnly,
              LAMBDA p : CASE p.kind = "head" -> 18 [] p.kind = "triangle" -> 12 [] OTHER -> 14)

Engulfing(list) ==
    FoldLeft(LAMBDA sum, e : sum + (IF e.confirmed /\ e.ago <= 2
                                    THEN Way(e.way) * (IF e.ago = 1 THEN 25 ELSE 15) ELSE 0), 0, list)

Elliott(bias) == 8 * Way(bias)

ZoneVote(status) == CASE status = "inside" -> 8 [] status = "approaching" -> 5 [] OTHER -> 0
SrZones(supply, demand) == ZoneVote(demand) - ZoneVote(supply)

Bollinger(b) ==
    IF Way(b.afterSqueeze) # 0 THEN 16 * Way(b.afterSqueeze)
    ELSE IF Way(b.breakout) # 0 THEN 10 * Way(b.breakout)
    ELSE IF ~b.squeeze THEN 0 ELSE IF b.pctB > 60 THEN 5 ELSE IF b.pctB < 40 THEN -5 ELSE 0

-----------------------------------------------------------------------------
(* Trend                                                                   *)

\* EMA 50 and 200 against the price; alone50 is what the 50 counts by itself
EmaSide(near, far, both, against, alone) ==
    IF 50 \notin near THEN 0
    ELSE IF 200 \in near THEN both ELSE IF 200 \in far THEN against ELSE alone

CloudSide(cloud, color, side) ==
    (IF cloud.color = color THEN 8 ELSE 0) + (IF cloud.price = side THEN 15 ELSE 0)

\* _trend_raw: the first reading of the trend, for the counter-trend discounts
TrendRaw(m) ==
    LET Side(near, far, word, color, side) ==
            EmaSide(near, far, 18, 8, 8) + (IF m.supertrend.way = word THEN 12 ELSE 0)
            + CloudSide(m.cloud, color, side)
    IN  [bull |-> Side(m.ema.above, m.ema.below, "bullish", "green", "above"),
         bear |-> Side(m.ema.below, m.ema.above, "bearish", "red", "below")]

\* The vote proper: the sustained trend, each side capped
TREND_CAP == 35
TrendBucket(m) ==
    LET Side(near, far, word, color, side) ==
            EmaSide(near, far, 18, 8, 5)
            + (IF m.supertrend.way = word /\ ~m.supertrend.flipped THEN 12 ELSE 0)
            + CloudSide(m.cloud, color, side) + (IF m.cloud.cross = word THEN 12 ELSE 0)
    IN  Lesser(Side(m.ema.above, m.ema.below, "bullish", "green", "above"), TREND_CAP)
        - Lesser(Side(m.ema.below, m.ema.above, "bearish", "red", "below"), TREND_CAP)
SupertrendFlip(st) == IF st.flipped THEN 20 * Way(st.way) ELSE 0

\* A tag of the 200 EMA, closed back in the direction of the trend
Ema200Retest(r) ==
    IF ~r.tagged THEN 0
    ELSE IF r.up /\ r.candle = "bounced" THEN 12
    ELSE IF r.down /\ r.candle = "rejected" THEN -12 ELSE 0

\* dist: the price over the line, in tenths of a per cent; a broken line is crossed
LocalLine(line) ==
    CASE line.type = "resistance" -> IF line.broken = "up" THEN 14
                                     ELSE IF line.dist \in -12..-1 THEN -8 ELSE 0
      [] line.type = "support" -> IF line.broken = "down" THEN -14
                                  ELSE IF line.dist \in 1..12 THEN 8 ELSE 0
      [] OTHER -> 0
MacroLine(line) ==
    IF line.dist = None THEN 0
    ELSE CASE line.type = "resistance" -> IF line.broken = "up" /\ line.dist \in 1..60 THEN 12
                                          ELSE IF line.dist < 0 THEN -5 ELSE 0
           [] line.type = "support" -> IF line.broken = "down" /\ line.dist \in -60..-1 THEN -12
                                       ELSE IF line.dist > 0 THEN 5 ELSE 0
           [] OTHER -> 0

Vwap(v) ==
    IF Way(v.cross) # 0 THEN 14 * Way(v.cross)
    ELSE CASE v.price = "above" -> IF v.slope = "rising" THEN 10 ELSE 6
           [] v.price = "below" -> IF v.slope = "falling" THEN -10 ELSE -6
           [] OTHER -> 0

-----------------------------------------------------------------------------
(* The chain of BTC: one block, weighed by the timeframe as a whole        *)

Pick(table, key) == IF key \in DOMAIN table THEN table[key] ELSE 0
OnchainFlow(b) ==
    Pick([buy |-> 12, bull |-> 7, capitulation |-> -10, bear |-> -6], b.ribbon)
    + (IF b.profit = None THEN 0
       ELSE IF b.profit >= 200 THEN 8 ELSE IF b.profit >= 130 THEN 4 ELSE IF b.profit < 105 THEN -8 ELSE 0)
    + (IF b.difficulty = None THEN 0
       ELSE IF b.difficulty >= 30 THEN 4 ELSE IF b.difficulty <= -30 THEN -4 ELSE 0)
    + Pick([capitulation |-> 12, loss |-> 7, profit |-> -5, euphoria |-> -12], b.sopr)
    + Pick([deep_undervalued |-> 10, undervalued |-> 5, elevated |-> -4, extreme |-> -10], b.puell)
    + (IF b.realized = None THEN 0
       ELSE IF b.realized < 100 THEN 10 ELSE IF b.realized < 120 THEN 5
       ELSE IF b.realized > 350 THEN -8 ELSE 0)
OnchainSentiment(b) == Pick([mid |-> 6, early |-> 3, late |-> -4], b.phase)

-----------------------------------------------------------------------------
(* _reversal_radar                                                         *)

Bias(m) ==
    LET Held(span) == (IF span \in m.ema.above THEN 1 ELSE 0) - (IF span \in m.ema.below THEN 1 ELSE 0)
    IN  Held(50) + Held(200) + Way(m.supertrend.way)
RadarMode(m) == IF Bias(m) > 0 THEN "top" ELSE IF Bias(m) < 0 THEN "bottom" ELSE "none"

\* _counter_trend_break: the strongest fresh break against the trend is not on
\* thin volume.  A reversal outranks flags and triangles, then volume decides.
BreakFires(m, word) ==
    LET Fresh(p) == p.confirmed /\ p.way = word /\ p.ago \in 0..5
        reversals == {k \in DOMAIN m.reversals : Fresh(m.reversals[k])}
        volumes == IF reversals # {} THEN {m.reversals[k].volume : k \in reversals}
                   ELSE {m.flags[k].volume : k \in {k \in DOMAIN m.flags : Fresh(m.flags[k]) /\ m.flags[k].active}}
                        \union {m.triangles[k].volume : k \in {k \in DOMAIN m.triangles :
                                    Fresh(m.triangles[k]) /\ ~m.triangles[k].displayOnly}}
    IN  \E v \in volumes : v # "weak"

\* The signs that could be read, and those of them that fire
RadarSign(readable, fires) == [readable |-> readable, fires |-> readable /\ fires]
SharedSigns(m, word, stretched) ==
    << RadarSign(TRUE, m.divergence.type = word),
       RadarSign(TRUE, BreakFires(m, word)),
       RadarSign(m.stretch # None, stretched) >>
TopSigns(m, cycleOk) ==
    LET chain == cycleOk /\ m.chain # <<>> IN
    SharedSigns(m, "bearish", m.stretch >= 120) \o
    << RadarSign(m.rsi # None, m.rsi >= 70),
       RadarSign(cycleOk /\ m.fearGreed \notin {None, 0}, m.fearGreed >= 75),
       RadarSign(m.funding # None, m.funding >= 300),
       RadarSign(m.bands.pctB # None, m.bands.pctB >= 95),
       RadarSign(m.stoch # "none", m.stoch \in {"bear_cross_overbought", "overbought"}),
       RadarSign(m.volume.way # "none", m.volume.way = "bearish" /\ m.volume.ratio >= 15),
       RadarSign(m.longShort > 0, m.longShort >= 250),
       RadarSign(m.cvd # "none", m.cvd \in {"futures_led_up", "futures_dominated_up"}),
       RadarSign(m.quadrant # "none", m.squeeze = "long_squeeze_risk"),
       RadarSign(chain, m.chain[1].sopr = "euphoria"),
       RadarSign(chain, m.chain[1].puell = "extreme"),
       RadarSign(chain, m.chain[1].mvrv \in {"overbought", "extreme_top"}),
       RadarSign(chain, m.chain[1].pi \/ m.chain[1].heat >= 4) >>
BottomSigns(m, cycleOk) ==
    LET chain == cycleOk /\ m.chain # <<>> IN
    SharedSigns(m, "bullish", m.stretch <= -120) \o
    << RadarSign(m.rsi # None, m.rsi <= 30),
       RadarSign(cycleOk /\ m.fearGreed \notin {None, 0}, m.fearGreed <= 25),
       RadarSign(m.funding # None, m.funding <= -300),
       RadarSign(m.bands.pctB # None, m.bands.pctB <= 5),
       RadarSign(m.stoch # "none", m.stoch \in {"bull_cross_oversold", "oversold"}),
       RadarSign(m.volume.way # "none", m.volume.ratio >= 25),
       RadarSign(m.longShort > 0, m.longShort <= 65),
       RadarSign(m.cvd # "none", m.cvd \in {"futures_led_down", "futures_dominated_down"}),
       RadarSign(m.quadrant # "none", m.quadrant = "shorts_building"),
       RadarSign(chain, m.chain[1].sopr = "capitulation"),
       RadarSign(chain, m.chain[1].puell = "deep_undervalued"),
       RadarSign(chain, m.chain[1].mvrv = "oversold"),
       RadarSign(chain, m.chain[1].realized # None /\ m.chain[1].realized < 100) >>

RadarLevel(count, readable) ==
    LET Share(percent) == readable > 0 /\ 100 * count >= percent * readable
    IN  IF Share(55) \/ count >= 6 THEN "high" ELSE IF Share(35) \/ count >= 4 THEN "elevated"
        ELSE IF count >= 2 THEN "building" ELSE "low"
Radar(m, tf) ==
    LET cycleOk == tf \notin INTRADAY_NO_CYCLE_TFS
        signs == CASE RadarMode(m) = "top" -> TopSigns(m, cycleOk)
                   [] RadarMode(m) = "bottom" -> BottomSigns(m, cycleOk)
                   [] OTHER -> <<>>
        Number(Test(_)) == Len(SelectSeq(signs, Test))
    IN  RadarLevel(Number(LAMBDA s : s.fires), Number(LAMBDA s : s.readable))
\* Against the exhausted trend
RadarVote(m, tf) ==
    LET points == CASE Radar(m, tf) = "high" -> 8 [] Radar(m, tf) = "elevated" -> 4 [] OTHER -> 0
    IN  CASE RadarMode(m) = "top" -> -points [] RadarMode(m) = "bottom" -> points [] OTHER -> 0

-----------------------------------------------------------------------------
(* The groups and the running score                                        *)

PlainVotes(m, tf) ==
    LET raw == TrendRaw(m) IN
    [momentum |-> RsiLevel(m.rsi) + RsiSlope(m.slope) + Roc(m.roc) + CandleConsistency(m.dirs)
                  + Macd(m.macd, raw) + EmaCross(m.ema) + StochRsi(m.stoch) + RsiDivergence(m.divergence),
     flow |-> Cvd(m.cvd, m.spotRatio, m.spot, m.futures) + Funding(m.funding)
              + OpenInterest(m.oi, m.oiStrong, m.oiQuad, m.move) + OiSqueeze(m.squeeze) + SqueezePriming(m)
              + OrderBook(m.book, m.bidWall, m.askWall) + Netflow(m.netflow) + EtfFlows(m.etf, tf)
              + Cyc(m.gomining, tf) + Cyc(m.tao, tf) + Volume(m.volume),
     sentiment |-> Macro(m.macro, tf) + Markets(m.markets, tf) + Regime(m.regime, m.isBtc, tf)
                   + LongShort(m.longShort) + FearGreed(m.fearGreed, tf) + News(m, tf),
     pattern |-> Fvg(m.gapsBelow, m.gapsAbove) + Choch(m.choch) + LiquidityGrab(m.grab) + AccSetup(m.acc)
                 + Flags(m.flags, raw) + ReversalPatterns(m.reversals, m.triangles) + Engulfing(m.engulfing)
                 + Elliott(m.elliott) + SrZones(m.supply, m.demand) + Bollinger(m.bands),
     trend |-> TrendBucket(m) + SupertrendFlip(m.supertrend) + Ema200Retest(m.retest)
               + LocalLine(m.local) + MacroLine(m.ceiling) + Vwap(m.vwap)]

Total(g) == g.trend + g.momentum + g.flow + g.sentiment + g.pattern

\* The score and the groups are rounded apart when the chain is weighed down
Tally(m, tf) ==
    LET plain == PlainVotes(m, tf)
        flow == IF m.chain = <<>> THEN 0 ELSE OnchainFlow(m.chain[1])
        mood == IF m.chain = <<>> THEN 0 ELSE OnchainSentiment(m.chain[1])
        radar == RadarVote(m, tf)
    IN  [score |-> Total(plain) + Cyc(flow + mood, tf) + radar,
         groups |-> [plain EXCEPT !.flow = @ + Cyc(flow, tf),
                                  !.sentiment = @ + Cyc(mood, tf) + radar]]

GroupCap == [trend |-> 52, momentum |-> 44, flow |-> 48, sentiment |-> 42, pattern |-> 38]
Trimmed(t) ==
    LET capped == [x \in Themes |-> Clamp(-GroupCap[x], t.groups[x], GroupCap[x])]
    IN  [score |-> t.score - (Total(t.groups) - Total(capped)), groups |-> capped]

-----------------------------------------------------------------------------
(* The confluence engine                                                   *)

\* The group leans one way, or neither
Lean(v) == IF v > 8 THEN 1 ELSE IF v < -8 THEN -1 ELSE 0
Leans(g) == [x \in Themes |-> Lean(g[x])]
Overall(score) == IF score > 0 THEN 1 ELSE -1
SignOf(x) == IF x > 0 THEN 1 ELSE IF x < 0 THEN -1 ELSE 0
Agreeing(g, score) == Cardinality({x \in Themes : Lean(g[x]) = Overall(score)})
Conflicting(g, score) == Cardinality({x \in Themes : Lean(g[x]) = -Overall(score)})

FlowTrend(g) == IF Lean(g.flow) = Lean(g.trend) THEN 12 * Lean(g.trend) ELSE 0
MomentumTrend(g) == IF Lean(g.momentum) = Lean(g.trend) THEN 8 * Lean(g.trend) ELSE 0
\* A group against the trend docks the side of the trend
AgainstTrend(g, x, most) ==
    IF Lean(g[x]) = -Lean(g.trend) THEN -Lean(g.trend) * Lesser(Abs(g[x]), most) ELSE 0

FundingTrend(m, g, score) ==
    IF Abs(Known(m.funding, 0)) >= 200 /\ Lean(g.trend) = Overall(score) THEN 8 * Overall(score) ELSE 0

VolumeAgrees(m, score) == Way(m.volume.way) * SignOf(score) = 1
FlipAndVolume(m, score) ==
    IF m.supertrend.flipped /\ Way(m.supertrend.way) * SignOf(score) = 1 /\ VolumeAgrees(m, score)
    THEN 10 * Overall(score) ELSE 0
SqueezeAndVolume(m, score) ==
    IF Way(m.bands.afterSqueeze) * SignOf(score) = 1 /\ VolumeAgrees(m, score)
    THEN 10 * Overall(score) ELSE 0
DivergenceAndMacd(m) ==
    CASE m.divergence.type \in {"bullish", "hidden_bullish"} /\ MacdTurns(m.macd, "bullish") -> 12
      [] m.divergence.type \in {"bearish", "hidden_bearish"} /\ MacdTurns(m.macd, "bearish") -> -12
      [] OTHER -> 0

RibbonAndTrend(b, g, score) ==
    IF b.ribbon \in {"buy", "bull"} /\ Lean(g.trend) = 1 /\ score > 0 THEN 14
    ELSE IF b.ribbon \in {"capitulation", "bear"} /\ Lean(g.trend) = -1 /\ score < 0 THEN -14 ELSE 0
CycleAligned(b, score, tf) ==
    IF b.profit # None /\ b.profit >= 200 /\ b.phase \in {"mid", "early"} /\ score > 0 THEN Cyc(10, tf)
    ELSE IF b.profit # None /\ b.profit < 105 /\ b.phase = "late" /\ score < 0 THEN -Cyc(10, tf) ELSE 0
\* Taken off the running score at once, before the combinations that follow
CycleTop(b, tf) ==
    IF b.pi THEN Cyc(20, tf) ELSE IF b.heat >= 4 THEN Cyc(12, tf) ELSE IF b.heat >= 2 THEN Cyc(5, tf) ELSE 0

\* bullFlips, bearFlips: the fresh releases that turned
MacroFlips(m, g, score, agree) ==
    LET flips == IF score > 0 THEN m.macro.bullFlips ELSE IF score < 0 THEN m.macro.bearFlips ELSE 0
    IN  IF agree >= 2 THEN Overall(score) * Lesser(14, 7 * flips) ELSE 0
EtfFlip(m, score, agree) ==
    IF agree >= 2 /\ m.etf.today * SignOf(score) > 0 /\ m.etf.today * m.etf.week < 0
    THEN 8 * Overall(score) ELSE 0

\* In hundredths
Multiplier(agree, conflict) ==
    IF agree >= 4 /\ conflict = 0 THEN 130
    ELSE IF agree = 3 /\ conflict <= 1 THEN 115
    ELSE IF agree >= 2 /\ conflict = 0 THEN 108
    ELSE IF conflict >= 2 THEN 82
    ELSE IF agree <= 1 THEN 85 ELSE 100

FinalScore(m, t, tf) ==
    LET g == t.groups
        s == t.score
        agree == Agreeing(g, s)
        chain == m.chain # <<>>
        early == FlowTrend(g) + MomentumTrend(g) + AgainstTrend(g, "flow", 20)
                 + AgainstTrend(g, "momentum", 12) + FundingTrend(m, g, s) + FlipAndVolume(m, s)
                 + DivergenceAndMacd(m) + SqueezeAndVolume(m, s)
                 + (IF chain THEN RibbonAndTrend(m.chain[1], g, s) + CycleAligned(m.chain[1], s, tf) ELSE 0)
        topped == s - (IF chain THEN CycleTop(m.chain[1], tf) ELSE 0)
        late == MacroFlips(m, g, topped, agree) + EtfFlip(m, topped, agree)
    IN  Round((topped + early + late) * Multiplier(agree, Conflicting(g, s)), 100)

DIRECTION_THRESHOLD == 35
DirectionOf(score) ==
    IF score >= DIRECTION_THRESHOLD THEN "LONG"
    ELSE IF score <= -DIRECTION_THRESHOLD THEN "SHORT" ELSE "NEUTRAL"
BaseStrength(score) == Lesser((100 * Abs(score)) \div 220, 100)

-----------------------------------------------------------------------------
(* What moves the strength, never the direction                            *)

\* Options: the pin of an expiry within its window; points are signed
OptionsDelta(dir, points) ==
    IF SignOf(points) = Sign(dir) THEN Abs(points) ELSE -Round(Abs(points), 2)

\* _nearest_threatening_pool; level is the single equal high or low
NearestThreat(s, dir) ==
    LET Threatens(p) == p.price > 0 /\ Sign(dir) * (s.price - p.price) >= 0
        live == {p \in s.pools : IsLive(p) /\ Threatens(p) /\ p.touches >= 2}
        source == IF s.laddered THEN live ELSE {p \in s.level : Threatens(p)}
    IN  {p \in source : \A q \in source : Distance(p.price, s.price) <= Distance(q.price, s.price)}
\* Full at the price, gone 0.35 ATR away; touches and age discount it
StopRun(s, dir) ==
    LET near == NearestThreat(s, dir)
        p == CHOOSE x \in near : TRUE
        dist == Distance(p.price, s.price)
        close == Greater(100 * (35 * s.atr - 100 * dist), 35 * 35 * s.atr)
    IN  IF s.atr <= 0 \/ near = {} THEN 0
        ELSE IF p.touches < 2 \/ 100 * dist > 35 * s.atr THEN 0
        ELSE -Round(close * Lesser(p.touches, 5) * Freshness(p), 70000 * s.atr)

\* pos: where the price is in its range, in tenths of a per cent
Chase(pos, dir) ==
    LET past == IF dir = "LONG" THEN pos - 800 ELSE 200 - pos
    IN  IF pos = None \/ past < 0 THEN 0 ELSE -Greater(1, Round(8 * Lesser(past, 200), 200))

\* A break given back is worth nothing; one that holds loses its weight in ten bars
BosVote(bos, dir) ==
    LET fresh == IF bos.age = NoAge THEN 10 ELSE Greater(0, 10 - bos.age)
    IN  IF Way(bos.way) = 0 \/ ~bos.held THEN 0
        ELSE IF Way(bos.way) = Sign(dir) THEN Round(Lesser(8, 3 * bos.count) * fresh, 10)
        ELSE -Round(Lesser(6, 3 * bos.count) * fresh, 10)
StructureDelta(s, dir) ==
    IF s.bars < 10 \/ s.price <= 0 THEN 0
    ELSE Clamp(-18, StopRun(s, dir) + Chase(s.pos, dir) + BosVote(s.bos, dir), 8)

LiquidationDelta(pain, strong, dir) ==
    LET way == CASE pain = "upside" -> 1 [] pain = "downside" -> -1 [] OTHER -> 0
    IN  way * Sign(dir) * (IF strong THEN 4 ELSE 2)

\* rsi_reversal_delta: the latest marker against the trade, fading from bar 4 to 12
ReversalDelta(kind, age, dir) ==
    LET against == kind = (IF dir = "LONG" THEN "overbought_top" ELSE "oversold_bottom")
    IN  IF ~against \/ age < 0 \/ age >= 12 THEN 0
        ELSE IF age <= 4 THEN -6 ELSE -Greater(1, Round(6 * (12 - age), 8))
ObvDelta(divergence, cvdActive, dir) == IF ~cvdActive /\ Way(divergence) = -Sign(dir) THEN -5 ELSE 0
FibDelta(bias, inZone, dir) ==
    IF inZone /\ bias = (IF dir = "LONG" THEN "short" ELSE "long") THEN -5 ELSE 0

\* In the code's order, each kept within 0..100
Deltas(c, dir) ==
    << IF c.options.inWindow THEN OptionsDelta(dir, c.options.points) ELSE 0,
       StructureDelta(c.structure, dir), LiquidationDelta(c.pain, c.strongPain, dir),
       ReversalDelta(c.marker, c.markerAge, dir), ObvDelta(c.obv, c.cvdActive, dir),
       FibDelta(c.fib, c.inPocket, dir) >>
Settled(strength, deltas) == FoldLeft(LAMBDA s, d : Clamp(0, s + d, 100), strength, deltas)

TierOf(strength) ==
    IF strength < 33 THEN "Weak" ELSE IF strength < 51 THEN "Moderate"
    ELSE IF strength < 69 THEN "Strong" ELSE "Confirmed"
\* A release within two days, after the tier has been named
EventAdjusted(strength, event, dir) ==
    CASE event = "none" -> strength
      [] event \in {"bullish", "bearish"} ->
            IF Way(event) = Sign(dir) THEN Lesser(100, Round(105 * strength, 100)) ELSE Round(85 * strength, 100)
      [] OTHER -> Round(90 * strength, 100)

\* What the engine says of the score; c is the context of the direction
Verdict(score, c) ==
    LET dir == DirectionOf(score)
        base == BaseStrength(score)
        settled == Settled(base, Deltas(c, dir))
    IN  IF dir = "NEUTRAL" THEN [direction |-> dir, strength |-> base, tier |-> "Neutral"]
        ELSE [direction |-> dir, tier |-> TierOf(settled), strength |-> EventAdjusted(settled, c.event, dir)]

-----------------------------------------------------------------------------
(* For the recommendation engine                                           *)

Exhausted(m, dir) ==
    IF dir = "LONG"
    THEN Known(m.rsi, 50) > 65 \/ m.stoch \in {"overbought", "bear_cross_overbought", "near_overbought"}
    ELSE dir = "SHORT" /\ (Known(m.rsi, 50) < 35 \/ m.stoch \in {"oversold", "bull_cross_oversold", "near_oversold"})

ReversalCount(m, dir) ==
    LET word == IF dir = "LONG" THEN "bullish" ELSE "bearish"
        flips == << MacdTurns(m.macd, word), m.ema.cross = word, m.supertrend.way = word /\ m.supertrend.flipped,
                    m.vwap.cross = word, m.cloud.cross = word,
                    m.stoch = IF dir = "LONG" THEN "bull_cross_oversold" ELSE "bear_cross_overbought" >>
    IN  IF dir = "NEUTRAL" THEN 0 ELSE Len(SelectSeq(flips, LAMBDA f : f))

=============================================================================
