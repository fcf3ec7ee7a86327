---------------------------- MODULE Indicators ------------------------------
(***************************************************************************)
(* backend/indicators.py, as pure operators over closed candles: flow and  *)
(* volume, gaps and single candles, moving lines with their crosses, the   *)
(* history of a flip, bands and clouds, and the divergence of the RSI; the *)
(* markers and the whole reading of backend/candle_analysis.py, with the   *)
(* ages of backend/lifecycle.py; and of app.py which candles are fit to be *)
(* read, and what the day's list and the bell tell of them.                *)
(* Candle k of a sequence closes at slot k. Averages that feed on          *)
(* themselves are rounded to the unit of the prices they are given, which  *)
(* the caller makes fine enough; everything else is exact. The RSI is in   *)
(* hundredths. A reading that is not there is the empty set.               *)
(***************************************************************************)
EXTENDS ChartStructure

None == -100000
Newer(seq, n) == SubSeq(seq, Greater(1, Len(seq) - n + 1), Len(seq))
\* The first of the slots at which F is greatest
FirstGreatest(F(_), slots) == Min({i \in slots : \A j \in slots : F(j) <= F(i)})
Column(bars, F(_)) == [k \in DOMAIN bars |-> F(bars[k])]
VolumeOf(bars) == SumOf(LAMBDA i : bars[i].volume, 1, Len(bars))

\* A body of a ten-thousandth of the open has no direction
CandleDirection(c) ==
    IF c.open <= 0 \/ 10000 * Abs(c.close - c.open) <= c.open THEN 0
    ELSE IF c.close > c.open THEN 1 ELSE -1

-----------------------------------------------------------------------------
(* Flow: spot against futures                                              *)

\* What was bought less what was sold, in ten-thousandths; where nobody says
\* (or half is said) it is read from the close within the candle
Delta(c) ==
    LET range == c.high - c.low IN
    IF c.taker = None \/ (c.volume > 0 /\ 2 * c.taker = c.volume)
    THEN IF range = 0 THEN 0 ELSE Round(10000 * c.volume * (2 * (c.close - c.low) - range), range)
    ELSE 10000 * (2 * c.taker - c.volume)

\* cvd_trend: the flow of the last five candles against their turnover
FlowTrend(deltas) ==
    LET recent == Newer(deltas, 5)
        net == SumOf(LAMBDA i : recent[i], 1, Len(recent))
        gross == SumOf(LAMBDA i : Abs(recent[i]), 1, Len(recent))
    IN  IF Len(recent) < 4 \/ gross = 0 THEN "neutral"
        ELSE IF 20 * net > 3 * gross THEN "bullish"
        ELSE IF 20 * net < -3 * gross THEN "bearish" ELSE "neutral"
CvdTrend(bars) == FlowTrend(Column(bars, Delta))

\* compute_cvd_dominance.  A feed has a unit and a flow for some slots; price is
\* a close for some slots.
Shared(spot, fut, price) ==
    LET all == DOMAIN price \intersect DOMAIN spot.flow \intersect DOMAIN fut.flow
    IN  {t \in all : Cardinality({u \in all : u > t}) < 10}
Gross(feed, price, slots) ==
    FoldSet(LAMBDA t, sum : sum + Abs(feed.flow[t]) * (IF feed.unit = "usd" THEN 1 ELSE price[t]), 0, slots)
\* The upper median of the gaps between neighbours
MedianGap(slots) ==
    LET steps == {t \in slots : \E u \in slots : u < t}
        Gap(t) == t - Max({u \in slots : u < t})
        Under(g) == Cardinality({t \in steps : Gap(t) < g})
        Upto(g) == Cardinality({t \in steps : Gap(t) <= g})
        half == Cardinality(steps) \div 2
    IN  IF steps = {} THEN 0 ELSE CHOOSE g \in {Gap(t) : t \in steps} : Under(g) <= half /\ half < Upto(g)
FlowQuality(spot, fut, price) ==
    LET slots == Shared(spot, fut, price)
        n == Cardinality(slots)
    IN  IF "unknown" \in {spot.unit, fut.unit} THEN "unknown_units"
        ELSE IF n < 4 THEN "insufficient_aligned"
        ELSE IF 2 * n < Lesser(10, Cardinality(DOMAIN price)) THEN "insufficient_coverage"
        ELSE IF Gross(spot, price, slots) + Gross(fut, price, slots) = 0 THEN "zero_flow"
        ELSE IF Max(DOMAIN price) - Max(slots) > 2 * MedianGap(slots) THEN "stale" ELSE "ok"
Dominance(spot, fut, price) ==
    LET slots == Shared(spot, fut, price)
        f == Gross(fut, price, slots)
        all == f + Gross(spot, price, slots)
    IN  IF FlowQuality(spot, fut, price) # "ok" THEN "unknown"
        ELSE IF 5 * f >= 4 * all THEN "futures_dominated" ELSE IF 20 * f >= 13 * all THEN "futures_heavy"
        ELSE IF 5 * f <= all THEN "spot_dominated" ELSE IF 20 * f <= 7 * all THEN "spot_heavy" ELSE "balanced"

\* detect_cvd_divergence: who drives the move, which way it reads, and who may
\* be squeezed
PriceMove(bars) ==
    LET first == bars[Len(bars) - 4].close
        change == Last(bars).close - first
    IN  IF 200 * change > first THEN "up" ELSE IF 200 * change < -first THEN "down" ELSE "flat"
Agreed(class) ==
    [futures_dominated |-> "futures_dominated", futures_heavy |-> "futures_heavy", spot_dominated |-> "spot_dominated",
     spot_heavy |-> "spot_heavy", balanced |-> "confirmed", unknown |-> "confirmed"][class]
FlowRead(move, spot, fut, class, quality) ==
    LET with == IF move = "up" THEN "bullish" ELSE "bearish"
        against == IF move = "up" THEN "bearish" ELSE "bullish"
        Says(type, signal, squeeze) == [type |-> type, signal |-> signal, squeeze |-> squeeze]
        nothing == Says("neutral", "neutral", "none")
    IN  IF move = "flat"
        THEN IF quality # "ok" \/ "neutral" \in {spot, fut} \/ spot = fut THEN nothing
             ELSE Says("spot_absorption", spot, "building")
        ELSE CASE spot = against /\ fut = with -> Says("futures_led", against, "none")
               [] spot = with /\ fut = against -> Says("spot_led", with, "none")
               [] spot = with /\ fut = "neutral" -> Says("spot_only", with, "none")
               [] spot = "neutral" /\ fut = with -> Says("futures_only", "neutral", "none")
               [] spot = with /\ fut = with ->
                      Says(Agreed(class), with,
                           CASE class = "futures_dominated" -> "elevated" [] class = "futures_heavy" -> "building"
                             [] OTHER -> "none")
               [] OTHER -> nothing

\* calculate_obv, for the reader only: a close up adds the candle's volume
Obv(bars) ==
    FoldLeft(LAMBDA line, k :
                 Append(line, Last(line) + (IF bars[k].close > bars[k - 1].close THEN bars[k].volume
                                            ELSE IF bars[k].close < bars[k - 1].close THEN -bars[k].volume ELSE 0)),
             <<0>>, [k \in 1..(Len(bars) - 1) |-> k + 1])
ObvTrend(bars) ==
    LET line == Newer(Obv(bars), Lesser(14, Len(bars) - 1))
        span == Max({line[i] : i \in DOMAIN line}) - Min({line[i] : i \in DOMAIN line})
        change == Last(line) - line[1]
    IN  IF 4 * change > span THEN "rising" ELSE IF 4 * change < -span THEN "falling" ELSE "flat"
\* Swings of the closes, three candles a side
ClosingPivots(bars, Above(_, _)) ==
    {i \in 4..(Len(bars) - 3) : \A j \in (i - 3)..(i + 3) : ~Above(bars[j].close, bars[i].close)}
ObvDivergence(bars) ==
    LET line == Obv(bars)
        lows == ClosingPivots(bars, LAMBDA x, y : x < y)
        highs == ClosingPivots(bars, LAMBDA x, y : x > y)
        Two(pivots) == Cardinality(pivots) >= 2
        bull == /\ Two(lows) /\ bars[Max(lows)].close < bars[Back(lows, 1)].close
                /\ line[Max(lows)] > line[Back(lows, 1)]
        bear == /\ Two(highs) /\ bars[Max(highs)].close > bars[Back(highs, 1)].close
                /\ line[Max(highs)] < line[Back(highs, 1)]
    IN  IF bear /\ (bull => Max(highs) > Max(lows)) THEN "bearish" ELSE IF bull THEN "bullish" ELSE "none"

-----------------------------------------------------------------------------
(* Gaps and single candles                                                 *)

\* detect_fvg: size in tenths of a per cent.  Distance is from the last close,
\* in hundredths of a per cent.
Explosive(bars, i) ==
    LET recent == Newer(bars, 20)
        Reach(c) == c.high - c.low
        sum == SumOf(LAMBDA k : Reach(recent[k]), 1, Len(recent))
    IN  sum > 0 /\ 2 * Len(recent) * Reach(bars[i]) >= 5 * sum
Gaps(bars, size) ==
    LET close == Last(bars).close
        GapAt(i, kind, low, high, Fills(_)) ==
            [kind |-> kind, at |-> i, bottom |-> low, top |-> high, bag |-> Explosive(bars, i),
             filled |-> LET past == {k \in (i + 2)..Len(bars) : Fills(bars[k])} IN When(past # {}, Min(past)),
             distance |-> Round(10000 * (2 * close - low - high), 2 * close)]
    IN  UNION {LET before == bars[i - 1]
                   after == bars[i + 1]
               IN  When(before.high < after.low /\ 1000 * (after.low - before.high) >= size * before.high,
                        GapAt(i, "bullish", before.high, after.low, LAMBDA c : c.low <= before.high))
                   \union
                   When(before.low > after.high /\ 1000 * (before.low - after.high) >= size * before.low,
                        GapAt(i, "bearish", after.high, before.low, LAMBDA c : c.high >= before.low))
               : i \in 2..(Len(bars) - 1)}

\* find_volume_spikes: the loudest buying and selling candle
Bought(c) == IF c.taker = None THEN c.volume ELSE 2 * c.taker
LoudestBuy(bars) == FirstGreatest(LAMBDA i : Bought(bars[i]), DOMAIN bars)
LoudestSell(bars) == FirstGreatest(LAMBDA i : 2 * bars[i].volume - Bought(bars[i]), DOMAIN bars)

\* detect_engulfing: of each direction the newest of the last pairs
Engulfs(prev, c, dir) ==
    LET bull == dir = "bullish" IN
    /\ IF bull THEN prev.close < prev.open /\ c.close > c.open ELSE prev.close > prev.open /\ c.close < c.open
    /\ IF bull THEN c.open <= prev.close /\ c.close >= prev.open ELSE c.open >= prev.close /\ c.close <= prev.open
    /\ Abs(c.close - c.open) > Abs(prev.close - prev.open)
Engulfing(bars, lookback) ==
    LET price == Last(bars).close
        found == {<<i, dir>> \in (Greater(2, Len(bars) - lookback + 1)..Len(bars)) \X {"bullish", "bearish"} :
                     /\ 5 * Abs(bars[i].high + bars[i].low - 2 * price) <= 2 * price
                     /\ Engulfs(bars[i - 1], bars[i], dir)}
    IN  {p \in found : \A q \in found : q[2] = p[2] => q[1] <= p[1]}

\* detect_whale_activity: candles of the last five with 2.5 times the volume of
\* the twenty before
WhaleSays(c) ==
    LET body == c.close - c.open
        bought == 20 * Bought(c) >= 26 * c.volume
        sold == 20 * Bought(c) <= 14 * c.volume
    IN  IF 200 * Abs(body) < c.open /\ (bought \/ sold)
        THEN IF bought THEN "absorption_bull" ELSE "absorption_bear"
        ELSE IF bought /\ body < 0 THEN "bearish_rejection" ELSE IF sold /\ body > 0 THEN "bullish_absorption"
        ELSE IF body > 0 THEN "bullish" ELSE "bearish"
Whales(bars, lookback) ==
    {<<i, WhaleSays(bars[i])>> : i \in
        {i \in Greater(lookback + 1, Len(bars) - 4)..Len(bars) :
            LET before == VolumeOf(SubSeq(bars, i - lookback, i - 1))
            IN  before > 0 /\ 2 * lookback * bars[i].volume >= 5 * before}}

\* calculate_volume_signal: the baseline ends before the three candidates
VolumeSignal(bars, lookback) ==
    LET n == Len(bars)
        base == Newer(SubSeq(bars, 1, n - 3), lookback)
        total == VolumeOf(base)
        three == SubSeq(bars, n - 2, n)
        Body(c) == c.close - c.open
        loud == {i \in (n - 2)..n : /\ 10 * Len(base) * bars[i].volume >= 13 * total
                                    /\ bars[i].high > bars[i].low
                                    /\ 10 * Abs(Body(bars[i])) >= 4 * (bars[i].high - bars[i].low)}
        best == CHOOSE i \in loud : \A j \in loud :
                    bars[j].volume < bars[i].volume \/ (bars[j].volume = bars[i].volume /\ j <= i)
        Two(Way(_)) == Cardinality({i \in 1..3 : Way(Body(three[i]))}) >= 2
    IN  IF n < lookback + 2 \/ total = 0 THEN "none"
        ELSE IF loud # {} THEN IF Body(bars[best]) > 0 THEN "bullish" ELSE "bearish"
        ELSE IF 100 * Len(base) * VolumeOf(three) < 405 * total THEN "none"
        ELSE IF Two(LAMBDA b : b > 0) THEN "bullish" ELSE IF Two(LAMBDA b : b < 0) THEN "bearish" ELSE "none"

-----------------------------------------------------------------------------
(* Moving lines and their crosses                                          *)

\* Exponential, from the period-th value on
Ema(values, period) ==
    IF Len(values) < period THEN <<>>
    ELSE FoldLeft(LAMBDA line, v : Append(line, Round(2 * v + (period - 1) * Last(line), period + 1)),
                  <<Round(SumOf(LAMBDA i : values[i], 1, period), period)>>,
                  SubSeq(values, period + 1, Len(values)))
\* a goes over b, or under it, with the last of both
Cross(aBefore, bBefore, a, b) ==
    IF aBefore <= bBefore /\ a > b THEN "bullish" ELSE IF aBefore >= bBefore /\ a < b THEN "bearish" ELSE "none"
Prior(line) == line[Len(line) - 1]
Side(a, b) == IF a > b THEN 1 ELSE IF a < b THEN -1 ELSE 0

\* flip_history_bars: states are 1, -1, or 0 where no side is known
RunStart(states, first, i) == Min({k \in first..i : \A j \in k..i : states[j] = states[i]})
FlipHistory(states) ==
    LET known == {i \in DOMAIN states : states[i] # 0}
        first == Min(known)
        start == RunStart(states, first, Max(known))
        before == RunStart(states, first, start - 1)
    IN  IF known = {} \/ start = first \/ states[start - 1] = 0 THEN {}
        ELSE {[ago |-> Max(known) - start, previous |-> states[start - 1],
               since |-> When(before > first /\ states[before - 1] # 0, Max(known) - before)]}

\* _infer_interval and flip_close_ts, over the opening times of the candles
Interval(times) ==
    LET steps == {i \in 2..Len(times) : times[i] > times[i - 1]}
        Gap(i) == times[i] - times[i - 1]
        Often(i) == Cardinality({j \in steps : Gap(j) = Gap(i)})
    IN  When(steps # {}, Gap(FirstGreatest(Often, steps)))
FlipCloseTs(times, ago) ==
    {times[Len(times) - ago] + gap : gap \in {gap \in Interval(times) : ago < Len(times)}}

\* calculate_macd: the line, its signal, and what is read from them
Macd(closes, fast, slow, period) ==
    LET quick == Newer(Ema(closes, fast), Len(closes) - slow + 1)
        calm == Ema(closes, slow)
        macd == [k \in DOMAIN calm |-> quick[k] - calm[k]]
        smooth == Ema(macd, period)
        signal == [k \in DOMAIN macd |-> IF k < period THEN None ELSE smooth[k - period + 1]]
        a == Last(macd)
        b == Last(signal)
    IN  IF Len(closes) < slow + period THEN {}
        ELSE {[cross |-> Cross(Prior(macd), Prior(signal), a, b), zeroCross |-> Cross(Prior(macd), 0, a, 0),
               trend |-> IF a > b THEN "bullish" ELSE "bearish",
               flip |-> FlipHistory([k \in DOMAIN macd |-> IF k < period THEN 0 ELSE Side(macd[k], signal[k])])]}

\* calculate_ema_trend: the averages below the price, and the trend of the third
\* and fourth of the four
EMA_PERIODS == <<7, 21, 50, 200>>
EmaTrend(closes, periods) ==
    LET line == [k \in 1..4 |-> Ema(closes, periods[k])]
        known == {k \in 1..4 : line[k] # <<>>}
        above == {k \in known : Last(closes) > Last(line[k])}
        below == known \ above
        base == periods[3]
        crossing == 2 \in known /\ Len(closes) > periods[2]
    IN  [above |-> {periods[k] : k \in above}, below |-> {periods[k] : k \in below},
         trend |-> IF 3 \in above THEN IF 4 \in below THEN "mixed_bullish" ELSE "bullish"
                   ELSE IF 3 \in below THEN IF 4 \in above THEN "mixed_bearish" ELSE "bearish" ELSE "neutral",
         cross |-> IF crossing THEN Cross(Prior(line[1]), Prior(line[2]), Last(line[1]), Last(line[2])) ELSE "none",
         short |-> IF ~crossing THEN "none" ELSE IF Last(line[1]) > Last(line[2]) THEN "bullish" ELSE "bearish",
         flip |-> FlipHistory([i \in DOMAIN closes |->
                                  IF i < base THEN 0 ELSE Side(closes[i], line[3][i - base + 1])])]

\* bull_market_support_band: 20 weeks plain and 21 exponential; live is a set
SupportBand(closes, live) ==
    LET plain == Round(SumOf(LAMBDA i : Newer(closes, 20)[i], 1, 20), 20)
        quick == Last(Ema(closes, 21))
        Where(p) == IF p >= Greater(plain, quick) THEN "above" ELSE IF p <= Lesser(plain, quick) THEN "below" ELSE "inside"
        price == IF live = {} THEN Last(closes) ELSE CHOOSE p \in live : TRUE
    IN  IF Len(closes) < 21 THEN {}
        ELSE {[status |-> Where(price), closed |-> Where(Last(closes)),
               pending |-> Where(price) # Where(Last(closes))]}

\* calculate_vwap, in thousandths
Vwap(window) ==
    LET Turnover(i) == (window[i].high + window[i].low + window[i].close) * window[i].volume
        all == SumOf(Turnover, 1, Len(window))
        count == 3 * VolumeOf(window)
    IN  1000 * (all \div count) + Round(1000 * (all % count), count)
VwapRead(bars, period) ==
    LET n == Len(bars)
        now == Vwap(Newer(bars, period))
        early == Newer(SubSeq(bars, 1, n - 5), period)
        prior == Newer(Front(bars), period)
        Close(i) == 1000 * bars[i].close
    IN  IF n < 5 \/ VolumeOf(Newer(bars, period)) = 0 THEN {}
        ELSE {[slope |-> IF n < period + 5 \/ VolumeOf(early) = 0 THEN "flat"
                         ELSE IF 1000 * (now - Vwap(early)) > Vwap(early) THEN "rising"
                         ELSE IF 1000 * (Vwap(early) - now) > Vwap(early) THEN "falling" ELSE "flat",
               side |-> IF Close(n) > now THEN "above" ELSE "below",
               cross |-> IF VolumeOf(prior) = 0 THEN "none" ELSE Cross(Close(n - 1), Vwap(prior), Close(n), now)]}

-----------------------------------------------------------------------------
(* Trailing bands and clouds                                               *)

\* Wilder's average of the true range, from the period-th candle on
WilderRange(bars, period) ==
    LET Reach(i) == IF i = 1 THEN bars[1].high - bars[1].low ELSE TrueRange(bars, i)
    IN  FoldLeft(LAMBDA line, i : Append(line, Round((period - 1) * Last(line) + Reach(i), period)),
                 <<Round(SumOf(Reach, 1, period), period)>>, [k \in 1..(Len(bars) - period) |-> period + k])
\* calculate_supertrend: the bands only close in while the price is between them
SuperTrendLine(bars, period, multiplier) ==
    LET atr == WilderRange(bars, period)
        Middle(i) == (bars[i].high + bars[i].low) \div 2
        Up(i) == Middle(i) + multiplier * atr[i - period + 1]
        Down(i) == Middle(i) - multiplier * atr[i - period + 1]
        Step(line, i) ==
            LET was == Last(line)
                up == IF bars[i - 1].close > was.up THEN Up(i) ELSE Lesser(Up(i), was.up)
                down == IF bars[i - 1].close < was.down THEN Down(i) ELSE Greater(Down(i), was.down)
            IN  Append(line, [up |-> up, down |-> down,
                              trend |-> IF was.trend = -1 /\ bars[i].close > up THEN 1
                                        ELSE IF was.trend = 1 /\ bars[i].close < down THEN -1 ELSE was.trend])
    IN  FoldLeft(Step, <<[up |-> Up(period), down |-> Down(period),
                          trend |-> IF bars[period].close > Down(period) THEN 1 ELSE -1]>>,
                 [k \in 1..(Len(bars) - period) |-> period + k])
SuperTrend(bars, period, multiplier) ==
    LET line == SuperTrendLine(bars, period, multiplier)
        trends == Column(line, LAMBDA l : l.trend)
        now == Last(line)
        start == RunStart(trends, 1, Len(line))
    IN  IF Len(bars) <= period THEN {}
        ELSE {[trend |-> now.trend, value |-> IF now.trend = 1 THEN now.down ELSE now.up,
               flipped |-> now.trend # Prior(line).trend,
               flip |-> When(start > 1,
                             LET before == RunStart(trends, 1, start - 1)
                             IN  [ago |-> Len(line) - start, previous |-> trends[start - 1],
                                  since |-> Len(line) - before, dated |-> before > 1])]}

\* calculate_ichimoku, in quarters of the price: the line, the base line, the
\* slow span, and how far the cloud is moved on
ICHIMOKU == [line |-> 9, base |-> 26, slow |-> 52, shift |-> 26]
Centre(bars, period, i) ==
    Max({bars[k].high : k \in (i - period + 1)..i}) + Min({bars[k].low : k \in (i - period + 1)..i})
Ichimoku(bars, p) ==
    LET n == Len(bars)
        spanA == Centre(bars, p.line, n - p.shift) + Centre(bars, p.base, n - p.shift)
        spanB == 2 * Centre(bars, p.slow, n - p.shift)
        close == 4 * bars[n].close
        Tenkan(i) == Centre(bars, p.line, i)
        Kijun(i) == Centre(bars, p.base, i)
    IN  IF n < p.slow + p.shift THEN {}
        ELSE {[cloud |-> IF spanA >= spanB THEN "green" ELSE "red",
               side |-> IF close > Greater(spanA, spanB) THEN "above"
                        ELSE IF close < Lesser(spanA, spanB) THEN "below" ELSE "inside",
               cross |-> Cross(Tenkan(n - 1), Kijun(n - 1), Tenkan(n), Kijun(n)),
               flip |-> FlipHistory([i \in 1..n |->
                            IF i < Greater(p.line, p.base) THEN 0 ELSE Side(Tenkan(i), Kijun(i))])]}

\* The root, downward: bit by bit
Root(x) == FoldLeft(LAMBDA r, bit : IF (r + bit) * (r + bit) <= x THEN r + bit ELSE r,
                    0, <<16384, 8192, 4096, 2048, 1024, 512, 256, 128, 64, 32, 16, 8, 4, 2, 1>>)
\* calculate_bollinger_bands.  n squared times the variance of a window
Spread(window) ==
    LET n == Len(window)
        Off(i) == window[i] - window[1]
        sum == SumOf(Off, 1, n)
    IN  n * SumOf(LAMBDA i : Off(i) * Off(i), 1, n) - sum * sum
Total(window) == SumOf(LAMBDA i : window[i], 1, Len(window))
\* Where p is to the bands of the window, two deviations away
Outside(p, window) ==
    LET off == Len(window) * p - Total(window)
    IN  IF off * off <= 4 * Spread(window) THEN 0 ELSE IF off > 0 THEN 1 ELSE -1
Bandwidth(window) == Round(40000 * Root(100 * Spread(window)), Total(window))
Squeezed(width, widths) ==
    100 * Len(widths) * width < 85 * SumOf(LAMBDA i : widths[i], 1, Len(widths))
Bollinger(closes, period) ==
    LET n == Len(closes)
        Ending(i) == SubSeq(closes, i - period + 1, i)
        first == Greater(1, n - 49) + period - 1
        widths == [k \in 1..(n - first + 1) |-> Bandwidth(Ending(first + k - 1))]
        before == IF Len(widths) > 1 THEN Front(widths) ELSE widths
        priorSqueeze == n > period /\ Squeezed(Bandwidth(Ending(n - 1)), before)
        Name(side) == CASE side = 1 -> "bullish" [] side = -1 -> "bearish" [] OTHER -> "none"
        now == Outside(closes[n], Ending(n - 1))
    IN  IF n < period THEN {}
        ELSE {[squeeze |-> Squeezed(Last(widths), widths), prior |-> priorSqueeze,
               breakout |-> Name(Outside(closes[n], Ending(n))),
               release |-> IF priorSqueeze /\ Outside(closes[n - 1], Ending(n - 1)) # now THEN Name(now) ELSE "none"]}

-----------------------------------------------------------------------------
(* Retracement of the last leg                                             *)

\* fibonacci_retracement, in thousandths of the price
FIB_RATIOS == {236, 382, 500, 618, 650, 705, 786}
Fibonacci(bars, lookback) ==
    LET leg == Newer(bars, lookback)
        High(i) == leg[i].high
        Low(i) == -leg[i].low
        top == FirstGreatest(High, DOMAIN leg)
        bottom == FirstGreatest(Low, DOMAIN leg)
        hi == leg[top].high
        lo == leg[bottom].low
        up == bottom < top
        Level(r) == IF up THEN 1000 * hi - r * (hi - lo) ELSE 1000 * lo + r * (hi - lo)
        price == Last(leg).close
        Within(r) == IF up THEN Level(r) <= 1000 * price /\ 1000 * price <= Level(618)
                     ELSE Level(618) <= 1000 * price /\ 1000 * price <= Level(r)
    IN  When(Len(leg) >= 10 /\ hi > lo,
             [bias |-> IF up THEN "long" ELSE "short", levels |-> {Level(r) : r \in FIB_RATIOS},
              status |-> IF price = (IF up THEN hi ELSE lo) THEN "extended"
                         ELSE IF price = (IF up THEN lo ELSE hi) THEN "void"
                         ELSE IF Within(650) THEN "golden_pocket"
                         ELSE IF Within(786) THEN "entry_zone" ELSE "retracing"])

-----------------------------------------------------------------------------
(* The RSI                                                                 *)

\* calculate_rsi_series, from the candle after the period on
Rsi(closes, period) ==
    LET Gain(i) == Greater(0, closes[i + 1] - closes[i])
        Loss(i) == Greater(0, closes[i] - closes[i + 1])
        Wilder(F(_)) == FoldLeft(LAMBDA line, i : Append(line, Round((period - 1) * Last(line) + F(i), period)),
                                 <<Round(SumOf(F, 1, period), period)>>,
                                 [k \in 1..(Len(closes) - period - 1) |-> period + k])
        gain == Wilder(Gain)
        loss == Wilder(Loss)
    IN  IF Len(closes) <= period THEN <<>>
        ELSE [k \in DOMAIN gain |-> IF gain[k] + loss[k] = 0 THEN 5000 ELSE Round(10000 * gain[k], gain[k] + loss[k])]

\* calculate_stoch_rsi: K is the mean of three raw readings, D of three of those
Stochastic(rsi, period) ==
    [k \in 1..(Len(rsi) - period + 1) |->
        LET window == {rsi[i] : i \in k..(k + period - 1)}
        IN  IF Max(window) = Min(window) THEN 50000
            ELSE Round(100000 * (rsi[k + period - 1] - Min(window)), Max(window) - Min(window))]
StochSignal(k, d, prevK, prevD) ==
    CASE k >= 8000 -> IF prevK < 8000 THEN "bull_surge"
                      ELSE IF k < d /\ prevK >= prevD THEN "bear_cross_overbought" ELSE "overbought"
      [] k <= 2000 -> IF prevK > 2000 THEN "bear_collapse"
                      ELSE IF k > d /\ prevK <= prevD THEN "bull_cross_oversold" ELSE "oversold"
      [] k \in 2001..2999 -> "near_oversold"
      [] k \in 7001..7999 -> "near_overbought"
      [] OTHER -> "neutral"
StochRsi(closes, rsiPeriod, period) ==
    LET raw == Stochastic(Rsi(closes, rsiPeriod), period)
        n == Len(raw)
        K(i) == Round(raw[i] + raw[i - 1] + raw[i - 2], 30)
        D(i) == Round(raw[i] + 2 * raw[i - 1] + 3 * raw[i - 2] + 2 * raw[i - 3] + raw[i - 4], 90)
        before == IF n > 5 THEN n - 1 ELSE n
    IN  When(Len(closes) >= rsiPeriod + period + 8,
             [k |-> K(n), d |-> D(n), signal |-> StochSignal(K(n), D(n), K(before), D(before)),
              zone |-> IF K(n) < 2000 THEN "oversold" ELSE IF K(n) > 8000 THEN "overbought" ELSE "neutral"])

\* detect_rsi_divergence.  A divergence has its two swings, its strength, and,
\* while the second may still be beaten, the closes left to wait.
FRESH_BARS == 12
STALE_SHOW_BARS == 3
LeadTrend(bars) ==
    LET n == Len(bars)
        half == n \div 2
        early == SumOf(LAMBDA i : bars[i].close, 1, half)
        late == SumOf(LAMBDA i : bars[i].close, half + 1, n)
    IN  IF 100 * late * half > 101 * early * (n - half) THEN "up"
        ELSE IF 100 * late * half < 99 * early * (n - half) THEN "down" ELSE "flat"
\* Half a per cent in price and two points of the RSI
Rises(a, b) == 200 * (b - a) > a
Falls(a, b) == 200 * (a - b) > a
Diverging(type, from, at, gain) == When(gain > 200, [type |-> type, from |-> from, at |-> at, strength |-> Round(gain, 10), left |-> {}])
Standing(bars, rsi, lows, highs) ==
    LET trend == LeadTrend(bars)
        Pairs(pivots) == IF Cardinality(pivots) < 2 THEN {} ELSE {<<Back(pivots, 1), Max(pivots)>>}
    IN  UNION {LET a == p[1] b == p[2] gain == rsi[b] - rsi[a] IN
               (IF Falls(bars[a].low, bars[b].low) THEN Diverging("bullish", a, b, gain) ELSE {})
               \union (IF Rises(bars[a].low, bars[b].low) /\ trend # "down"
                       THEN Diverging("hidden_bullish", a, b, -gain) ELSE {}) : p \in Pairs(lows)}
       \union
       UNION {LET a == p[1] b == p[2] gain == rsi[b] - rsi[a] IN
              (IF Rises(bars[a].high, bars[b].high) THEN Diverging("bearish", a, b, -gain) ELSE {})
              \union (IF Falls(bars[a].high, bars[b].high) /\ trend # "up"
                      THEN Diverging("hidden_bearish", a, b, gain) ELSE {}) : p \in Pairs(highs)}
\* The extreme of the last candles, as many as a swing needs on its right, as the second
Awaited(bars, rsi, lows, highs, wing) ==
    LET n == Len(bars)
        tail == (n - wing + 1)..n
        Waiting(d) == [d EXCEPT !.left = {Greater(wing - (n - d.at), 1)}]
        low == FirstGreatest(LAMBDA i : -bars[i].low, tail)
        high == FirstGreatest(LAMBDA i : bars[i].high, tail)
        bull == IF lows # {} /\ Falls(bars[Max(lows)].low, bars[low].low)
                THEN Diverging("bullish", Max(lows), low, rsi[low] - rsi[Max(lows)]) ELSE {}
        bear == IF highs # {} /\ Rises(bars[Max(highs)].high, bars[high].high)
                THEN Diverging("bearish", Max(highs), high, rsi[Max(highs)] - rsi[high]) ELSE {}
    IN  {Waiting(d) : d \in bull \union bear}
\* Three per cent back, and the RSI over the middle: what was awaited has happened
PlayedOut(bars, rsi, d) ==
    LET at == bars[d.at].close
        now == Last(bars).close
    IN  IF d.type = "bullish" THEN 100 * now > 103 * at /\ Last(rsi) >= 5000
        ELSE 100 * now < 97 * at /\ Last(rsi) <= 5000
Bull(d) == d.type \in {"bullish", "hidden_bullish"}
Status(bars, rsi, d) ==
    LET age == Len(bars) - d.at IN
    IF d.left # {} THEN IF PlayedOut(bars, rsi, d) THEN "played_out" ELSE "forming"
    ELSE IF age <= FRESH_BARS THEN "confirmed" ELSE IF age <= FRESH_BARS + STALE_SHOW_BARS THEN "expired" ELSE "gone"
\* In quarters: what is left of its weight
Freshness(status, age) == IF status = "expired" THEN Greater(0, 4 - (age - FRESH_BARS)) ELSE 4
\* rsi stands for the last candles, from where it is known on
RsiDivergence(candles, rsiLine, lookback, wing) ==
    LET n == Lesser(lookback, Len(rsiLine))
        bars == Newer(candles, n)
        rsi == Newer(rsiLine, n)
        lows == PivotLows(bars, wing)
        highs == PivotHighs(bars, wing)
        standing == Standing(bars, rsi, lows, highs)
        found == IF standing # {} THEN standing ELSE Awaited(bars, rsi, lows, highs, wing)
        Yields(e, d) == \/ e.at < d.at
                        \/ e.at = d.at /\ (e.strength < d.strength \/ (e.strength = d.strength /\ (Bull(d) \/ ~Bull(e))))
        best == CHOOSE d \in found : \A e \in found : Yields(e, d)
        status == Status(bars, rsi, best)
    IN  IF Len(candles) < lookback \/ n < 2 * wing + 4 THEN {}
        ELSE IF found = {} THEN {}
        ELSE When(status # "gone",
                  [type |-> best.type, status |-> status, age |-> n - best.at, span |-> best.at - best.from,
                   strength |-> best.strength, left |-> IF status = "played_out" THEN {} ELSE best.left,
                   mixed |-> \E d \in found : Bull(d) # Bull(best), freshness |-> Freshness(status, n - best.at)])

-----------------------------------------------------------------------------
(* The candles a reading may be built on (app.py).  A candle's ts is the   *)
(* time it opens; span is the length of one.                               *)

ALERT_MAX_STALENESS_INTERVALS == 2
SplitClosed(bars, span, now) ==
    LET closed == SelectSeq(bars, LAMBDA c : c.ts + span <= now)
    IN  IF closed = <<>> /\ Len(bars) > 1 THEN Front(bars) ELSE IF closed = <<>> THEN bars ELSE closed

\* _fetch_alert_candles, which the monitor reads too: why the candles are refused
Refused(source, closed, span, now) ==
    CASE source \in {"no_pair", "demo"} -> source
      [] closed = <<>> -> "empty"
      [] now - (Last(closed).ts + span) > ALERT_MAX_STALENESS_INTERVALS * span -> "stale"
      [] OTHER -> "none"

\* _assess_data_quality: 0 is good, 1 degraded, 2 invalid.  live and signal are
\* prices that may be missing, band the two gaps allowed between them in
\* thousandths.
DataQuality(source, closed, span, now, live, signal, band) ==
    LET Grade(bad, poor) == IF bad THEN 2 ELSE IF poor THEN 1 ELSE 0
        n == Len(closed)
        age == Greater(0, now - (Last(closed).ts + span))
        last == Newer(closed, 12)
        steps == {i \in DOMAIN last : i > 1}
        Gap(i) == last[i].ts - last[i - 1].ts
        sorted == SortSeq([i \in 1..(Len(last) - 1) |-> Gap(i + 1)], LAMBDA a, b : a < b)
        usual == sorted[Len(sorted) \div 2 + 1]
        spacing == IF steps = {} THEN 0
                   ELSE Grade(\E i \in steps : 5 * Gap(i) > 9 * usual,
                              Cardinality({i \in steps : 20 * Abs(Gap(i) - usual) > 3 * usual}) >= 2)
        prices == {Grade(1000 * Abs(l - s) > band[2] * s, 1000 * Abs(l - s) > band[1] * s) :
                     l \in live \ {0}, s \in signal \ {0}}
    IN  IF source = "demo" \/ closed = <<>> THEN 2
        ELSE Max({Grade(n < 30, n < 60), Grade(age > 3 * span, 2 * age > 3 * span), spacing} \union prices)

\* _quick_tf_dir: the price over a rising EMA, or what most of the last bodies
\* say.  The newest candle is left out, closed or not.
QuickTfDir(bars, period, count) ==
    LET closed == Front(bars)
        line == Ema(Column(closed, LAMBDA c : c.close), period)
        price == Last(closed).close
        Pointing(way) == Cardinality({i \in DOMAIN Newer(closed, count) : CandleDirection(Newer(closed, count)[i]) = way})
        most == Greater(1, Round(3 * Len(Newer(closed, count)), 5))
        known == Len(closed) >= period + 2
    IN  IF Len(bars) < 2 THEN "NEUTRAL"
        ELSE IF known /\ price > Last(line) /\ Last(line) >= Prior(line) THEN "LONG"
        ELSE IF known /\ price < Last(line) /\ Last(line) <= Prior(line) THEN "SHORT"
        ELSE IF Pointing(1) >= most THEN "LONG" ELSE IF Pointing(-1) >= most THEN "SHORT" ELSE "NEUTRAL"

-----------------------------------------------------------------------------
(* lifecycle.py: what the age of a pattern means.  Freshness is in         *)
(* ten-thousandths.                                                        *)

GRACE_BARS == 3
LINEAR == [choch |-> 10, liquidity_grab |-> 5, engulfing |-> 5, acc_eql_fvg |-> 10]
WINDOW == [rsi_divergence |-> 12, fvg |-> 30, flag |-> 8, triangle |-> 8]
Classify(kind, age, forming) ==
    LET linear == kind \in DOMAIN LINEAR
        fresh == (LINEAR @@ WINDOW)[kind]
        Aged(status, freshness) == {[status |-> status, freshness |-> freshness]}
    IN  IF forming THEN Aged("forming", 10000)
        ELSE IF age > fresh + GRACE_BARS THEN {}
        ELSE IF linear THEN IF age < fresh THEN Aged("confirmed", Round(10000 * (fresh - age), fresh)) ELSE Aged("expired", 0)
        ELSE IF age <= fresh THEN Aged("confirmed", 10000) ELSE Aged("expired", 2500 * (4 - (age - fresh)))

-----------------------------------------------------------------------------
(* candle_analysis.py: markers of the RSI, and how wild the market is      *)

RSI_MARK_OVERSOLD == 4000
RSI_MARK_OVERBOUGHT == 6000
RETEST_MAX_BARS == 15

\* where the price is now, relative to a marked swing
RsiMarkStatus(bars, i, bottom) ==
    LET now == Last(bars).close
        at == bars[i].close
    IN  IF at = 0 THEN "active"
        ELSE IF bottom THEN IF now < bars[i].low THEN "invalidated" ELSE IF 100 * now >= 103 * at THEN "played_out" ELSE "active"
        ELSE IF now > bars[i].high THEN "invalidated" ELSE IF 100 * now <= 97 * at THEN "played_out" ELSE "active"

\* from: the first candle that may be marked
RsiSwingMarkers(bars, rsi, from) ==
    LET n == Len(bars)
        unread == n - Len(rsi)
        Read(i) == rsi[i - unread]
        Marker(i, bottom) == [at |-> i, bottom |-> bottom, rsi |-> Round(Read(i), 10), ago |-> n - i,
                              price |-> IF bottom THEN bars[i].low ELSE bars[i].high,
                              status |-> RsiMarkStatus(bars, i, bottom)]
        able == {i \in 1..n : i > unread /\ i >= from}
    IN  {Marker(i, TRUE) : i \in {k \in able \intersect PivotLows(bars, 3) : Read(k) <= RSI_MARK_OVERSOLD}}
        \union {Marker(i, FALSE) : i \in {k \in able \intersect PivotHighs(bars, 3) : Read(k) >= RSI_MARK_OVERBOUGHT}}
LatestMark(marks) == {m \in marks : \A o \in marks : o.at <= m.at}

\* back within two per cent of the latest marked bottom, never closed further under it
RsiRetest(bars, rsi, marks) ==
    LET Kind(gap) == IF gap <= -200 THEN "weaker" ELSE IF gap >= 200 THEN "stronger" ELSE "similar"
        Held(m) == \A j \in (m.at + 1)..Len(bars) : 100 * bars[j].close >= 98 * m.price
    IN  {[kind |-> Kind(Last(rsi) - 10 * m.rsi), low |-> m.price, ago |-> m.ago] :
            m \in {m \in LatestMark({k \in marks : k.bottom}) :
                     /\ m.ago \in 3..RETEST_MAX_BARS
                     /\ Held(m) /\ 100 * Last(bars).close <= 102 * m.price}}

\* the rank of the range of the last 14 candles among all such, ties in the middle
VolRegime(bars) ==
    LET Reach(i) == IF bars[i].close = 0 THEN 0 ELSE Round(1000000 * TrueRange(bars, i), bars[i].close)
        wild == [k \in 14..(Len(bars) - 1) |-> SumOf(LAMBDA i : Reach(i + 1), k - 13, k)]
        now == wild[Len(bars) - 1]
        under == Cardinality({k \in DOMAIN wild : wild[k] < now})
        rank == 2 * under + Cardinality({k \in DOMAIN wild : wild[k] = now})
        all == 2 * Cardinality(DOMAIN wild)
    IN  When(Len(bars) >= 45,
             [percentile |-> Round(100 * rank, all),
              zone |-> IF 100 * rank >= 85 * all THEN "extreme" ELSE IF 100 * rank >= 60 * all THEN "elevated"
                       ELSE IF 100 * rank <= 20 * all THEN "calm" ELSE "normal"])

\* build_candle_analysis: each reading over the candles it is made of, but for the
\* patterns of ChartPatterns and the futures; an event is dropped when its age is spent
SIGNAL_WINDOW_BARS == 60
STRUCTURE_CHART_BARS == 150
WEEKLY_TFS == {"1W", "2W", "3W", "1M"}
TF_CANDLE_N == ("1D" :> 3) @@ [tf \in {"1W", "2W", "3W"} |-> 2] @@ [tf \in {"15M", "1H", "2H", "4H", "8H", "12H", "1M"} |-> 4]
CandleAnalysis(bars, timeframe) ==
    LET closes == Column(bars, LAMBDA c : c.close)
        rsi == Rsi(closes, 14)
        n == Len(bars)
        count == TF_CANDLE_N[timeframe]
        marks == RsiSwingMarkers(bars, rsi, n - 29)
        chart == Newer(bars, SIGNAL_WINDOW_BARS)
        gaps == Gaps(bars, 15)
        unfilled == {[type |-> g.kind, filled |-> g.filled # {}, top |-> g.top, bottom |-> g.bottom] : g \in gaps}
        Alive(events, kind) == UNION {{e @@ life : life \in Classify(kind, e.ago, FALSE)} : e \in events}
    IN  [signalPrice |-> closes[n],
         rsi |-> When(rsi # <<>>, Last(rsi)),
         rsiSlope |-> When(Len(rsi) >= 5, Last(rsi) - rsi[Len(rsi) - 4]),
         priceRoc |-> When(n >= 5 /\ closes[n - 4] # 0, Round(10000 * (closes[n] - closes[n - 4]), closes[n - 4])),
         candleDirs |-> IF n < count THEN <<>> ELSE Column(Newer(bars, count), CandleDirection),
         rsiMarkers |-> marks, rsiRetest |-> IF rsi = <<>> THEN {} ELSE RsiRetest(bars, rsi, marks),
         rsiDivergence |-> RsiDivergence(bars, rsi, 30, IF timeframe \in WEEKLY_TFS THEN 2 ELSE 3),
         stochRsi |-> StochRsi(closes, 14, 14),
         macd |-> Macd(closes, 12, 26, 9), emaTrend |-> EmaTrend(closes, EMA_PERIODS),
         superTrend |-> SuperTrend(bars, 22, 3), ichimoku |-> Ichimoku(bars, ICHIMOKU),
         bollinger |-> Bollinger(closes, 20), vwap |-> VwapRead(bars, 50), volSignal |-> VolumeSignal(bars, 20),
         obvTrend |-> ObvTrend(bars), volRegime |-> VolRegime(bars), fib |-> Fibonacci(bars, 60),
         gaps |-> gaps, whales |-> Whales(bars, 20), wave |-> WaveTrend(bars),
         engulfing |-> Alive({[ago |-> n - e[1] + 1, signal |-> e[2]] : e \in Engulfing(bars, 1)}, "engulfing"),
         choch |-> Alive(Choch(bars), "choch"), liqGrab |-> Alive(LiquidityGrab(bars), "liquidity_grab"),
         \* the age of a setup is thrown away before it is asked for
         accSetup |-> {s @@ [status |-> "confirmed", freshness |-> 10000] : s \in AccSetup(bars, unfilled)},
         trendline |-> Trendline(chart), structureTrendline |-> Trendline(Newer(bars, STRUCTURE_CHART_BARS)),
         resistance |-> Resistance(chart), support |-> Support(chart),
         equalHighs |-> EqualHighs(bars, 25), equalLows |-> EqualLows(bars, 25),
         bosStreak |-> BosStreak(bars), liquidityPools |-> LiquidityPools(bars),
         spotFlow |-> CvdTrend(bars), volumeSpikes |-> <<LoudestBuy(bars), LoudestSell(bars)>>,
         deepHighs |-> {bars[i].high : i \in PivotHighs(bars, 3)}, deepLows |-> {bars[i].low : i \in PivotLows(bars, 3)}]

-----------------------------------------------------------------------------
(* What is told of the candles (app.py): the day's list and the bell       *)

INDICATOR_FLIP_TFS == {"1D", "1W"}
IndicatorFlips(bars, timeframe, fresh) ==
    LET closes == Column(bars, LAMBDA c : c.close)
        News(type, flips) == {[kind |-> "indicator_flip", type |-> type, bullish |-> f.previous = -1,
                               at |-> Len(bars) - f.ago, status |-> "active"] : f \in {f \in flips : f.ago <= fresh}}
    IN  IF timeframe \notin INDICATOR_FLIP_TFS \/ Len(bars) < 60 THEN {}
        ELSE News("macd", UNION {m.flip : m \in Macd(closes, 12, 26, 9)})
             \union News("ema50", EmaTrend(closes, EMA_PERIODS).flip)
             \union News("supertrend", UNION {s.flip : s \in SuperTrend(bars, 22, 3)})
             \union News("ichimoku", UNION {i.flip : i \in Ichimoku(bars, ICHIMOKU)})

DAILY_READ_WINDOW == 5
DAILY_PLAYED_OUT_KEEP == 2
\* how long ago a read first came true, and how long ago a close first went
\* beyond the extreme of its candle
PlayedAgo(bars, rsi, start, bullish, needRsi) ==
    LET unread == Len(bars) - Len(rsi)
        base == bars[start].close
        Agrees(k) == k > unread /\ IF bullish THEN rsi[k - unread] >= 5000 ELSE rsi[k - unread] <= 5000
        Moved(k) == IF bullish THEN 100 * bars[k].close >= 103 * base ELSE 100 * bars[k].close <= 97 * base
        played == {k \in (start + 1)..Len(bars) : Moved(k) /\ (needRsi => Agrees(k))}
    IN  When(played # {}, Len(bars) - Min(played))
InvalidatedAgo(bars, start, bullish) ==
    LET broke == {k \in (start + 1)..Len(bars) : IF bullish THEN bars[k].close < bars[start].low
                                                  ELSE bars[k].close > bars[start].high}
    IN  When(broke # {}, Len(bars) - Min(broke))

Verdict(show, status) == [show |-> show, status |-> status]
Keep(age, played, confirmed) ==
    IF \E p \in played : ~confirmed \/ p > age THEN Verdict(FALSE, "played_out_early")
    ELSE IF played = {} THEN Verdict(age \in 0..(DAILY_READ_WINDOW - 1), "active")
    ELSE Verdict(\E p \in played : age - p < DAILY_READ_WINDOW /\ p <= DAILY_PLAYED_OUT_KEEP, "played_out")
DivStatus(age, played, failed, confirmed) ==
    IF \E f \in failed : \A p \in played : f > p
    THEN Verdict(failed = {0} /\ age < DAILY_READ_WINDOW, "invalidated")
    ELSE Keep(age, played, confirmed)

DailyReads(bars, rsi, timeframe) ==
    LET n == Len(bars)
        divergences ==
            {LET forming == d.status \in {"forming", "played_out"}
                 played == PlayedAgo(bars, rsi, n - d.age, Bull(d), TRUE)
                 failed == InvalidatedAgo(bars, n - d.age, Bull(d))
             IN  DivStatus(IF forming THEN d.age ELSE d.age - 3, played, failed, ~forming)
                 @@ [kind |-> IF forming THEN "divergence_forming" ELSE "divergence", type |-> d.type,
                     bullish |-> Bull(d), at |-> n - d.age]
             : d \in {d \in RsiDivergence(bars, rsi, 30, 3) : d.status # "expired"}}
        reversals ==
            {Keep(m.ago - 3, PlayedAgo(bars, rsi, m.at, m.bottom, FALSE), TRUE)
             @@ [kind |-> "rsi_swing", type |-> "marker", bullish |-> m.bottom, at |-> m.at]
             : m \in {m \in LatestMark(RsiSwingMarkers(bars, rsi, 1)) : m.status # "invalidated"}}
        Listed(r) == [x \in DOMAIN r \ {"show"} |-> r[x]]
    IN  IF n < 40 THEN {}
        ELSE {Listed(r) : r \in {r \in divergences \union reversals : r.show}}
             \union IndicatorFlips(bars, timeframe, DAILY_READ_WINDOW - 1)

\* The bell.  A pattern is what a detector of the charts says of one, with the
\* candles at which it broke out and failed.
PATTERN_ALERT_FRESH_BARS == 3
WIDE_FRESH_BARS == 5
ConfirmedDivergenceStatus(bars, rsi, at, bullish) ==
    IF PlayedOut(bars, rsi, [at |-> at, type |-> IF bullish THEN "bullish" ELSE "bearish"]) THEN "played_out" ELSE "active"
PatternNews(p, n) ==
    LET Fresh(at) == at # {} /\ n - Max(at) <= PATTERN_ALERT_FRESH_BARS
        News(event, at) == {[kind |-> p.kind, type |-> p.type, event |-> event, at |-> Max(at), status |-> "none"]}
    IN  IF p.status = "failed" /\ Fresh(p.failed) THEN News("failed", p.failed)
        ELSE IF p.confirmed /\ (p.kind = "flag" => p.active) /\ Fresh(p.broke) THEN News("confirmed", p.broke) ELSE {}
ConfirmedPatterns(bars, rsi, patterns) ==
    LET n == Len(bars)
        divergences == RsiDivergence(bars, rsi, 30, 3)
    IN  UNION {PatternNews(p, n) : p \in patterns}
        \union {[kind |-> "divergence", type |-> d.type, event |-> "confirmed", at |-> n - d.age,
                 status |-> ConfirmedDivergenceStatus(bars, rsi, n - d.age, Bull(d))] :
                    d \in {d \in divergences : d.status = "confirmed" /\ d.age <= WIDE_FRESH_BARS}}
        \union {[kind |-> "divergence_forming", type |-> d.type, event |-> "forming", at |-> n - d.age - d.span, status |-> "none"] :
                    d \in {d \in divergences : d.status = "forming" /\ d.age <= PATTERN_ALERT_FRESH_BARS}}
        \union {[kind |-> "rsi_swing", type |-> IF m.bottom THEN "oversold_bottom" ELSE "overbought_top",
                 event |-> "confirmed", at |-> m.at, status |-> m.status] :
                    m \in {m \in LatestMark(RsiSwingMarkers(bars, rsi, 1)) : m.ago <= WIDE_FRESH_BARS}}

ConfirmCloseMs(ts, span, now) == IF ts + span \in 1..now THEN ts + span ELSE now
\* stored: what the KV has under the alert's name; nothing while it is down
AlertFirstSeen(stored, seed) == IF stored # {} THEN Max(stored) ELSE seed
\* One load: the news with the time each is said to be seen first, and what is
\* kept.  An alert is known by its kind, type, event and candle.
PatternAlerts(news, ts, span, now, seen, up) ==
    LET told == {a \in news : a.kind # "divergence_forming"}
        Name(a) == <<a.kind, a.type, a.event, a.at>>
        First(a) == AlertFirstSeen({e[2] : e \in {e \in seen : up /\ e[1] = Name(a)}}, ConfirmCloseMs(ts[a.at], span, now))
    IN  [shown |-> {<<Name(a), First(a)>> : a \in told},
         seen |-> IF up THEN seen \union {<<Name(a), First(a)>> : a \in told} ELSE seen]

=============================================================================
