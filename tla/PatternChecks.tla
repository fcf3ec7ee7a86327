--------------------------- MODULE PatternChecks ----------------------------
(***************************************************************************)
(* Bounded checks. The charts and the indicators: candles along legs up    *)
(* and down, of several shapes, each with noise from its seed. Then what   *)
(* is kept beside the signals: the memory of patterns, the paper account,  *)
(* and the minutes of the scheduler's week.                                *)
(***************************************************************************)
EXTENDS Integers, Sequences, FiniteSets, SequencesExt, FiniteSetsExt

CP == INSTANCE ChartPatterns
Ind == INSTANCE Indicators

Jitter(x) == (((x % 1009) * (x % 997)) \div 7) % 4
\* Turning points in per cent of the first price: tops, bottoms, rails that meet
\* from both sides or one, and flags
Shapes == {<<100, 115, 105, 112, 102, 105, 95, 110>>, <<100, 85, 95, 85, 95, 80, 90, 100>>,
           <<100, 112, 104, 110, 105, 109, 106, 112>>, <<100, 115, 107, 119, 113, 122, 119, 112>>,
           <<100, 85, 92, 81, 87, 78, 81, 90>>, <<100, 112, 102, 112, 104, 112, 106, 103>>,
           <<100, 99, 100, 99, 112, 110, 111, 108>>, <<100, 101, 100, 101, 88, 90, 89, 84>>}
\* Leg k runs five candles from turn k to turn k + 1
PriceAt(shape, seed, i) ==
    LET leg == Min({(i \div 5) + 1, 7})
        step == i - 5 * (leg - 1)
    IN  (10 * shape[leg] + 2 * (shape[leg + 1] - shape[leg]) * step) \div 5 + Jitter(83 * seed + i)
Chart(shape, seed, n) ==
    [i \in 1..n |->
        LET open == PriceAt(shape, seed, i - 1)
            close == PriceAt(shape, seed, i)
        IN  [open |-> open, close |-> close,
             high |-> Max({open, close}) + (Jitter(7 * seed + 3 * i) % 3),
             low |-> Min({open, close}) - (Jitter(11 * seed + 5 * i) % 3),
             volume |-> Jitter(13 * seed + i) + 1]]
Seeds == 1..6
Charts(n) == {Chart(shape, seed, n) : shape \in Shapes, seed \in Seeds}
Upto(bars, n) == SubSeq(bars, 1, n)
All == Charts(38)


-----------------------------------------------------------------------------
(* Structure                                                               *)

\* A trendline leaves every body on its own side, the last candle's too: no
\* close is ever beyond it, and what waits for a broken one waits for ever.
LinesOf(bars) == CP!Trendline(bars).macro \union CP!Trendline(bars).local
ASSUME LineIsNeverBroken ==
    \A bars \in All, n \in {20, 26, 32, 38} :
        LET now == Upto(bars, n) IN
        \A l \in LinesOf(now) :
            /\ l.broken = "none"
            /\ \A i \in l.from..n :
                  IF l.kind = "support" THEN CP!At(l, i) <= 2500 * l.d * CP!BodyBottom(now[i])
                  ELSE CP!At(l, i) >= 2500 * l.d * CP!BodyTop(now[i])

\* One close never changes the character both ways, as rising swings cannot fall;
\* but a change is told again, and as new, at every later close beyond the level.
ASSUME ChochIsOneWay ==
    /\ \A bars \in All, n \in 11..38 : Cardinality(CP!Choch(Upto(bars, n))) <= 1
    /\ \E bars \in All, n \in 12..38 :
          /\ CP!Choch(Upto(bars, n)) # {}
          /\ CP!Choch(Upto(bars, n)) = CP!Choch(Upto(bars, n - 1))

\* A break of structure is judged against swings that were none yet: a swing the
\* next three candles confirm takes a break of the past away.  A break three
\* candles old stands.
ASSUME BreaksAreRewritten ==
    LET Seen(bars, n) == CP!Breaks(Upto(bars, n))
        Then(bars, n, m) == {b \in Seen(bars, m) : b.at <= n}
    IN  /\ \E bars \in All, n \in 20..35 : Seen(bars, n) \ Then(bars, n, n + 3) # {}
        /\ \A bars \in All, n \in {20, 28, 35} : Then(bars, n - 3, n + 3) = Then(bars, n - 3, n)

\* A swept pool is swept for good until it is touched again, which makes it whole;
\* and the wick that sweeps it by less than 0.4 per cent is itself the next touch,
\* three candles on.
Peaks(highs) ==
    [i \in 1..(4 * Len(highs) + 3) |->
        [high |-> IF i % 4 = 0 THEN highs[i \div 4] ELSE 985 + i, low |-> 900 + i, close |-> 960]]
ASSUME SweptUntilTouched ==
    /\ \A bars \in All, n \in {24, 28, 32, 36} :
          \A p \in CP!LiquidityPools(Upto(bars, n)), q \in CP!LiquidityPools(Upto(bars, n + 1)) :
              p.swept # {} /\ q.kind = p.kind /\ q.edge = p.edge /\ q.last = p.last => q.swept # {}
    /\ \A wick \in {1002, 1003, 1004, 1006, 1010} :
          LET bars == Peaks(<<1000, 1001, wick>>)
              Highs(n) == {p \in CP!LiquidityPools(Upto(bars, n)) : p.kind = "high" /\ p.low = 1000}
          IN  /\ \A n \in 12..14 : \E p \in Highs(n) : p.touches = 2 /\ p.swept # {}
              /\ \A p \in Highs(15) : IF wick <= 1004 THEN p.touches = 3 /\ p.swept = {} ELSE p.touches = 2 /\ p.swept # {}

\* The price is inside a zone only if the zone is one swing and its padding, or if
\* it rests on the top of the support: never within a band of several swings.
ASSUME InsideIsOneSwing ==
    \A bars \in All, n \in 20..38 :
        LET now == Upto(bars, n)
            swings == {1000 * now[i].high : i \in CP!PivotHighs(now, 3)} \union {1000 * now[i].low : i \in CP!PivotLows(now, 3)}
        IN  \A z \in CP!Resistance(now) \union CP!Support(now) :
                z.status = "inside" => (z.top + z.bottom) \div 2 \in swings \/ z.top = 1000 * now[n].close

\* Boxes of hourly candles are the sessions; of four-hour candles the American one
\* starts and ends three hours late, and shares none of Europe's.
Hourly == [k \in 1..48 |-> [high |-> k, low |-> k]]
ASSUME SessionBoxes ==
    LET Box(hours, name) == {b \in CP!SessionRanges(Upto(Hourly, 48 \div hours), 0, hours) : b.session = name}
        From(s) == CP!SESSIONS[s].from
    IN  /\ \A s \in 1..3 : \A b \in Box(1, CP!SESSIONS[s].name) :
              b.start % 24 = From(s) /\ (b.end + 1) % 24 = CP!SESSIONS[s].to
        /\ \A b \in Box(4, "US") : b.start % 24 = 16 /\ b.end % 24 = 20
        /\ \A b \in Box(4, "LONDON") : b.start % 24 = 8 /\ b.end % 24 = 12

\* Without a trend the panel calls a short with it and a long against it.
ASSUME FlatTrendFavoursShorts ==
    \A bars \in {Upto(b, 20) : b \in All}, turn \in {"none", "bullish"} :
        LET Reading(signal) ==
                [above |-> {}, below |-> IF turn = "none" THEN {} ELSE {9, 20}, supertrend |-> turn,
                 choch |-> "none", bos |-> "none", eqh |-> 0, eql |-> 0, signal |-> signal, tradeable |-> TRUE]
        IN  /\ \A row \in CP!Panel(bars, Reading("SHORT")) : row.trend = "NEUTRAL" /\ row.filter = "with trend"
            /\ \A row \in CP!Panel(bars, Reading("LONG")) : row.filter = "counter-trend"

-----------------------------------------------------------------------------
(* The life of a pattern                                                   *)

Rank(life) == CASE life.status = "forming" -> 0 [] life.status = "confirmed" -> 1 [] OTHER -> 2
\* A neckline's verdict stands: what confirmed stays confirmed there until it
\* fails, and what failed or was over never comes back.
ASSUME NecklineVerdictStands ==
    \A bars \in All, from \in {10, 20}, bear \in BOOLEAN, off \in {-12, 0, 12} :
        LET neck == 2 * bars[from].close + off
            far == IF bear THEN neck + 40 ELSE neck - 40
            Verdict(n) == CP!NecklineBreak(Upto(bars, n), from, neck, far, bear)
        IN  \A n \in from..37 :
                /\ Rank(Verdict(n)) <= Rank(Verdict(n + 1))
                /\ Rank(Verdict(n)) > 0 => Verdict(n).at = Verdict(n + 1).at
                /\ Rank(Verdict(n)) = 2 => Verdict(n) = Verdict(n + 1)

\* A reversal whose target the price has already passed is still a confirmed one.
ASSUME SpentReversalStands ==
    \E bars \in All, n \in 24..38 : \E r \in CP!Reversals(Upto(bars, n)) :
        /\ r.status = "confirmed" /\ r.type \in {"double_bottom", "triple_bottom", "inverse_head_shoulders"}
        /\ 20 * bars[n].close > r.target

\* Rails taken back after a close on the wrong side are at rest for ever: no later
\* close confirms or ends the pattern, and not even their meeting does.
Rails == [d |-> 1, us |-> 0, uc |-> 120, ls |-> 1, lc |-> 90]
After(closes) == [i \in 1..(4 + Len(closes)) |->
                     LET close == IF i <= 4 THEN 110 ELSE closes[i - 4] IN [high |-> close, low |-> close, close |-> close]]
ASSUME SpringRestsForEver ==
    \A tail \in [1..3 -> {80, 100, 119, 130}] :
        /\ \A b \in CP!Breakout(After(<<90, 110>> \o tail), Rails, 4, "bullish") : b.status = "forming"
        /\ CP!Breakout(After(<<90, 110>> \o tail), Rails, 4, "bullish") # {}

\* Before that, one close through decides: the right side confirms, at the first
\* such candle, whatever follows.
ASSUME FirstCloseDecides ==
    \A tail \in [1..3 -> {80, 100, 119, 130}], direction \in {"bullish", "neutral"} :
        LET life == CP!Breakout(After(<<110>> \o tail), Rails, 4, direction)
            out == {i \in 1..3 : tail[i] \notin (95 + i)..120}
        IN  IF out = {} THEN life = {CP!Resting}
            ELSE tail[Min(out)] = 130 => life = {[status |-> "confirmed", way |-> "up", at |-> 5 + Min(out), sweep |-> "none"]}

\* Confirmed patterns of a chart never point both ways.
ASSUME ConfirmedPatternsAgree ==
    \A bars \in All, n \in {24, 28, 32, 38} :
        Cardinality({t.direction : t \in {t \in CP!Triangles(Upto(bars, n)) : t.status = "confirmed"}}) <= 1

-----------------------------------------------------------------------------
(* Flags                                                                   *)

Found(bars, n, q) == CP!FlagOf(Upto(bars, n), q[1], q[2], 750)
Status(found) == IF found.flags # {} THEN {f.status : f \in found.flags} ELSE {r.reason : r \in found.rejected}
AllPoles(bars, n) == CP!Poles(Upto(bars, n), 40)

\* Of one pole: a flag that broke out keeps its candles and its break, and one
\* that failed stays failed; only the target and the zone are read anew.
ASSUME FlagVerdictStands ==
    \A bars \in All, n \in {26, 30, 34, 37} : \A q \in AllPoles(bars, n) :
        LET now == Found(bars, n, q)
            next == Found(bars, n + 1, q)
        IN  /\ \A f \in now.flags, g \in next.flags :
                  f.at # 0 => g.at = f.at /\ g.high = f.high /\ g.low = f.low /\ g.bars = f.bars
            /\ Status(now) = {"confirmed"} =>
                  Status(next) \subseteq {"confirmed", "failed", "target_already_hit", "price_left_zone"}
            /\ Status(now) = {"failed"} => Status(next) = {"failed"}
            /\ Status(now) = {"invalidated"} => Status(next) = {"invalidated"}

\* So a flag that reached its target comes back when the price does.
ASSUME ReachedFlagReturns ==
    \E bars \in All, n \in 26..37 : \E q \in AllPoles(bars, n) :
        Status(Found(bars, n, q)) = {"target_already_hit"} /\ Status(Found(bars, n + 1, q)) = {"confirmed"}

\* And a failed flag may give way to a confirmed one of the same pole's start: the
\* pole of two candles gave a flag that failed, the one of three gives another.
Relapse == <<<<108, 102, 106>>, <<112, 105, 110>>, <<110, 109, 109>>, <<110, 109, 109>>, <<109, 106, 107>>,
             <<107, 104, 104>>, <<105, 104, 105>>, <<106, 105, 105>>, <<105, 103, 104>>, <<106, 104, 105>>,
             <<105, 104, 104>>, <<104, 103, 103>>>>
Relapsing == [k \in 1..24 |->
                 IF k <= 12 THEN [open |-> 104, high |-> 104, low |-> 104, close |-> 104, volume |-> 1]
                 ELSE [open |-> IF k = 13 THEN 104 ELSE Relapse[k - 13][3], high |-> Relapse[k - 12][1],
                       low |-> Relapse[k - 12][2], close |-> Relapse[k - 12][3], volume |-> 1]]
ASSUME SiblingHidesAFailure ==
    /\ \E f \in CP!Flags(Relapsing, 750, 40) : f.status = "confirmed" /\ f.pole = 13
    /\ \E q \in AllPoles(Relapsing, 24) : q[1] = 13 /\ Status(Found(Relapsing, 24, q)) = {"failed"}

\* The dominant flags are some, of one direction and timeframe weight, and
\* confirmed ones if any active flag is.
FlagsOfCharts == [dir : {"bullish", "bearish"}, tf : {"4H", "1D"}, strength : {1, 3}, status : {"forming", "confirmed"}, active : BOOLEAN]
Weighted(f) == [dir |-> f.dir, tf |-> f.tf, strength |-> f.strength, status |-> f.status, active |-> f.active,
                weight |-> IF f.tf = "4H" THEN 1 ELSE 2]
ASSUME ConfirmedFlagsDominate ==
    \A f, g \in FlagsOfCharts : \A h \in {f, [dir |-> "bullish", tf |-> "1D", strength |-> 2, status |-> "confirmed", active |-> TRUE]} :
        LET flags == <<Weighted(f), Weighted(g), Weighted(h)>>
            picked == CP!PickDominant(flags)
            dominant == {p \in picked : p.dominant}
            Live(p) == \E k \in 1..3 : CP!RankOf(flags[k]) = 2 /\ flags[k].dir = p.dir /\ flags[k].tf = p.tf /\ flags[k].strength = p.strength
        IN  /\ dominant # {} /\ Cardinality({p.dir : p \in dominant}) = 1 /\ Cardinality({p.tf : p \in dominant}) = 1
            /\ (\E k \in 1..3 : CP!RankOf(flags[k]) = 2) => \A p \in dominant : Live(p)
            /\ \A k \in 1..3 : \E p \in picked : p.dir = flags[k].dir /\ p.tf = flags[k].tf

-----------------------------------------------------------------------------
(* Indicators                                                              *)

\* The same charts in a finer unit where a line is smoothed
Fine(bars) ==
    [k \in DOMAIN bars |-> [open |-> 100 * bars[k].open, high |-> 100 * bars[k].high,
                            low |-> 100 * bars[k].low, close |-> 100 * bars[k].close]]
Closes(bars) == Ind!Column(bars, LAMBDA c : c.close)

\* Once a later candle has traded through it a gap stays filled, wherever the
\* price goes; only the name it has (gap or breakaway) follows the ranges of today.
Same(g, h) == g.at = h.at /\ g.kind = h.kind
ASSUME FilledForGood ==
    /\ \A bars \in All, n \in {20, 28, 37} : \A g \in Ind!Gaps(Upto(bars, n), 1) :
          \E h \in Ind!Gaps(Upto(bars, n + 1), 1) :
              Same(g, h) /\ g.bottom = h.bottom /\ g.top = h.top /\ (g.filled # {} => h.filled = g.filled)
    /\ \E bars \in All : \E g \in Ind!Gaps(Upto(bars, 28), 1), h \in Ind!Gaps(bars, 1) : Same(g, h) /\ g.bag # h.bag

\* The close time told for a flip is that of its candle as long as the lines are
\* apart: every candle at which they touch since makes it a candle later, though
\* the bars are said to be counted from the last one.  And lines that touched
\* just before they changed sides have no flip at all.
States == UNION {[1..n -> {-1, 0, 1}] : n \in 1..6}
ASSUME TouchingMovesTheFlip ==
    /\ \A s \in States : \A f \in Ind!FlipHistory(s) :
          LET apart == Max({i \in DOMAIN s : s[i] # 0})
              flip == Min({i \in 1..apart : \A j \in i..apart : s[j] = s[apart]})
          IN  Ind!FlipCloseTs([i \in DOMAIN s |-> 10 * i], f.ago) =
                 IF Len(s) = 1 THEN {} ELSE {10 * (flip + 1) + 10 * (Len(s) - apart)}
    /\ \A s \in States : \A a \in {-1, 1} : Ind!FlipHistory(s \o <<0, a>>) = {}

\* SuperTrend's own walk tells what the shared one tells, but for the turn before
\* the last: at the edge of the window it counts the bars to the edge, undated.
ASSUME SuperTrendCountsToTheEdge ==
    \A bars \in All, period \in {3, 5}, multiplier \in {1, 2} :
        LET states == Ind!Column(Ind!SuperTrendLine(Fine(bars), period, multiplier), LAMBDA l : l.trend)
            shared == Ind!FlipHistory(states)
        IN  \A s \in Ind!SuperTrend(Fine(bars), period, multiplier) :
                /\ {<<f.ago, f.previous>> : f \in s.flip} = {<<f.ago, f.previous>> : f \in shared}
                /\ \A f \in s.flip, g \in shared :
                      g.since = (IF f.dated THEN {f.since} ELSE {}) /\ f.since <= Len(states) - 1

\* While a trend lasts its band never gives way
ASSUME BandNeverGivesWay ==
    \A bars \in All, period \in {3, 5}, multiplier \in {1, 2} :
        LET line == Ind!SuperTrendLine(Fine(bars), period, multiplier) IN
        \A i \in 1..(Len(line) - 1) :
            line[i].trend = line[i + 1].trend =>
                IF line[i].trend = 1 THEN line[i + 1].down >= line[i].down ELSE line[i + 1].up <= line[i].up

\* A price that does not move reads bearish by MACD, by all the averages and by
\* the VWAP, and a loud candle without a body is a selling whale; only the RSI,
\* the candle's direction and the cloud say nothing.
Still == [k \in 1..38 |-> [open |-> 1000, high |-> 1000, low |-> 1000, close |-> 1000, volume |-> 4, taker |-> 2]]
ASSUME StillnessReadsShort ==
    /\ \A m \in Ind!Macd(Closes(Still), 5, 9, 4) : m.trend = "bearish" /\ m.cross = "none" /\ m.flip = {}
    /\ LET e == Ind!EmaTrend(Closes(Still), <<3, 5, 9, 20>>) IN e.trend = "bearish" /\ e.short = "bearish" /\ e.above = {}
    /\ \A v \in Ind!VwapRead(Still, 20) : v.side = "below"
    /\ Ind!Whales([Still EXCEPT ![38] = [@ EXCEPT !.volume = 12, !.taker = 6]], 20) = {<<38, "bearish">>}
    /\ Ind!Rsi(Closes(Still), 5)[20] = 5000 /\ Ind!CandleDirection(Still[1]) = 0

\* Of one direction the newest engulfing candle stands, however much larger the
\* body of an older one is (the comment says the largest first)
ASSUME NewestEngulfs ==
    /\ \A bars \in All, n \in 20..38 : \A back \in 1..3 :
          Ind!Engulfing(Upto(bars, n), back) \subseteq Ind!Engulfing(Upto(bars, n), back + 1)
    /\ \E bars \in All, n \in 20..38 : \E p \in Ind!Engulfing(Upto(bars, n), 4) :
          \E i \in (n - 3)..(p[1] - 1) :
              /\ Ind!Engulfs(bars[i - 1], bars[i], p[2])
              /\ Ind!Abs(bars[i].close - bars[i].open) * Ind!Abs(bars[p[1] - 1].close - bars[p[1] - 1].open) >
                 Ind!Abs(bars[p[1]].close - bars[p[1]].open) * Ind!Abs(bars[i - 1].close - bars[i - 1].open)

\* A close beyond the far end of a leg never makes it void: the leg turns round
\* and the price is at its new extreme or near it.  Void is only a close that
\* touches an old extreme exactly.
ASSUME BrokenLegTurns ==
    \A bars \in All, n \in 12..37 : \A leg \in Ind!Fibonacci(Upto(bars, n), 60), next \in Ind!Fibonacci(Upto(bars, n + 1), 60) :
        LET before == Upto(bars, n)
            close == bars[n + 1].close
        IN  /\ (leg.bias = "long" /\ \A i \in 1..n : close < before[i].low) => next.bias = "short" /\ next.status # "void"
            /\ (leg.bias = "short" /\ \A i \in 1..n : close > before[i].high) => next.bias = "long" /\ next.status # "void"
            /\ next.status = "void" => \E i \in 1..n : close \in {bars[i].low, bars[i].high}

\* What says how fresh a feed is is the gap between its own bars: the feed with
\* every second bar lost is in step where the whole one is stale.
ASSUME HolesExcuseDelay ==
    LET Feed(slots) == [unit |-> "usd", flow |-> [t \in slots |-> 1]]
        price == [t \in 1..13 |-> 1000]
        whole == 1..9
        holes == {1, 3, 5, 7, 9}
    IN  /\ Ind!FlowQuality(Feed(whole), Feed(whole), price) = "stale"
        /\ Ind!FlowQuality(Feed(holes), Feed(whole), price) = "ok"

\* Turned upside down, every reading of flow is the other one
Turned(x) == CASE x = "up" -> "down" [] x = "down" -> "up" [] x = "bullish" -> "bearish" [] x = "bearish" -> "bullish" [] OTHER -> x
Trends == {"bullish", "bearish", "neutral"}
Classes == {"futures_dominated", "futures_heavy", "spot_dominated", "spot_heavy", "balanced", "unknown"}
ASSUME FlowHasNoSide ==
    \A move \in {"up", "down", "flat"}, spot \in Trends, fut \in Trends, class \in Classes, quality \in {"ok", "stale"} :
        LET r == Ind!FlowRead(move, spot, fut, class, quality)
            m == Ind!FlowRead(Turned(move), Turned(spot), Turned(fut), class, quality)
        IN  m = [r EXCEPT !.signal = Turned(@)] /\ (spot = fut => r.signal \in {"neutral", spot})

\* A cross is the flip that is no bar old, unless the lines touched before it
ASSUME CrossIsTheFlip ==
    \A bars \in All, n \in 14..38 : \A m \in Ind!Macd(Closes(Fine(Upto(bars, n))), 3, 6, 3) :
        /\ \A f \in m.flip : f.ago = 0 => m.cross \in {"none", IF f.previous = 1 THEN "bearish" ELSE "bullish"}
        /\ m.cross # "none" => \A f \in m.flip : f.ago = 0

\* A release and a breakout of one candle never point apart; and there are
\* releases the widened band does not see.
ASSUME ReleaseIsEarly ==
    /\ \A bars \in All, n \in 11..38 : \A b \in Ind!Bollinger(Closes(Upto(bars, n)), 10) :
          "none" \in {b.release, b.breakout} \/ b.release = b.breakout
    /\ \E bars \in All, n \in 11..38 : \E b \in Ind!Bollinger(Closes(Upto(bars, n)), 10) : b.release # "none" /\ b.breakout = "none"

\* A rising chart whose only swings are the wicks of some candles, ever deeper
\* while the RSI under them rises
Wicked(n, wicks) ==
    [k \in 1..n |-> [close |-> 1000 + k, high |-> 1002 + k,
                     low |-> IF k \in wicks THEN 900 - 20 * Cardinality({w \in wicks : w < k}) ELSE 998 + k]]
Under(n, wicks) == [k \in 1..n |-> IF k \in wicks THEN 3000 + 500 * Cardinality({w \in wicks : w < k}) ELSE 6000]
Told(n, wicks) ==
    {<<d.status, n - d.age, d.left, d.freshness>> : d \in Ind!RsiDivergence(Wicked(n, wicks), Under(n, wicks), 30, 3)}
\* The first swing of two has three of the last thirty candles before it
Seen(n, first) == first >= n - 26

\* A divergence waits three closes, counts full for twelve candles and fades over
\* three: but it is gone at once, whatever its weight, with the candle that takes
\* its first swing out of the window.
ASSUME OnlyTheWindowIsACliff ==
    \A first \in {6, 10, 14, 17}, gap \in 4..9, age \in 0..17 :
        LET second == first + gap
            n == second + age
        IN  n >= 30 => Told(n, {first, second}) =
                IF ~Seen(n, first) \/ age > 15 THEN {}
                ELSE {IF age < 3 THEN <<"forming", second, {3 - age}, 4>>
                      ELSE IF age <= 12 THEN <<"confirmed", second, {}, 4>>
                      ELSE <<"expired", second, {}, 4 - (age - 12)>>}

\* A divergence too old to be told still keeps a new one from being told before
\* its swing is confirmed; it is told in time only where the old one is out of sight
ASSUME SpentHidesTheNew ==
    \A first \in 5..10, gap \in 4..6, age \in 16..19 :
        LET n == first + gap + age IN
        n >= 30 => Told(n, {first, first + gap, n}) = IF Seen(n, first) THEN {} ELSE {<<"forming", n, {3}, 4>>}

\* On a weekly chart the analysis needs two closes after a swing, the list and the
\* bell three: the same divergence is confirmed on one while it waits on the other.
ASSUME WeeklyIsConfirmedFirst ==
    \A gap \in 4..9, n \in 30..33 :
        LET wicks == {n - 2 - gap, n - 2}
            Says(wing) == {d.status : d \in Ind!RsiDivergence(Wicked(n, wicks), Under(n, wicks), 30, wing)}
        IN  Says(2) = {"confirmed"} /\ Says(3) = {"forming"}

\* What fades loses at most a quarter with one candle, and is never gone while it
\* is worth more; the detector of divergences fades as the table says.
Worth(kind, age) == Max({0} \union {life.freshness : life \in Ind!Classify(kind, age, FALSE)})
ASSUME FadesWithoutCliff ==
    /\ \A kind \in DOMAIN Ind!LINEAR \union DOMAIN Ind!WINDOW, age \in 0..40 :
          Worth(kind, age) - Worth(kind, age + 1) \in 0..2500
    /\ \A age \in 0..15 : \A life \in Ind!Classify("rsi_divergence", age, FALSE) :
          life.freshness = 2500 * Ind!Freshness(life.status, age)

\* Told by the analysis, a change of character and a setup are always new, and an
\* engulfing candle is always one candle old: only a sweep ever fades.
Analysis(bars) == Ind!CandleAnalysis([k \in DOMAIN bars |-> [taker |-> Ind!None] @@ bars[k]], "4H")
\* A gap up, then a calm range; lows equal to the second come late or early in it
Ranging(lows) ==
    [k \in 1..30 |->
        LET low == CASE k < 10 -> 898 [] k = 10 -> 970 [] k \in lows -> 980 [] OTHER -> 995
            price == IF k < 10 THEN 900 ELSE 1000
        IN  [open |-> price, high |-> IF k = 15 THEN 1020 ELSE price + 4, low |-> low, close |-> price, volume |-> 4]]
ASSUME OnlyTheSweepFades ==
    LET Told38 == {Analysis(bars) : bars \in All}
        Setups(lows) == Analysis(Ranging(lows)).accSetup
        Fresh(events) == {e.freshness : e \in events}
    IN  /\ \A a \in Told38 : Fresh(a.choch) \subseteq {10000} /\ Fresh(a.engulfing) \subseteq {8000}
        /\ \E a \in Told38 : \E e \in a.liqGrab : e.freshness < 10000
        /\ \A last \in 20..28 : {<<e.ago, e.freshness>> : e \in Setups({17, last})} = {<<30 - last, 10000>>}

\* A marker is found three closes after its swing and never taken back or moved;
\* its status is only what the last close says, so that what was void or spent may
\* be live again, which the day's list, reading every close, does not forget.
Reading(bars, n) == Ind!Rsi(Closes(Upto(bars, n)), 5)
Marks(bars, n) == Ind!RsiSwingMarkers(Upto(bars, n), Reading(bars, n), 1)
Mark(m) == <<m.at, m.bottom, m.rsi, m.price>>
ASSUME MarkersStay ==
    \A bars \in All, n \in {16, 22, 28, 37} :
        LET now == Marks(bars, n)
            next == Marks(bars, n + 1)
        IN  {Mark(m) : m \in now} = {Mark(m) : m \in {m \in next : m.ago > 3}}
ASSUME VoidMayRevive ==
    LET Turns(from, to) ==
            \E bars \in All, n \in 16..37 : \E m \in Marks(bars, n), o \in Marks(bars, n + 1) :
                m.at = o.at /\ m.bottom = o.bottom /\ m.status = from /\ o.status = to
        Once(bars, n, m) == Ind!PlayedAgo(Upto(bars, n), Reading(bars, n), m.at, m.bottom, FALSE)
    IN  /\ Turns("invalidated", "active") /\ Turns("played_out", "active")
        /\ \A bars \in All, n \in {20, 29, 38} : \A m \in Marks(bars, n) :
              m.status = "played_out" => Once(bars, n, m) # {}
        /\ \E bars \in All, n \in 16..38 : \E m \in Marks(bars, n) : m.status = "active" /\ Once(bars, n, m) # {}

\* A divergence from the swing on: it plays out and fails at these candles, if
\* ever.  It is listed without a break until it leaves for good, after ten candles
\* at most; it fails on the list once, and what it was when it left it stays.
ASSUME ListLeavesOnce ==
    \A out, broke \in 1..14 :
        LET Since(t, moment) == IF moment <= t /\ moment < 14 THEN {t - moment} ELSE {}
            Line(t) == IF t < 3 THEN Ind!DivStatus(t, Since(t, out), Since(t, broke), FALSE)
                       ELSE Ind!DivStatus(t - 3, Since(t, out), Since(t, broke), TRUE)
            listed == {t \in 0..20 : Line(t).show}
        IN  /\ listed = 0..(Cardinality(listed) - 1) /\ Cardinality(listed) <= 10
            /\ Cardinality({t \in listed : Line(t).status = "invalidated"}) <= 1
            /\ \A t \in listed : Line(t).status = "active" => \A s \in 0..t : Line(s).status = "active"

\* A tape whose ranges never change is neither wild nor calm; one whose ranges grow
\* is wild, one whose ranges shrink calm.
ASSUME FlatTapeIsNormal ==
    LET Tape(Reach(_)) == [k \in 1..45 |-> [high |-> 100000 + Reach(k), low |-> 100000 - Reach(k), close |-> 100000]]
        Zone(Reach(_)) == {v.zone : v \in Ind!VolRegime(Tape(Reach))}
    IN  /\ Zone(LAMBDA k : 0) = {"normal"} /\ Zone(LAMBDA k : 50) = {"normal"}
        /\ Zone(LAMBDA k : 20 * k) = {"extreme"} /\ Zone(LAMBDA k : 920 - 20 * k) = {"calm"}

\* Upside down, the direction of a higher timeframe is the other one.
ASSUME TrendHasTwoSides ==
    \A bars \in All, n \in {8, 23, 38} :
        LET over == [k \in 1..n |-> [open |-> 4000 - bars[k].open, close |-> 4000 - bars[k].close]]
            way == Ind!QuickTfDir(Upto(bars, n), 5, 3)
        IN  Ind!QuickTfDir(over, 5, 3) = CASE way = "LONG" -> "SHORT" [] way = "SHORT" -> "LONG" [] OTHER -> way

-----------------------------------------------------------------------------
(* Candles of a feed, and the bell                                         *)

FeedOf(slots) == SelectSeq([k \in 1..70 |-> [ts |-> 10 * k]], LAMBDA c : c.ts \div 10 \in slots)
Quality(feed, now) == Ind!DataQuality("live", feed, 10, now, {}, {}, <<50, 150>>)
\* What is refused to the alerts and the monitor is never good enough to publish
\* on; but the monitor does decide on a series with a hole in it, or a short one,
\* that no signal may be made of.
ASSUME MonitorTakesHoles ==
    LET now == 710
        Feeds == {1..n : n \in {20, 40, 60, 68}} \union {(1..70) \ {hole} : hole \in {20, 61, 65, 69}} \union {1..70}
        Why(feed) == Ind!Refused("live", feed, 10, now)
    IN  /\ \A slots \in Feeds : Why(FeedOf(slots)) # "none" => Quality(FeedOf(slots), now) > 0
        /\ Why(FeedOf((1..70) \ {65})) = "none" /\ Quality(FeedOf((1..70) \ {65}), now) = 2
        /\ Why(FeedOf(51..70)) = "none" /\ Quality(FeedOf(51..70), now) = 2
        /\ Quality(FeedOf((1..70) \ {20}), now) = 0

\* As long as one candle has closed, only closed ones are told; when the clock is
\* behind the feed the open ones are, and pass every check as fresh.
ASSUME OpenMayPassAsClosed ==
    \A now \in 0..60, n \in 1..5 :
        LET feed == FeedOf(1..n)
            told == Ind!SplitClosed(feed, 10, now)
        IN  IF now >= 20 THEN \A k \in DOMAIN told : told[k].ts + 10 <= now
            ELSE told # <<>> /\ Ind!Refused("live", told, 10, now) = "none" /\ Last(told).ts + 10 > now

\* The bell says when it first saw an alert: that is the close of the candle,
\* whatever was kept and whenever it looked; for a marker and a divergence three
\* closes before anybody could know of it.
ASSUME SeenIsTheCandle ==
    \A up \in [1..3 -> BOOLEAN], looks \in {{13}, {13, 15}, {14, 15, 16}} :
        LET ts == [k \in 1..16 |-> 10 * k]
            Alert(kind) == [kind |-> kind, type |-> "bullish", event |-> "confirmed", at |-> 10, status |-> "active"]
            order == SelectSeq([k \in 1..16 |-> k], LAMBDA k : k \in looks)
            loads[k \in 0..Len(order)] ==
                IF k = 0 THEN [shown |-> {}, seen |-> {}]
                ELSE Ind!PatternAlerts({Alert("rsi_swing"), Alert("divergence")}, ts, 10, 10 * (order[k] + 1) + 3,
                                       loads[k - 1].seen, up[k])
        IN  \A k \in 1..Len(order) : {alert[2] : alert \in loads[k].shown} = {110}

-----------------------------------------------------------------------------
(* The memory of patterns                                                  *)

PM == INSTANCE PatternMemory

Wedge(dir, target, breakTs) ==
    LET top == [t0 |-> 0, p0 |-> 104, t1 |-> 4, p1 |-> 100]
        bottom == [t0 |-> 0, p0 |-> 90, t1 |-> 4, p1 |-> 94]
        Mirrored(line) == [line EXCEPT !.p0 = 200 - @, !.p1 = 200 - @]
    IN  [key |-> dir, direction |-> dir, confirmed |-> TRUE, breakTs |-> breakTs, target |-> target,
         upper |-> IF dir = "bullish" THEN top ELSE Mirrored(bottom),
         lower |-> IF dir = "bullish" THEN bottom ELSE Mirrored(top)]

BreakoutCloses == {93, 96, 98, 101, 104, 108}
Paths == [1..5 -> BreakoutCloses]
Candles(path, n) ==
    [i \in 1..n |-> [ts |-> 3 + i, close |-> path[i], high |-> path[i], low |-> path[i]]]
Up == PM!RecordFrom(Wedge("bullish", 108, 4), 4)
StatusAfter(rec, path, n) == PM!Reevaluate(rec, Candles(path, n), path[n], 3 + n)

\* A tracked structure is never measured again: whatever the detector fits
\* later, the record keeps the levels of its first confirmation, and the card
\* shows the structure once.
ASSUME FirstFitStays ==
    \A path \in Paths, n \in 1..5, target \in {106, 108} :
        LET out == PM!Reconcile(<<Wedge("bullish", target, 5)>>, {Up},
                               Candles(path, n), path[n], 3 + n)
        IN  /\ \A r \in out.records : [r EXCEPT !.lastSeen = 0] = [Up EXCEPT !.lastSeen = 0]
            /\ Cardinality(out.display) <= 1
            /\ \A c \in out.display : c.tracked /\ c.target = 108

\* A close back through the failure level is final: no later load shows the
\* breakout as holding, and its failure is shown on four candles at most.
ASSUME FailingCloseIsFinal ==
    \A path \in Paths : \A n \in 1..5 :
        (path[n] < Up.failLevel) =>
            /\ \A m \in n..5 : StatusAfter(Up, path, m) # "live"
            /\ \A m \in 1..5 : m > n + 3 => StatusAfter(Up, path, m) # "failed"

\* The failure of a move that is given back is not: it is judged by the price of
\* the load alone, dated with that load, and withdrawn when the price returns.
ASSUME GiveBackIsWithdrawn ==
    \E path \in Paths : \E n \in 1..4 :
        StatusAfter(Up, path, n) = "failed" /\ StatusAfter(Up, path, n + 1) = "live"

\* The target wins over every deadline and every failure before it.
ASSUME TargetWins ==
    \A path \in Paths : \A n \in 1..5 :
        (path[n] >= 108) <=> (StatusAfter(Up, path, n) = "target_hit")

\* A bearish breakout is the mirror image of a bullish one.
ASSUME DirectionsMirror ==
    LET Down == PM!RecordFrom(Wedge("bearish", 92, 4), 4) IN
    \A path \in Paths : \A n \in 1..5 :
        StatusAfter(Up, path, n) = StatusAfter(Down, [i \in 1..5 |-> 200 - path[i]], n)

\* Converging rails meet after their last pivots, so a deadline is never in the
\* past when the structure is first seen.
ASSUME ApexIsAhead ==
    \A u0, u1, l0, l1 \in 0..6 :
        (u1 > l1 /\ u1 - l1 < u0 - l0) =>
            PM!Apex([t0 |-> 0, p0 |-> u0, t1 |-> 4, p1 |-> u1],
                   [t0 |-> 0, p0 |-> l0, t1 |-> 4, p1 |-> l1]) > 4

\* "Shown once as reached" holds only when the detector lets the structure go:
\* as long as it still reports it, every load captures it again and shows it.
ASSUME ReachedIsShownAgain ==
    LET price == [i \in 1..5 |-> 108]
        Load(records, n) == PM!Reconcile(<<Wedge("bullish", 108, 4)>>, records,
                                        Candles(price, n), 108, 3 + n)
    IN  /\ Load({Up}, 1).records = {}
        /\ \E c \in Load(Load({Up}, 1).records, 2).display : c.status = "target_hit"

-----------------------------------------------------------------------------
(* The paper account                                                       *)

PA == INSTANCE PaperAccount

PaperCfg == [start |-> 9, margin |-> 3, fee |-> 1]

PaperRow(id, span, gross) ==
    [id |-> id, outcome |-> "win", gen |-> span[1], open |-> span[1], close |-> span[2],
     priced |-> TRUE, gross |-> gross]
PaperSpans == {<<1, 1>>, <<1, 2>>, <<1, 3>>, <<2, 2>>, <<2, 3>>}
PaperBooks ==
    {<<PaperRow(1, s, g), PaperRow(2, t, h), PaperRow(3, u, k)>> :
        s, t, u \in PaperSpans, g, h, k \in {-9, -4, 6}}

\* the account after every event of a book
PaperStates(rows) ==
    LET after == PA!Walk(PaperCfg, PA!Events(rows)) IN {after[n] : n \in DOMAIN after}

\* The balance never turns negative, no position is open that was not paid for,
\* and at the end every margin is released and every trade is in the ledger.
ASSUME PaperNeverOverdrawn ==
    \A rows \in PaperBooks :
        LET end == PA!BuildPaperAccount(PaperCfg, rows) IN
        /\ \A acc \in PaperStates(rows) :
              acc.equity >= 0 /\ acc.reserved = 3 * Cardinality(acc.active)
        /\ end.active = {} /\ Len(end.ledger) = end.filled
        /\ end.filled + end.skipped = 3
        /\ end.most <= PA!MaxConcurrent(rows)

\* The books reconcile: the start and the ledger's nets give the balance, the
\* ledger's fees those paid, whatever was capped or wiped out.
ASSUME PaperReconciles ==
    \A rows \in PaperBooks :
        LET end == PA!BuildPaperAccount(PaperCfg, rows)
            Sum(Of(_)) == FoldLeft(LAMBDA sum, b : sum + Of(b), 0, end.ledger)
        IN  /\ end.equity = 9 + Sum(LAMBDA b : b.net)
            /\ end.equity = 9 + end.applied
            /\ end.fees = Sum(LAMBDA b : b.fee)
            /\ end.drawdown >= 9 - end.equity /\ end.drawdown <= end.peak

\* The order in which the database returns the rows changes nothing.
PaperResult(end) ==
    <<end.equity, end.filled, end.skipped, end.fees, PA!Wins(end), PA!Losses(end),
      end.most, end.drawdown, end.ruined>>
ASSUME PaperIgnoresRowOrder ==
    \A rows \in PaperBooks : \A p \in {<<2, 1, 3>>, <<2, 3, 1>>} :
        PaperResult(PA!BuildPaperAccount(PaperCfg, [i \in 1..3 |-> rows[p[i]]]))
            = PaperResult(PA!BuildPaperAccount(PaperCfg, rows))

\* A row that closes before it opens, was never filled or has no return is left
\* out, and the rest is replayed as if it were not there.
ASSUME PaperLeavesOutUnplaced ==
    \A rows \in {b \in PaperBooks : b[3].gross = 6 /\ b[3].open = 1} :
        \A bad \in {[rows[3] EXCEPT !.close = 0], [rows[3] EXCEPT !.close = -1],
                    [rows[3] EXCEPT !.outcome = "cancelled"], [rows[3] EXCEPT !.priced = FALSE]} :
            PaperResult(PA!BuildPaperAccount(PaperCfg, [rows EXCEPT ![3] = bad]))
                = PaperResult(PA!BuildPaperAccount(PaperCfg, SubSeq(rows, 1, 2)))

-----------------------------------------------------------------------------
(* The scheduler                                                           *)

SC == INSTANCE Scheduler

WeekMinutes == 0..(7 * 1440 - 1)
DueMinutes == [job \in SC!JobNames |-> {t \in WeekMinutes : SC!Due(job, t)}]
DayMinutes == 1440..2879

\* Every job runs as often in a week as it is meant to.
ASSUME JobsRunAsOften ==
    /\ Cardinality(DueMinutes["monitor"]) = 7 * 48
    /\ Cardinality(DueMinutes["scalp"]) = 7 * 96
    /\ Cardinality(DueMinutes["close"]) = 7 * 8
    /\ \A job \in SC!ML : Cardinality(DueMinutes[job]) = 7 * 12
    /\ Cardinality(DueMinutes["weekly-report"]) = 1
    /\ \A job \in {"patterns", "tao-snapshot", "etf-snapshot", "market-snapshot"} :
          Cardinality(DueMinutes[job]) = 7

\* A run with all its retries, each timing out, ends before the job is due
\* again: the clock starts no two runs of one job at a time.
ASSUME RunsOfAJobAreSerial ==
    \A job \in SC!JobNames : \A t \in DueMinutes[job] :
        \A later \in (t + 1)..(t + SC!Longest(job) \div 60) :
            60 * (later - t) < SC!Longest(job) => later \notin DueMinutes[job]

\* Two jobs that use the exchange account or the signals do run at once: only the
\* claims and locks of the app keep them apart.
ASSUME JobsOverlap ==
    /\ \E t \in DayMinutes : {"manage", "scalp"} \subseteq SC!DueJobs(t)
    /\ \E t \in DayMinutes : {"manage", "monitor"} \subseteq SC!DueJobs(t)
    /\ \E t \in DueMinutes["close"] : \E u \in DueMinutes["monitor"] \union DueMinutes["scalp"] :
          u > t /\ 60 * (u - t) < SC!Longest("close")

\* A job that fails whenever it runs alerts at least once a day it is due, and
\* however broken everything is, no job alerts more than twice an hour.
ASSUME BrokenJobsAlert ==
    LET broken == [status |-> 500, ok |-> FALSE, benign |-> FALSE, attempts |-> 1]
        AlertsIn(job, ts) == {t \in ts \intersect DueMinutes[job] : SC!Alerts(job, broken, t)}
    IN  /\ \A job \in SC!JobNames \ {"weekly-report"} : AlertsIn(job, DayMinutes) # {}
        /\ AlertsIn("weekly-report", WeekMinutes) # {}
        /\ \A job \in SC!JobNames, h \in 0..23 :
              Cardinality(AlertsIn(job, (60 * h)..(60 * h + 59))) <= 2

\* The position manager may be down for almost half an hour, and the close job
\* for all but its last call, without a message.
ASSUME QuietOutages ==
    /\ \E t \in DayMinutes : \A u \in t..(t + 28) : ~SC!MayAlert("manage", u)
    /\ \A t \in DueMinutes["close"] : SC!MayAlert("close", t) <=> t % 60 = 48

\* What is tried again: only an answer of the job's list, never a refusal or a
\* success, at most the job's retries; the last answer is the verdict.
AnswerOf(status) == [status |-> status, ok |-> status = 200, benign |-> FALSE]
ASSUME RetriesAreBounded ==
    \A job \in SC!JobNames, a, b, c \in {0, 200, 401, 429, 500, 503, 504} :
        LET answers == [n \in 1..3 |-> AnswerOf(<<a, b, c>>[n])]
            r == SC!RunJob(job, TRUE, answers)
        IN  /\ r.attempts <= 1 + SC!Retries(job)
            /\ r.status = answers[r.attempts].status
            /\ \A n \in 1..(r.attempts - 1) : answers[n].status \in SC!RetryOn(job) \ {200, 401, 503}
            /\ r.attempts <= SC!Retries(job) => r.status \notin SC!RetryOn(job)
            /\ SC!Failed(r) <=> r.status # 200
            /\ SC!Failed(SC!RunJob(job, FALSE, answers))

=============================================================================
