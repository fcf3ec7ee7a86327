--------------------------- MODULE ChartStructure ---------------------------
(***************************************************************************)
(* The structure half of backend/patterns.py, as pure operators over       *)
(* closed candles: swings, changes of character, breaks of structure,      *)
(* liquidity grabs, equal levels, pools, ranges, zones and the two         *)
(* trendlines.                                                             *)
(*                                                                         *)
(* Candle k of a sequence closes at slot k and stands for its timestamp.   *)
(* A line is [s, d, c], whose value at slot x is (s * x + c) / d, d > 0.   *)
(* A level, zone or line that is not there is the empty set; one that is,  *)
(* a set of one.                                                           *)
(***************************************************************************)
EXTENDS Rounding, FiniteSets, Sequences, FiniteSetsExt, SequencesExt

\* The floor of v * n / d without the product: v may be large
Share(v, n, d) == (v \div d) * n + ((v % d) * n) \div d
When(test, value) == IF test THEN {value} ELSE {}
Ordered(set, Before(_, _)) ==
    [k \in 1..Cardinality(set) |-> CHOOSE x \in set : Cardinality({y \in set : Before(y, x)}) = k - 1]
\* The sum of F over from..to, halved so that it stays shallow
SumOf(F(_), from, to) ==
    LET Sum[a, b \in Nat] ==
            IF a > b THEN 0 ELSE IF a = b THEN F(a)
            ELSE Sum[a, (a + b) \div 2] + Sum[(a + b) \div 2 + 1, b]
    IN  Sum[from, to]

-----------------------------------------------------------------------------
(* Swings                                                                  *)

PivotHighs(bars, window) ==
    {i \in (window + 1)..(Len(bars) - window) : \A j \in (i - window)..(i + window) : bars[i].high >= bars[j].high}
PivotLows(bars, window) ==
    {i \in (window + 1)..(Len(bars) - window) : \A j \in (i - window)..(i + window) : bars[i].low <= bars[j].low}

\* The pivot with k pivots after it, and the latest k pivots
Back(pivots, k) == CHOOSE i \in pivots : Cardinality({j \in pivots : j > i}) = k
Latest(pivots, k) == {i \in pivots : Cardinality({j \in pivots : j > i}) < k}

\* The trend of the last twelve pivots, all that is left of the Elliott count
WaveTrend(bars) ==
    LET Level(p) == IF p.high THEN bars[p.at].high ELSE bars[p.at].low
        After(p, q) == p.at > q.at \/ (p.at = q.at /\ ~p.high /\ q.high)
        pivots == [at : PivotHighs(bars, 3), high : {TRUE}] \union [at : PivotLows(bars, 3), high : {FALSE}]
        Rank(p) == Cardinality({q \in pivots : After(q, p)})
        newest == CHOOSE p \in pivots : Rank(p) = 0
        oldest == CHOOSE p \in pivots : Rank(p) = Lesser(12, Cardinality(pivots)) - 1
    IN  IF Cardinality(pivots) < 5 THEN "neutral"
        ELSE IF Level(newest) > Level(oldest) THEN "bullish"
        ELSE IF Level(newest) < Level(oldest) THEN "bearish" ELSE "neutral"

\* Rising highs and lows lost, or falling ones reclaimed, by the last close
Choch(bars) ==
    LET ph == PivotHighs(Front(bars), 3)
        pl == PivotLows(Front(bars), 3)
        close == Last(bars).close
        Rises(Level(_), pivots) == Level(Back(pivots, 0)) > Level(Back(pivots, 1))
        Falls(Level(_), pivots) == Level(Back(pivots, 0)) < Level(Back(pivots, 1))
        High(i) == bars[i].high
        Low(i) == bars[i].low
        bear == Rises(High, ph) /\ Rises(Low, pl) /\ close < Low(Back(pl, 0))
        bull == Falls(High, ph) /\ Falls(Low, pl) /\ close > High(Back(ph, 0))
    IN  IF Len(bars) < 11 \/ Cardinality(ph) < 2 \/ Cardinality(pl) < 2 THEN {}
        ELSE When(bear, [signal |-> "bearish", at |-> Back(pl, 0), level |-> Low(Back(pl, 0)), ago |-> 0])
             \union When(bull, [signal |-> "bullish", at |-> Back(ph, 0), level |-> High(Back(ph, 0)), ago |-> 0])

\* A wick of the last five candles through one of the last three swings before
\* them, closed back; the deepest wick, and of equal ones the earliest
LiquidityGrab(bars) ==
    LET base == SubSeq(bars, 1, Len(bars) - 5)
        price == Last(bars).close
        highs == Latest(PivotHighs(base, 3), 3)
        lows == Latest(PivotLows(base, 3), 3)
        recent == (Len(bars) - 4)..Len(bars)
        tops == {[signal |-> "bearish", level |-> bars[p].high, wick |-> bars[i].high - bars[p].high, at |-> i] :
                    <<i, p>> \in {<<i, p>> \in recent \X highs :
                        /\ bars[i].high > bars[p].high /\ bars[i].close < bars[p].high
                        /\ 200 * (price - bars[p].high) <= 3 * bars[p].high}}
        bottoms == {[signal |-> "bullish", level |-> bars[p].low, wick |-> bars[p].low - bars[i].low, at |-> i] :
                    <<i, p>> \in {<<i, p>> \in recent \X lows :
                        /\ bars[i].low < bars[p].low /\ bars[i].close > bars[p].low
                        /\ 200 * (bars[p].low - price) <= 3 * bars[p].low}}
        Beats(g, h) ==
            \/ g.wick * h.level > h.wick * g.level
            \/ g.wick * h.level = h.wick * g.level
               /\ (g.at < h.at \/ (g.at = h.at /\ g.signal = "bearish" /\ h.signal = "bullish"))
    IN  IF Len(bars) < 13 THEN {}
        ELSE {[signal |-> g.signal, level |-> g.level, ago |-> Len(bars) - g.at] :
                 g \in {g \in tops \union bottoms : \A h \in tops \union bottoms : ~Beats(h, g)}}

-----------------------------------------------------------------------------
(* Equal highs and lows, the range, and the setup made of both             *)

\* The extremes of one candle either side, an unbroken run of equal ones
\* counted once, at its end; the newest candle is judged by its left side alone
Tests(bars, Level(_)) ==
    LET n == Len(bars)
        raw == {i \in 2..n : /\ \A j \in (i - 1)..Lesser(n, i + 1) : Level(i) >= Level(j)
                             /\ \E j \in (i - 1)..Lesser(n, i + 1) : Level(i) > Level(j)}
    IN  {i \in raw : i + 1 \notin raw}
\* The largest group of tests within 0.3 per cent of one of them, the freshest
\* of the largest
Equal(bars, tests, Level(_), Worst(_)) ==
    LET Near(i) == {j \in tests : 1000 * Abs(Level(j) - Level(i)) <= 3 * Abs(Level(i))}
        Beats(i, j) ==
            LET a == Near(i)  b == Near(j) IN
            \/ Cardinality(a) > Cardinality(b)
            \/ Cardinality(a) = Cardinality(b) /\ (Max(a) > Max(b) \/ (Max(a) = Max(b) /\ i < j))
        groups == {i \in tests : Cardinality(Near(i)) >= 2}
    IN  {[price |-> Worst({Level(k) : k \in Near(i)}), touches |-> Cardinality(Near(i)), ago |-> Len(bars) - Max(Near(i))] :
            i \in {i \in groups : \A j \in groups : ~Beats(j, i)}}
Newest(bars, window) == SubSeq(bars, Greater(1, Len(bars) - window + 1), Len(bars))
EqualHighs(bars, window) ==
    LET recent == Newest(bars, window) IN
    IF Len(bars) < 5 THEN {}
    ELSE Equal(recent, Tests(recent, LAMBDA i : recent[i].high), LAMBDA i : recent[i].high, Max)
EqualLows(bars, window) ==
    LET recent == Newest(bars, window) IN
    IF Len(bars) < 5 THEN {}
    ELSE Equal(recent, Tests(recent, LAMBDA i : -recent[i].low), LAMBDA i : recent[i].low, Min)

Highest(bars) == Max({bars[i].high : i \in DOMAIN bars})
Lowest(bars) == Min({bars[i].low : i \in DOMAIN bars})
TrueRange(bars, i) ==
    Max({bars[i].high - bars[i].low, Abs(bars[i].high - bars[i - 1].close), Abs(bars[i].low - bars[i - 1].close)})
RangesOf(bars, from) == SumOf(LAMBDA i : TrueRange(bars, i), from, Len(bars))
\* The average of the last fourteen true ranges, as a sum and a count
AverageTrueRange(bars) ==
    IF Len(bars) < 2 THEN [sum |-> 0, over |-> 1]
    ELSE LET from == Greater(2, Len(bars) - 13) IN [sum |-> RangesOf(bars, from), over |-> Len(bars) - from + 1]

\* Twenty candles within 8 per cent, most closes in the inner half, and the
\* average candle less than 0.55 of the range
AccumulationRange(bars) ==
    LET recent == Newest(bars, 20)
        high == Highest(recent)
        low == Lowest(recent)
        range == high - low
        inner == {i \in DOMAIN recent : 4 * low + range <= 4 * recent[i].close /\ 4 * recent[i].close <= 4 * high - range}
    IN  IF Len(bars) < 20 THEN {}
        ELSE IF high + low <= 0 \/ 200 * range > 8 * (high + low) \/ range = 0 THEN {}
        ELSE When(5 * Cardinality(inner) >= 3 * 20 /\ Round(1000 * RangesOf(recent, 2), 19 * range) < 550,
                  [high |-> high, low |-> low])

SetupStrength(level, near) ==
    Lesser(100, 55 + 10 * (level.touches - 2) + 5 * (3 - Lesser(3, level.ago)) + (IF near THEN 15 ELSE 0))
\* An equal level at the range's edge with an unfilled gap beyond that edge; the
\* fresher side, then the stronger, then the bullish one
AccSetup(bars, gaps) ==
    LET range == AccumulationRange(bars)
        Near(level, edge, r) == 200 * Abs(level.price - edge) < 2 * (r.high + r.low)
        Setup(signal, level, edge, r) ==
            [signal |-> signal, ago |-> level.ago, strength |-> SetupStrength(level, Near(level, edge, r))]
        Counts(level, edge, r) == Near(level, edge, r) \/ level.touches >= 3
        bulls == UNION {{Setup("bullish", l, r.low, r) : l \in {l \in EqualLows(bars, 20) : Counts(l, r.low, r)}} :
                    r \in {r \in range : \E g \in gaps : g.type = "bullish" /\ ~g.filled /\ g.top <= r.low}}
        bears == UNION {{Setup("bearish", l, r.high, r) : l \in {l \in EqualHighs(bars, 20) : Counts(l, r.high, r)}} :
                    r \in {r \in range : \E g \in gaps : g.type = "bearish" /\ ~g.filled /\ g.bottom >= r.high}}
        Beats(s, t) == \/ s.ago < t.ago
                       \/ s.ago = t.ago /\ (s.strength > t.strength
                                            \/ (s.strength = t.strength /\ s.signal = "bullish" /\ t.signal = "bearish"))
    IN  {s \in bulls \union bears : \A t \in bulls \union bears : ~Beats(t, s)}

-----------------------------------------------------------------------------
(* Zones and pools                                                         *)

\* The swings on one side of the price within 1.2 per cent of the nearest, as a
\* band in parts of 1000 of a tick; a single level is padded by 0.3 per cent
Zone(bars, levels, Nearest(_)) ==
    LET price == Last(bars).close
        band == {x \in levels : 1000 * Abs(x - Nearest(levels)) <= 12 * Nearest(levels)}
        pad == IF Max(band) = Min(band) THEN 3 * Max(band) ELSE 0
        top == 1000 * Max(band) + pad
        bottom == 1000 * Min(band) - pad
    IN  IF levels = {} THEN {}
        ELSE {[top |-> top, bottom |-> bottom,
               status |-> IF bottom <= 1000 * price /\ 1000 * price <= top THEN "inside"
                          ELSE IF Abs(top + bottom - 2000 * price) <= 10 * price THEN "approaching" ELSE "away"]}
Resistance(bars) ==
    IF Len(bars) < 10 THEN {}
    ELSE Zone(bars, {x \in {bars[i].high : i \in PivotHighs(bars, 3)} : x > Last(bars).close}, Min)
Support(bars) ==
    IF Len(bars) < 10 THEN {}
    ELSE Zone(bars, {x \in {bars[i].low : i \in PivotLows(bars, 3)} : x <= Last(bars).close}, Max)

\* Swings from the lowest up, each joined to the first pool whose mean is within
\* 0.4 per cent of it
Joined(pools, at, price) ==
    LET fits == {k \in DOMAIN pools : 250 * Abs(price * pools[k].touches - pools[k].sum) <= pools[k].sum}
        k == Min(fits)
        p == pools[k]
    IN  IF fits = {} THEN Append(pools, [touches |-> 1, sum |-> price, low |-> price, high |-> price, last |-> at])
        ELSE [pools EXCEPT ![k] = [touches |-> p.touches + 1, sum |-> p.sum + price, low |-> Lesser(p.low, price),
                                   high |-> Greater(p.high, price), last |-> Greater(p.last, at)]]
Pooled(pivots, Level(_)) ==
    FoldLeft(LAMBDA pools, at : Joined(pools, at, Level(at)), <<>>,
             Ordered(pivots, LAMBDA i, j : Level(i) < Level(j) \/ (Level(i) = Level(j) /\ i < j)))
\* The stops behind a pool rest beyond its outer edge; only what came after its
\* last touch can have taken them
PoolSweep(bars, pool) ==
    LET through == {i \in (pool.last + 1)..Len(bars) :
                       IF pool.kind = "high" THEN bars[i].high > pool.edge ELSE bars[i].low < pool.edge}
    IN  IF through = {} THEN {} ELSE {Len(bars) - Min(through)}
LIQ_MAX_POOLS == 8
\* Pools of two touches or more, the eight most touched (then freshest)
LiquidityPools(bars) ==
    LET price == Last(bars).close
        Read(group, kind) ==
            {[kind |-> kind, touches |-> p.touches, last |-> p.last, low |-> p.low, high |-> p.high,
              edge |-> IF kind = "high" THEN p.high ELSE p.low,
              side |-> IF p.sum > price * p.touches THEN "above" ELSE "below"] :
                p \in {p \in Range(group) : p.touches >= 2}}
        pools == Read(Pooled(PivotHighs(bars, 3), LAMBDA i : bars[i].high), "high")
                 \union Read(Pooled(PivotLows(bars, 3), LAMBDA i : bars[i].low), "low")
        Beats(p, q) ==
            \/ p.touches > q.touches
            \/ p.touches = q.touches /\ (p.last > q.last \/ (p.last = q.last /\ p.kind = "high" /\ q.kind = "low"))
    IN  IF Len(bars) < 9 THEN {}
        ELSE {[kind |-> p.kind, touches |-> p.touches, last |-> p.last, low |-> p.low, high |-> p.high,
               edge |-> p.edge, side |-> p.side, swept |-> PoolSweep(bars, p)] :
                 p \in {p \in pools : Cardinality({q \in pools : Beats(q, p)}) < LIQ_MAX_POOLS}}

-----------------------------------------------------------------------------
(* Breaks of structure                                                     *)

\* Every close beyond the last swing before it is a break, unless it is the
\* break just recorded; the streak is the run of one direction at the end
Breaks(bars) ==
    LET ph == PivotHighs(bars, 3)
        pl == PivotLows(bars, 3)
        Highs(i) == {p \in ph : p < i}
        Lows(i) == {p \in pl : p < i}
        Up(i) == Highs(i) # {} /\ bars[i].close > bars[Max(Highs(i))].high
        Down(i) == ~Up(i) /\ Lows(i) # {} /\ bars[i].close < bars[Max(Lows(i))].low
    IN  {[at |-> i, dir |-> "bullish", level |-> bars[Max(Highs(i))].high] : i \in {i \in DOMAIN bars : Up(i)}}
        \union {[at |-> i, dir |-> "bearish", level |-> bars[Max(Lows(i))].low] : i \in {i \in DOMAIN bars : Down(i)}}
Latter(breaks) == CHOOSE b \in breaks : \A c \in breaks : c.at <= b.at
BosStreak(bars) ==
    LET breaks == Breaks(bars)
        Earlier(b) == {c \in breaks : c.at < b.at}
        events == {b \in breaks : Earlier(b) = {} \/ LET c == Latter(Earlier(b)) IN c.dir # b.dir \/ c.level # b.level}
        last == Latter(events)
        run == {b \in events : \A c \in events : c.at >= b.at => c.dir = last.dir}
        close == Last(bars).close
    IN  IF Len(bars) < 10 \/ breaks = {} THEN {}
        ELSE {[dir |-> last.dir, count |-> Cardinality(run), level |-> last.level, events |-> Cardinality(events),
               ago |-> Len(bars) - last.at,
               held |-> IF last.dir = "bullish" THEN close > last.level ELSE close < last.level]}

-----------------------------------------------------------------------------
(* The hours of the sessions, in UTC                                       *)

SESSIONS == <<[name |-> "ASIA", from |-> 0, to |-> 8], [name |-> "LONDON", from |-> 7, to |-> 16],
              [name |-> "US", from |-> 13, to |-> 21]>>
\* bars open every "hours" hours from hour "first" on; the last six sessions
SessionRanges(bars, first, hours) ==
    LET Hour(k) == first + hours * (k - 1)
        In(k, s) == LET h == Hour(k) % 24 IN SESSIONS[s].from <= h /\ h < SESSIONS[s].to
        boxes == {<<Hour(k) \div 24, s>> : <<k, s>> \in {<<k, s>> \in (DOMAIN bars) \X (1..3) : In(k, s)}}
        Of(box) == {k \in DOMAIN bars : Hour(k) \div 24 = box[1] /\ In(k, box[2])}
        Later(a, b) == Min(Of(a)) > Min(Of(b)) \/ (Min(Of(a)) = Min(Of(b)) /\ a[2] > b[2])
    IN  IF hours \notin {1, 2, 4} THEN {}
        ELSE {[session |-> SESSIONS[b[2]].name, start |-> Hour(Min(Of(b))), end |-> Hour(Max(Of(b))),
               high |-> Max({bars[k].high : k \in Of(b)}), low |-> Min({bars[k].low : k \in Of(b)})] :
                 b \in {b \in boxes : Cardinality({a \in boxes : Later(a, b)}) < 6}}

-----------------------------------------------------------------------------
(* The two trendlines.  Anchors are in parts of 2500 of a tick, so that a  *)
(* wick of 2.5 median wicks and 0.08 per cent of the price are exact.      *)

BodyTop(b) == Greater(b.open, b.close)
BodyBottom(b) == Lesser(b.open, b.close)
Median(bars, Wick(_)) ==
    LET half == Len(bars) \div 2 IN
    CHOOSE w \in {Wick(i) : i \in DOMAIN bars} :
        /\ Cardinality({i \in DOMAIN bars : Wick(i) < w}) <= half
        /\ Cardinality({i \in DOMAIN bars : Wick(i) <= w}) > half
\* The wick counts up to two and a half median wicks beyond the body
Allowance(bars, Wick(_)) == Greater(6250 * Median(bars, Wick), 2 * Last(bars).close)
HighAnchors(bars) ==
    LET Wick(i) == bars[i].high - BodyTop(bars[i])
        most == Allowance(bars, Wick)
    IN  [i \in DOMAIN bars |-> 2500 * BodyTop(bars[i]) + Lesser(2500 * Wick(i), most)]
LowAnchors(bars) ==
    LET Wick(i) == BodyBottom(bars[i]) - bars[i].low
        most == Allowance(bars, Wick)
    IN  [i \in DOMAIN bars |-> 2500 * BodyBottom(bars[i]) - Lesser(2500 * Wick(i), most)]

ClosesOf(bars, from, to) == SumOf(LAMBDA i : bars[i].close, from, to)
HalfTrend(bars) ==
    LET half == Len(bars) \div 2
        rest == Len(bars) - half
        older == ClosesOf(bars, 1, half) * rest
        recent == ClosesOf(bars, half + 1, Len(bars)) * half
    IN  IF 1000 * recent < 998 * older THEN "down" ELSE IF 1000 * recent > 1002 * older THEN "up" ELSE "flat"

\* From the first extreme to the later anchor that leaves every other one on the
\* far side of the line: down from a high, up from a low
Containment(anchors, support, from) ==
    LET n == Len(anchors)
        Above(x, y) == IF support THEN x < y ELSE x > y
        a == CHOOSE i \in from..(n - 1) :
                 \A j \in from..(n - 1) : ~Above(anchors[j], anchors[i]) /\ (anchors[j] = anchors[i] => i <= j)
        Rise(i) == anchors[i] - anchors[a]
        Outer(i, j) == Above(Rise(i) * (j - a), Rise(j) * (i - a))
        b == CHOOSE i \in (a + 1)..n : \A j \in (a + 1)..n : ~Outer(j, i) /\ (~Outer(i, j) => i <= j)
    IN  IF n - from < 5 \/ a >= n - 2 THEN {}
        ELSE IF (support /\ Rise(b) <= 0) \/ (~support /\ Rise(b) >= 0) THEN {}
        ELSE {[from |-> a, s |-> Rise(b), d |-> b - a, c |-> anchors[a] * (b - a) - Rise(b) * a]}
At(line, x) == line.s * x + line.c

\* Beyond the line by 0.15 per cent of it, at the close of the last candle
BreakOf(line, support, close, n) ==
    LET now == At(line, n)
        gap == 2500 * close * line.d - now
    IN  IF ~support /\ gap > Share(Abs(now), 3, 2000) THEN "up"
        ELSE IF support /\ -gap > Share(Abs(now), 3, 2000) THEN "down" ELSE "none"
\* Further than 5 per cent from it
FarFrom(line, close, n) == Abs(2500 * close * line.d - At(line, n)) > Share(At(line, n), 1001, 20000)
Touches(bars, line, support) ==
    LET Level(i) == 2500 * line.d * (IF support THEN bars[i].low ELSE bars[i].high)
        pivots == IF support THEN PivotLows(bars, 3) ELSE PivotHighs(bars, 3)
    IN  2 + Cardinality({i \in pivots : Abs(Level(i) - At(line, i)) <= (Level(i) - 1) \div 200})
LineOf(bars, support, from) ==
    {[kind |-> IF support THEN "support" ELSE "resistance", from |-> l.from, s |-> l.s, d |-> l.d, c |-> l.c,
      touches |-> Touches(bars, l, support), broken |-> BreakOf(l, support, Last(bars).close, Len(bars))] :
        l \in Containment(IF support THEN LowAnchors(bars) ELSE HighAnchors(bars), support, from)}
Either(first, second) == IF first # {} THEN first ELSE second

\* One line over all candles, with the trend; one over the last four tenths
Macro(bars) ==
    LET trend == HalfTrend(bars) IN
    Either(IF trend = "up" THEN {} ELSE LineOf(bars, FALSE, 2), IF trend = "down" THEN {} ELSE LineOf(bars, TRUE, 2))
Local(bars) ==
    LET from == Greater(1, (6 * Len(bars)) \div 10) + 1 IN
    IF HalfTrend(bars) = "up" THEN Either(LineOf(bars, TRUE, from), LineOf(bars, FALSE, from))
    ELSE Either(LineOf(bars, FALSE, from), LineOf(bars, TRUE, from))
Trendline(bars) ==
    LET macro == Macro(bars) IN
    IF Len(bars) < 12 THEN [macro |-> {}, local |-> {}]
    ELSE [macro |-> {l \in macro : l.broken = "none" \/ ~FarFrom(l, Last(bars).close, Len(bars))},
          local |-> {l \in Local(bars) : \A m \in macro : m.kind # l.kind \/ m.from # l.from}]

-----------------------------------------------------------------------------
(* The status panel: what its rows say of the readings                     *)

STRUCTURE_WINDOW_BARS == 30
StructureRange(bars) ==
    LET recent == Newest(bars, STRUCTURE_WINDOW_BARS) IN [high |-> Highest(recent), low |-> Lowest(recent)]

EmaWeight(period) == IF period >= 50 THEN 3 ELSE 1
Weights(periods) == FoldSet(LAMBDA p, sum : sum + EmaWeight(p), 0, periods)
\* reading: [above, below, supertrend, choch, bos, eqh, eql, signal, tradeable];
\* a level of 0 is none
Panel(bars, reading) ==
    LET price == Last(bars).close
        turn == IF reading.supertrend = "bullish" THEN 2 ELSE IF reading.supertrend = "bearish" THEN -2 ELSE 0
        bias == Weights(reading.above) - Weights(reading.below) + turn
        most == Weights(reading.above) + Weights(reading.below) + Abs(turn)
        trend == IF bias > 0 THEN "BULLISH" ELSE IF bias < 0 THEN "BEARISH" ELSE "NEUTRAL"
        levels == {reading.eqh, reading.eql} \ {0}
        over == {x \in levels : x > price}
        under == levels \ over
        range == StructureRange(bars)
        width == range.high - range.low
    IN  IF Len(bars) < 10 \/ price <= 0 THEN {}
        ELSE {[trend |-> trend,
               power |-> IF most = 0 THEN 0 ELSE Round(100 * Abs(bias), most),
               alignment |-> IF reading.choch = "none" \/ trend = "NEUTRAL" THEN "none"
                             ELSE IF (reading.choch = "bullish") = (trend = "BULLISH") THEN "ALIGNED" ELSE "CONFLICTED",
               near |-> IF levels = {} \/ AverageTrueRange(bars).sum = 0 THEN "none"
                        ELSE IF under = {} THEN "above" ELSE IF over = {} THEN "below"
                        ELSE IF Min(over) - price < price - Max(under) THEN "above" ELSE "below",
               zone |-> IF width = 0 THEN "none"
                        ELSE IF 100 * (price - range.low) >= 66 * width THEN "UPPER"
                        ELSE IF 100 * (price - range.low) <= 33 * width THEN "LOWER" ELSE "MIDDLE",
               filter |-> IF ~reading.tradeable THEN "CLOSED" ELSE IF reading.signal = "NEUTRAL" THEN "FLAT"
                          ELSE IF (reading.signal = "LONG") = (trend = "BULLISH") THEN "with trend" ELSE "counter-trend"]}

=============================================================================
