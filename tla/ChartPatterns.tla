--------------------------- MODULE ChartPatterns ----------------------------
(***************************************************************************)
(* The patterns of backend/patterns.py as pure operators over closed       *)
(* candles: reversals, triangles and wedges, and flags, each with the      *)
(* life it has had by the last candle: forming, confirmed, failed.         *)
(***************************************************************************)
EXTENDS ChartStructure

(* A breakout and what became of it                                        *)

FAILURE_SHOW_BARS == 3
FailureIsFresh(bars, at) == Len(bars) - at <= FAILURE_SHOW_BARS

Volumes(bars, from, to) == SumOf(LAMBDA i : bars[i].volume, from, to)
\* The volume of candle i against the average of the twenty before it
BreakoutVolume(bars, i) ==
    LET from == Greater(1, i - 20)
        base == Volumes(bars, from, i - 1)
        vol == bars[i].volume * (i - from)
    IN  IF i <= 1 THEN "none"
        ELSE IF base <= 0 \/ vol <= 0 THEN "none"
        ELSE IF 2 * vol >= 3 * base THEN "strong" ELSE IF 10 * vol < 8 * base THEN "weak" ELSE "normal"

\* Where the price is against the broken level, which is level / d: at it, within
\* 1.5 per cent, or back from it, or never there, or lost
RetestState(bars, i, level, d, up) ==
    LET Over(price) == IF price * d - level > Share(level, 3, 200) THEN 1
                       ELSE IF level - price * d > Share(level, 3, 200) THEN -1 ELSE 0
        touched == \E k \in (i + 1)..Len(bars) : Over(bars[k].low) <= 0 /\ Over(bars[k].high) >= 0
        at == Over(Last(bars).close)
    IN  IF i >= Len(bars) THEN "none"
        ELSE IF at = 0 THEN "retesting"
        ELSE IF at = (IF up THEN 1 ELSE -1) THEN IF touched THEN "held" ELSE "extended"
        ELSE IF touched THEN "retest_failed" ELSE "lost_level"

-----------------------------------------------------------------------------
(* Tops, bottoms, heads and shoulders.  Necklines and levels in half ticks *)

Forming == [status |-> "forming", at |-> 0, failed |-> 0]
\* The first close through the neckline confirms, through the far level it is
\* over; after a confirmation, the first close back through the neckline fails it
NecklineBreak(bars, from, neck, far, bear) ==
    LET Through(i, level) == IF bear THEN 2 * bars[i].close < level ELSE 2 * bars[i].close > level
        Against(i, level) == IF bear THEN 2 * bars[i].close > level ELSE 2 * bars[i].close < level
        after == (from + 1)..Len(bars)
        ends == {i \in after : Through(i, neck) \/ Against(i, far)}
        first == Min(ends)
        lost == {i \in after : i > first /\ Against(i, neck)}
    IN  IF ends = {} THEN Forming
        ELSE IF Against(first, far) THEN [status |-> "invalidated", at |-> first, failed |-> 0]
        ELSE IF lost = {} THEN [status |-> "confirmed", at |-> first, failed |-> 0]
        ELSE [status |-> "failed", at |-> first, failed |-> Min(lost)]

PctClose(a, b, pct) == 200 * Abs(a - b) <= pct * (a + b)
\* The deepest swing of the other side strictly between two candles, the earliest
\* of equal ones
Between(bars, a, b, top) ==
    LET pool == {p \in (IF top THEN PivotLows(bars, 3) ELSE PivotHighs(bars, 3)) : a < p /\ p < b}
        Beats(p, q) == IF top THEN bars[p].low < bars[q].low ELSE bars[p].high > bars[q].high
    IN  {p \in pool : \A q \in pool : ~Beats(q, p) /\ (~Beats(p, q) => p <= q)}
\* A pattern that is not over, and not one that failed long ago
Shown(bars, life) == life.status # "invalidated" /\ (life.status = "failed" => FailureIsFresh(bars, life.failed))
Reversal(bars, type, top, neck, height, life, end) ==
    [type |-> type, neck |-> neck, status |-> life.status, at |-> life.at, failed |-> life.failed, end |-> end,
     target |-> IF top THEN Greater(10 * (neck - height), 4 * Last(bars).close) ELSE 10 * (neck + height),
     volume |-> IF life.status = "confirmed" THEN BreakoutVolume(bars, life.at) ELSE "none"]

\* Two or three tops (bottoms) within 4 per cent over a neckline 3 per cent away
Doubles(bars, top) ==
    LET pivots == IF top THEN PivotHighs(bars, 3) ELSE PivotLows(bars, 3)
        Level(i) == IF top THEN bars[i].high ELSE bars[i].low
        a == Back(pivots, 1)
        b == Back(pivots, 0)
        peak == Level(a) + Level(b)
        triple == Cardinality(pivots) >= 3 /\ PctClose(2 * Level(Back(pivots, 2)), peak, 4)
        Neck(p) == 2 * (IF top THEN bars[p].low ELSE bars[p].high)
        Fate(p) == NecklineBreak(bars, b, Neck(p), IF top THEN 2 * Greater(Level(a), Level(b)) ELSE 2 * Lesser(Level(a), Level(b)), top)
    IN  IF Cardinality(pivots) < 2 THEN {}
        ELSE IF ~PctClose(Level(a), Level(b), 4) THEN {}
        ELSE {Reversal(bars, IF top THEN IF triple THEN "triple_top" ELSE "double_top"
                             ELSE IF triple THEN "triple_bottom" ELSE "double_bottom",
                       top, Neck(p), Abs(peak - Neck(p)), Fate(p), b) :
                 p \in {p \in Between(bars, a, b, top) : 100 * Abs(peak - Neck(p)) >= 3 * peak /\ Shown(bars, Fate(p))}}

\* A head 3 per cent beyond two shoulders that are within 6 per cent
Shoulders(bars, top) ==
    LET pivots == IF top THEN PivotHighs(bars, 3) ELSE PivotLows(bars, 3)
        Level(i) == IF top THEN bars[i].high ELSE bars[i].low
        Neck(i) == IF top THEN bars[i].low ELSE bars[i].high
        l == Back(pivots, 2)
        h == Back(pivots, 1)
        r == Back(pivots, 0)
        head == Level(h)
        clear == IF top THEN head > Greater(Level(l), Level(r)) /\ 100 * head >= 103 * Greater(Level(l), Level(r))
                 ELSE head < Lesser(Level(l), Level(r)) /\ 100 * head <= 97 * Lesser(Level(l), Level(r))
        necks == {Neck(p) + Neck(q) : <<p, q>> \in Between(bars, l, h, top) \X Between(bars, h, r, top)}
        Fate(neck) == NecklineBreak(bars, r, neck, 2 * head, top)
    IN  IF Cardinality(pivots) < 3 THEN {}
        ELSE IF ~clear \/ ~PctClose(Level(l), Level(r), 6) THEN {}
        ELSE {Reversal(bars, IF top THEN "head_shoulders" ELSE "inverse_head_shoulders",
                       top, neck, Abs(2 * head - neck), Fate(neck), r) :
                 neck \in {neck \in necks : 100 * Abs(2 * head - neck) >= 6 * head /\ Shown(bars, Fate(neck))}}

\* At most one of each kind, so the limit of four never cuts
Reversals(bars) ==
    IF Len(bars) < 12 THEN {}
    ELSE UNION {Doubles(bars, top) \union Shoulders(bars, top) : top \in BOOLEAN}

-----------------------------------------------------------------------------
(* Triangles and wedges.  Both rails over one denominator d: at slot i the *)
(* upper one is (us * i + uc) / d.                                         *)

Gcd(a, b) ==
    LET G[x, y \in Nat] == IF y = 0 THEN x ELSE G[y, x % y] IN G[a, b]

\* The line through two pivots that leaves the others on its inner side, within
\* 0.05 per cent: the widest, then the most touched, then the first
TouchLine(pivots, Level(_), upper) ==
    LET n == Cardinality(pivots)
        most == FoldSet(LAMBDA p, sum : sum + Level(p), 0, pivots)
        Line(i, j) == [s |-> Level(j) - Level(i), d |-> j - i, c |-> Level(i) * (j - i) - (Level(j) - Level(i)) * i]
        Over(p, l) == (IF upper THEN 1 ELSE -1) * (Level(p) * l.d - l.s * p - l.c)
        Out(p, l) == 2000 * n * Over(p, l) > most * l.d
        On(l) == {p \in pivots : 2000 * n * Abs(Over(p, l)) <= most * l.d}
        pairs == {<<i, j>> \in pivots \X pivots : i < j /\ \A p \in pivots : ~Out(p, Line(i, j))}
        Key(q) == <<q[2] - q[1], Cardinality(On(Line(q[1], q[2])))>>
        Beats(q, r) == LET a == Key(q)  b == Key(r) IN
            \/ a[1] > b[1] \/ (a[1] = b[1] /\ a[2] > b[2])
            \/ a = b /\ (q[1] < r[1] \/ (q[1] = r[1] /\ q[2] < r[2]))
    IN  {Line(q[1], q[2]) : q \in {q \in pairs : \A r \in pairs : ~Beats(r, q)}}

\* The slope of the least squares through the pivots
Regression(pivots, Level(_)) ==
    LET n == Cardinality(pivots)
        from == Min(pivots)
        Sum(F(_)) == FoldSet(LAMBDA p, sum : sum + F(p), 0, pivots)
        sx == Sum(LAMBDA p : p - from)
        s == n * Sum(LAMBDA p : (p - from) * Level(p)) - sx * Sum(Level)
        d == n * Sum(LAMBDA p : (p - from) * (p - from)) - sx * sx
        g == Gcd(d, Abs(s))
    IN  IF n < 2 \/ d = 0 THEN [s |-> 0, d |-> 1] ELSE [s |-> s \div g, d |-> d \div g]

\* Rails that touch the swings; when a side has none, the slopes of both sides
\* moved out to the candles' extremes
FitRails(bars, hs, ls) ==
    LET High(i) == bars[i].high
        Low(i) == bars[i].low
        upper == TouchLine(hs, High, TRUE)
        lower == TouchLine(ls, Low, FALSE)
        span == Min(hs \union ls)..Max(hs \union ls)
        h == Regression(hs, High)
        l == Regression(ls, Low)
        u == IF upper # {} /\ lower # {} THEN CHOOSE x \in upper : TRUE
             ELSE [s |-> h.s, d |-> h.d, c |-> Max({High(i) * h.d - h.s * i : i \in span})]
        w == IF upper # {} /\ lower # {} THEN CHOOSE x \in lower : TRUE
             ELSE [s |-> l.s, d |-> l.d, c |-> Min({Low(i) * l.d - l.s * i : i \in span})]
        g == Gcd(u.d, w.d)
    IN  [d |-> u.d * (w.d \div g), us |-> u.s * (w.d \div g), uc |-> u.c * (w.d \div g),
         ls |-> w.s * (u.d \div g), lc |-> w.c * (u.d \div g)]
Upper(r, i) == r.us * i + r.uc
Lower(r, i) == r.ls * i + r.lc

TW_MIN_PIVOTS == 3
\* A pivot that closed beyond the rails of the pivots before it
BrokeOut(bars, i, hs, ls) ==
    LET before == [h |-> {p \in hs : p < i}, l |-> {p \in ls : p < i}]
        r == FitRails(bars, before.h, before.l)
    IN  /\ Cardinality(before.h) >= 2 /\ Cardinality(before.l) >= 2
        /\ bars[i].close * r.d > Upper(r, i) \/ bars[i].close * r.d < Lower(r, i)
\* Of four pivots a side, the newest that broke out is no part of the rails
Peel(bars, hs, ls) ==
    LET Kept(pivots, h, l) ==
            LET out == {p \in pivots : BrokeOut(bars, p, h, l)} IN
            IF Cardinality(pivots) <= TW_MIN_PIVOTS \/ out = {} THEN pivots ELSE pivots \ {Max(out)}
        keep == Kept(hs, hs, ls)
    IN  [h |-> keep, l |-> Kept(ls, keep, ls)]

\* The shape of two converging rails up to the last pivot; a slope within 0.1 per
\* cent of the middle price a candle is flat
Shape(r, last) ==
    LET middle == (Upper(r, last) + Lower(r, last)) \div 2000
        Way(s) == IF s > middle THEN "up" ELSE IF -s > middle THEN "down" ELSE "flat"
    IN  CASE Way(r.us) = "flat" /\ Way(r.ls) = "up" -> <<"ascending_triangle", "bullish">>
          [] Way(r.ls) = "flat" /\ Way(r.us) = "down" -> <<"descending_triangle", "bearish">>
          [] Way(r.us) = "down" /\ Way(r.ls) = "up" -> <<"symmetrical_triangle", "neutral">>
          [] Way(r.us) = "up" /\ Way(r.ls) = "up" -> <<"rising_wedge", "bearish">>
          [] Way(r.us) = "down" /\ Way(r.ls) = "down" -> <<"falling_wedge", "bullish">>
          [] OTHER -> <<"none", "none">>
Converging(r, first, last) ==
    LET Gap(i) == Upper(r, i) - Lower(r, i) IN
    /\ Gap(first) > 0 /\ Gap(last) > 0 /\ 4 * Gap(last) <= 3 * Gap(first)
    /\ r.us < r.ls /\ Upper(r, last) + Lower(r, last) > 0

\* The first close outside the rails before they meet, and what the next close
\* made of one on the wrong side
Resting == [status |-> "forming", way |-> "none", at |-> 0, sweep |-> "none"]
Breakout(bars, r, last, direction) ==
    LET after == (last + 1)..Len(bars)
        Meets(i) == Upper(r, i) <= Lower(r, i)
        Up(i) == bars[i].close * r.d > Upper(r, i)
        Down(i) == bars[i].close * r.d < Lower(r, i)
        ends == {i \in after : Meets(i) \/ Up(i) \/ Down(i)}
        at == Min(ends)
        way == IF Up(at) THEN "up" ELSE "down"
        wrong == direction # "neutral" /\ (way = "up") # (direction = "bullish")
        back == IF way = "down" THEN bars[at + 1].close * r.d > Lower(r, at + 1) ELSE bars[at + 1].close * r.d < Upper(r, at + 1)
    IN  IF ends = {} THEN {Resting}
        ELSE IF Meets(at) THEN {}
        ELSE IF ~wrong THEN {[status |-> "confirmed", way |-> way, at |-> at, sweep |-> "none"]}
        ELSE IF at = Len(bars) THEN {Resting}
        ELSE IF back
          THEN {[Resting EXCEPT !.sweep = IF ~FailureIsFresh(bars, at + 1) THEN "none"
                                          ELSE IF way = "down" THEN "spring" ELSE "upthrust"]}
        ELSE When(FailureIsFresh(bars, at), [status |-> "invalidated", way |-> way, at |-> at, sweep |-> "none"])

\* A confirmed break fails at a close through the other rail as it stood at the
\* break, or now, when the move (but at least 3 per cent) is given back
FailedAt(bars, r, b) ==
    LET up == b.way = "up"
        other == {i \in (b.at + 1)..Len(bars) : IF up THEN bars[i].close * r.d < Lower(r, b.at) ELSE bars[i].close * r.d > Upper(r, b.at)}
        level == IF up THEN Upper(r, b.at) ELSE Lower(r, b.at)
        best == IF up THEN Max({bars[i].high : i \in b.at..Len(bars)}) * r.d - level
                ELSE level - Min({bars[i].low : i \in b.at..Len(bars)}) * r.d
        lost == (IF up THEN 1 ELSE -1) * (level - Last(bars).close * r.d)
    IN  IF other # {} THEN Min(other) ELSE IF lost > best /\ lost > Share(level, 3, 100) THEN Len(bars) ELSE 0

\* One pattern of a set of pivots, its levels in thousandths
PatternOf(bars, hs, ls) ==
    LET r == FitRails(bars, hs, ls)
        first == Min(hs \union ls)
        last == Max(hs \union ls)
        shape == Shape(r, last)
        Side(b) == IF shape[2] = "neutral" /\ b.status = "confirmed" THEN IF b.way = "up" THEN "bullish" ELSE "bearish" ELSE shape[2]
        Failed(b) == IF b.status = "confirmed" THEN FailedAt(bars, r, b) ELSE IF b.status = "invalidated" THEN b.at ELSE 0
        Mils(v) == Share(v, 1000, r.d)
        height == Upper(r, first) - Lower(r, first)
        Built(b) ==
            [type |-> shape[1], direction |-> Side(b), sweep |-> b.sweep, way |-> b.way, at |-> b.at, failed |-> Failed(b),
             status |-> IF b.status = "confirmed" /\ Failed(b) # 0 THEN "failed" ELSE b.status,
             upper |-> Mils(Upper(r, last)), lower |-> Mils(Lower(r, last)),
             target |-> IF Side(b) = "bullish" THEN Mils(Upper(r, last) + height)
                        ELSE IF Side(b) = "bearish" THEN Greater(Mils(Lower(r, last) - height), 200 * Last(bars).close) ELSE 0,
             retest |-> IF b.status # "confirmed" THEN "none"
                        ELSE RetestState(bars, b.at, IF b.way = "up" THEN Upper(r, b.at) ELSE Lower(r, b.at), r.d, b.way = "up"),
             volume |-> IF b.status = "confirmed" THEN BreakoutVolume(bars, b.at) ELSE "none"]
    IN  IF ~Converging(r, first, last) \/ shape[1] = "none" THEN {}
        ELSE {Built(b) : b \in {b \in Breakout(bars, r, last, shape[2]) : Failed(b) # 0 => FailureIsFresh(bars, Failed(b))}}

\* The same type with both rails within half a per cent
SameStructure(p, q) ==
    LET Near(x, y) == 200 * Abs(x - y) <= Greater(Abs(x), Abs(y))
    IN  p.type = q.type /\ Near(p.upper, q.upper) /\ Near(p.lower, q.lower)
\* Confirmed patterns of both directions are none
MarkConflicts(patterns) ==
    LET confirmed == {p \in patterns : p.status = "confirmed"} IN
    IF Cardinality({p.direction : p \in confirmed}) < 2 THEN patterns
    ELSE (patterns \ confirmed) \union {[p EXCEPT !.status = "conflicted"] : p \in confirmed}
\* What the rails without the breakout pivots show, and what the ones with them do
Triangles(bars) ==
    LET hs == Latest(PivotHighs(bars, 3), 4)
        ls == Latest(PivotLows(bars, 3), 4)
        kept == Peel(bars, hs, ls)
        resolved == PatternOf(bars, kept.h, kept.l)
        current == IF kept.h = hs /\ kept.l = ls THEN {}
                   ELSE {p \in PatternOf(bars, hs, ls) : \A q \in resolved : ~SameStructure(p, q)}
    IN  IF Len(bars) < 14 \/ Cardinality(hs) < TW_MIN_PIVOTS \/ Cardinality(ls) < TW_MIN_PIVOTS THEN {}
        ELSE MarkConflicts(resolved \union current)

-----------------------------------------------------------------------------
(* Flags.  The pole is the candles p..e, the flag the m candles after e;   *)
(* its rails are the regressions of its highs and lows, at slot x of the   *)
(* flag (0 its first candle) over the denominator 2 * Width(m).            *)

MIN_CONSOLIDATION_BARS == 5
MAX_CONSOLIDATION_BARS == 15
FLAG_RECENT_BARS == 3
FlagHigh(bars, e, m) == Max({bars[i].high : i \in (e + 1)..(e + m)})
FlagLow(bars, e, m) == Min({bars[i].low : i \in (e + 1)..(e + m)})
Width(m) == m * (m * m - 1)
LineSlope(Level(_), e, m) == 6 * SumOf(LAMBDA i : (2 * i - m - 1) * Level(e + i), 1, m)
RailAt(Level(_), e, m, x) ==
    2 * (m * m - 1) * SumOf(LAMBDA i : Level(e + i), 1, m) + LineSlope(Level, e, m) * (2 * x - m + 1)

\* The way the channel leans: more than 0.1 per cent of the middle price a candle
Channel(bars, e, m) ==
    LET hs == LineSlope(LAMBDA i : bars[i].high, e, m)
        ls == LineSlope(LAMBDA i : bars[i].low, e, m)
        flat == Width(m) * (FlagHigh(bars, e, m) + FlagLow(bars, e, m))
    IN  [slope |-> IF 1000 * (hs + ls) > flat THEN "ascending" ELSE IF 1000 * (hs + ls) < -flat THEN "descending" ELSE "neutral",
         parallel |-> 200 * Abs(hs - ls) <= 3 * flat]
\* The levels a close at slot x must pass, over 2 * Width(m): the rails, kept
\* within the flag's own high and low on the near side; of a neutral flag those
UpBreak(bars, e, m, x) ==
    LET low == 2 * Width(m) * FlagLow(bars, e, m) IN
    IF Channel(bars, e, m).slope = "neutral" THEN 2 * Width(m) * FlagHigh(bars, e, m)
    ELSE Greater(RailAt(LAMBDA i : bars[i].high, e, m, x), low)
DownBreak(bars, e, m, x) ==
    LET high == 2 * Width(m) * FlagHigh(bars, e, m) IN
    IF Channel(bars, e, m).slope = "neutral" THEN 2 * Width(m) * FlagLow(bars, e, m)
    ELSE Lesser(Greater(RailAt(LAMBDA i : bars[i].low, e, m, x), 0), high)
\* Where candle i closes: over, under, or inside the channel of the m candles after e
Outcome(bars, e, m, i) ==
    LET close == 2 * Width(m) * bars[i].close IN
    IF close > UpBreak(bars, e, m, i - e - 1) THEN "up"
    ELSE IF close < DownBreak(bars, e, m, i - e - 1) THEN "down" ELSE "inside"
\* The flag grows while the next candle closes inside it
FlagBars(bars, e) ==
    LET Grown[m \in Nat] ==
            IF m < MAX_CONSOLIDATION_BARS /\ e + m < Len(bars) /\ Outcome(bars, e, m, e + m + 1) = "inside"
            THEN Grown[m + 1] ELSE m
    IN  Grown[MIN_CONSOLIDATION_BARS]

\* Poles of the later half: two to eight candles that moved minPole tenths of a
\* per cent, at least half of their path and of their candles the one way
Poles(bars, minPole) ==
    LET n == Len(bars)
        Moved(p, e) == bars[e].close - bars[p].open
        Path(p, e) == Abs(bars[p].close - bars[p].open) + SumOf(LAMBDA i : Abs(bars[i].close - bars[i - 1].close), p + 1, e)
        Same(p, e) == {i \in p..e : (bars[i].close >= bars[i].open) = (Moved(p, e) > 0)}
    IN  {q \in {<<p, e>> : p \in (n \div 2 + 1)..(n - 4), e \in 2..(n - MIN_CONSOLIDATION_BARS)} :
            LET p == q[1]  e == q[2] IN
            /\ p + 1 <= e /\ e <= p + 7
            /\ 1000 * Abs(Moved(p, e)) > minPole * bars[p].open
            /\ Max({bars[i].high : i \in p..e}) > Min({bars[i].low : i \in p..e})
            /\ 2 * Abs(Moved(p, e)) > Path(p, e) /\ 2 * Cardinality(Same(p, e)) >= e - p + 1}

RankOf(f) == IF f.active THEN IF f.status = "confirmed" THEN 2 ELSE 1 ELSE 0
PoleRange(bars, p, e) ==
    [high |-> Max({bars[i].high : i \in p..e}), low |-> Min({bars[i].low : i \in p..e})]
PoleHeight(bars, p, e) == PoleRange(bars, p, e).high - PoleRange(bars, p, e).low
PoleRises(bars, p, e) == bars[e].close > bars[p].open
Retrace(bars, p, e, m) ==
    IF PoleRises(bars, p, e) THEN bars[e].close - FlagLow(bars, e, m) ELSE FlagHigh(bars, e, m) - bars[e].close
\* What keeps a consolidation from being a flag, and the stage it reached
Misshapen(bars, p, e, m) ==
    LET back == 100 * Retrace(bars, p, e, m)
        height == PoleHeight(bars, p, e)
        channel == Channel(bars, e, m)
        RangeSum(from, to) == SumOf(LAMBDA i : bars[i].high - bars[i].low, from, to)
    IN  IF m = MAX_CONSOLIDATION_BARS /\ e + m < Len(bars) /\ Outcome(bars, e, m, e + m + 1) = "inside"
          THEN <<4, "consolidation_too_long">>
        ELSE IF back > 62 * height THEN <<3, "retrace_too_deep">>
        ELSE IF back < 15 * height THEN <<3, "retrace_too_shallow">>
        ELSE IF channel.slope = (IF PoleRises(bars, p, e) THEN "ascending" ELSE "descending") THEN <<4, "wedge_with_trend">>
        ELSE IF ~channel.parallel THEN <<4, "rails_not_parallel">>
        ELSE IF RangeSum(e + 1, e + m) * (e - p + 1) > RangeSum(p, e) * m THEN <<4, "no_volatility_contraction">>
        ELSE <<>>
\* The flag's far side and the share proj of the pole, in thousandths
FlagTarget(bars, p, e, m, proj) ==
    LET move == PoleHeight(bars, p, e) * proj
        price == Last(bars).close
    IN  IF PoleRises(bars, p, e) THEN Lesser(1000 * FlagHigh(bars, e, m) + move, 2000 * price)
        ELSE Max({1000 * FlagLow(bars, e, m) - move, 200 * price, 500 * PoleRange(bars, p, e).low})
\* The first close outside decides; after a break the right way, the first close
\* through the flag's other side fails it
FlagLife(bars, e, m, bull) ==
    LET outs == {i \in (e + m + 1)..Len(bars) : Outcome(bars, e, m, i) # "inside"}
        at == Min(outs)
        lost == {i \in (at + 1)..Len(bars) : IF bull THEN bars[i].close < FlagLow(bars, e, m) ELSE bars[i].close > FlagHigh(bars, e, m)}
    IN  IF outs = {} THEN Forming
        ELSE IF Outcome(bars, e, m, at) # (IF bull THEN "up" ELSE "down") THEN [status |-> "invalidated", at |-> at, failed |-> 0]
        ELSE IF lost = {} THEN [status |-> "confirmed", at |-> at, failed |-> 0]
        ELSE [status |-> "failed", at |-> at, failed |-> Min(lost)]
\* The pole's per cent, less what was given back, later and tighter flags first
Strength(bars, p, e, m) ==
    LET n == Len(bars)
        pct == Round(10000 * Abs(bars[e].close - bars[p].open), bars[p].open)
        height == PoleHeight(bars, p, e)
    IN  Round(pct * (height - Retrace(bars, p, e, m)) * (2 * n + e + m) * (100 - 3 * (m - MIN_CONSOLIDATION_BARS)), 20 * n * height)
\* What one pole gives: a rejection with the stage it reached, or a flag, or a
\* flag that failed, which is both
FlagOf(bars, p, e, proj) ==
    LET n == Len(bars)
        m == FlagBars(bars, e)
        fh == FlagHigh(bars, e, m)
        fl == FlagLow(bars, e, m)
        bull == PoleRises(bars, p, e)
        life == FlagLife(bars, e, m, bull)
        price == Last(bars).close
        target == FlagTarget(bars, p, e, m, proj)
        near == IF bull THEN 100 * price >= 97 * fl ELSE 100 * price <= 103 * fh
        hit == IF bull THEN 1000 * price >= target ELSE 1000 * price <= target
        level == IF bull THEN UpBreak(bars, e, m, life.at - e - 1) ELSE DownBreak(bars, e, m, life.at - e - 1)
        flag == [dir |-> IF bull THEN "bullish" ELSE "bearish", pole |-> p, status |-> life.status, high |-> fh, low |-> fl, bars |-> m,
                 slope |-> Channel(bars, e, m).slope, target |-> target, at |-> life.at, failed |-> life.failed,
                 active |-> life.status # "failed" /\ e + m >= n - FLAG_RECENT_BARS,
                 strength |-> IF life.status = "failed" THEN 0 ELSE Strength(bars, p, e, m),
                 volume |-> IF life.at = 0 THEN "none" ELSE BreakoutVolume(bars, life.at),
                 retest |-> IF life.at = 0 THEN "none" ELSE RetestState(bars, life.at, level, 2 * Width(m), bull)]
        No(why) == [flags |-> {}, rejected |-> {[pole |-> p, end |-> e, dir |-> flag.dir, stage |-> why[1], reason |-> why[2]]}]
    IN  IF Misshapen(bars, p, e, m) # <<>> THEN No(Misshapen(bars, p, e, m))
        ELSE IF life.status = "invalidated" THEN No(<<7, "invalidated">>)
        ELSE IF life.status = "failed" THEN
                  [No(<<7, "failed">>) EXCEPT !.flags = When(FailureIsFresh(bars, life.failed), flag)]
        ELSE IF hit THEN No(<<8, "target_already_hit">>)
        ELSE IF ~near THEN No(<<8, "price_left_zone">>)
        ELSE [flags |-> {flag}, rejected |-> {}]

Read(bars, proj, minPole) ==
    IF Len(bars) < 10 THEN {} ELSE {[pole |-> q[1], end |-> q[2], found |-> FlagOf(bars, q[1], q[2], proj)] : q \in Poles(bars, minPole)}
\* The best flag of every pole's start, its first end in a tie, and the best six
Flags(bars, proj, minPole) ==
    LET found == UNION {{[pole |-> r.pole, end |-> r.end, flag |-> f] : f \in r.found.flags} : r \in Read(bars, proj, minPole)}
        Beats(a, b) == \/ RankOf(a.flag) > RankOf(b.flag)
                       \/ RankOf(a.flag) = RankOf(b.flag) /\ a.flag.strength > b.flag.strength
        Ties(a, b) == ~Beats(a, b) /\ ~Beats(b, a)
        best == {a \in found : \A b \in found : b.pole = a.pole => ~Beats(b, a) /\ (Ties(a, b) => a.end <= b.end)}
        Before(a, b) == Beats(a, b) \/ (Ties(a, b) /\ a.pole < b.pole)
    IN  {a.flag : a \in {a \in best : Cardinality({b \in best : Before(b, a)}) < 6}}
\* Why there is no flag: the furthest rejection of every pole's start
Suppressed(bars, proj, minPole) ==
    LET all == UNION {r.found.rejected : r \in Read(bars, proj, minPole)} IN
    {r \in all : \A q \in all : q.pole = r.pole => q.stage < r.stage \/ (q.stage = r.stage /\ r.end <= q.end)}

\* Of the flags of several timeframes the best per direction and timeframe; the
\* dominant ones point the way most strength does at the heaviest timeframe, among
\* the active confirmed ones if there are any, else the active, else all
PickDominant(flags) ==
    LET Beats(f, g) == RankOf(f) > RankOf(g) \/ (RankOf(f) = RankOf(g) /\ f.strength > g.strength)
        best == {flags[k] : k \in {k \in DOMAIN flags : \A j \in DOMAIN flags :
                    flags[j].dir = flags[k].dir /\ flags[j].tf = flags[k].tf =>
                        ~Beats(flags[j], flags[k]) /\ (Beats(flags[k], flags[j]) \/ k <= j)}}
        confirmed == {f \in best : RankOf(f) = 2}
        active == {f \in best : f.active}
        pool == IF confirmed # {} THEN confirmed ELSE Either(active, best)
        top == {f \in pool : \A g \in pool : g.weight <= f.weight}
        Score(dir) == FoldSet(LAMBDA f, sum : sum + f.strength, 0, {f \in top : f.dir = dir})
        way == IF Score("bullish") >= Score("bearish") THEN "bullish" ELSE "bearish"
    IN  {[dir |-> f.dir, tf |-> f.tf, strength |-> f.strength, dominant |-> f \in top /\ f.dir = way] : f \in best}

=============================================================================
