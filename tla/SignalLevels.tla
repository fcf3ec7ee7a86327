---------------------------- MODULE SignalLevels ----------------------------
(***************************************************************************)
(* backend/signals.py, from a direction to a trade: the entry, the stop    *)
(* kept out of liquidity pools, the ladder of targets and the leverage.    *)
(*                                                                         *)
(* Prices are integers; a factor is an integer with its unit named.  What  *)
(* the code writes twice, for LONG and for SHORT, is written once with the *)
(* sign of the direction.                                                  *)
(***************************************************************************)
EXTENDS Rounding, FiniteSets, FiniteSetsExt, TLC

(***************************************************************************)
(* The tables per timeframe: sl in tenths of the ATR, lev and buf in per   *)
(* cent, the others in parts of 10000 of the price.                        *)
(***************************************************************************)
Row(sl, atr, maxSl, maxTp3, entry, anchor, buf, lev) ==
    [sl |-> sl, atr |-> atr, maxSl |-> maxSl, maxTp3 |-> maxTp3,
     entry |-> entry, anchor |-> anchor, buf |-> buf, lev |-> lev]
Table ==
    "15M" :> Row(8, 75, 125, 225, 100, 250, 20, 100) @@
    "1H" :> Row(8, 150, 250, 450, 200, 500, 20, 100) @@
    "2H" :> Row(9, 220, 350, 650, 200, 600, 20, 90) @@
    "4H" :> Row(10, 300, 500, 900, 250, 800, 30, 80) @@
    "8H" :> Row(10, 400, 650, 1200, 300, 1000, 30, 70) @@
    "12H" :> Row(12, 500, 800, 1500, 300, 1200, 35, 60) @@
    "1D" :> Row(13, 650, 1000, 2000, 350, 1500, 45, 50) @@
    "1W" :> Row(15, 900, 1400, 2800, 450, 2000, 60, 30) @@
    "2W" :> Row(15, 1000, 1600, 3200, 500, 2400, 65, 25) @@
    "3W" :> Row(15, 1000, 1600, 3200, 500, 2600, 65, 25) @@
    "1M" :> Row(15, 1000, 1800, 3500, 600, 3000, 70, 20)
Timeframes == DOMAIN Table
HigherTimeframe(tf) == tf \in {"1D", "1W", "2W", "3W", "1M"}

\* _mcap_tier, in millions of dollars; the room a tier has, in tenths
Tiers == {"mega", "large", "mid", "small", "micro"}
Tier(cap) ==
    IF cap >= 100000 THEN "mega" ELSE IF cap >= 10000 THEN "large"
    ELSE IF cap >= 1000 THEN "mid" ELSE IF cap >= 200 THEN "small" ELSE "micro"
Room == [mega |-> 10, large |-> 15, mid |-> 20, small |-> 30, micro |-> 40]
CapRoom(tier) == Lesser(Room[tier], 25)

MaxStop(price, tf, tier) == (price * Table[tf].maxSl * CapRoom(tier)) \div 100000
MaxTarget(price, tf, tier) == (price * Table[tf].maxTp3 * CapRoom(tier)) \div 100000

\* the mean true range, clamped so that its stop fits under the cap
EffectiveAtr(atr, price, tf, tier) ==
    Lesser(Lesser(atr, (price * Table[tf].atr * Room[tier]) \div 100000),
           (10 * MaxStop(price, tf, tier)) \div Greater(Table[tf].sl, 15))

-----------------------------------------------------------------------------
(* Liquidity pools: price, touches, swept as it arrives, age in bars.      *)

NoAge == -1
IsLive(pool) == pool.swept \in {"absent", "none", "false"}

\* pool_freshness, in fortieths: straight down over 40 bars, floored at 0.35
Freshness(pool) == IF pool.age = NoAge THEN 40 ELSE Greater(14, 40 - pool.age)

\* clear_stop_of_liquidity: the pools just beyond a stop that may widen it
StopThreats(pools, entry, dist, dir, atr) ==
    {p \in pools :
        LET beyond == Sign(dir) * (entry - p.price) - dist IN
        /\ IsLive(p) /\ p.price > 0 /\ p.touches >= 3 /\ Freshness(p) >= 20
        /\ 0 <= beyond /\ 4 * beyond <= atr}

ClearStop(pools, entry, dist, dir, atr, maxStop) ==
    LET threats == StopThreats(pools, entry, dist, dir, atr)
        farthest == Max({Sign(dir) * (entry - p.price) : p \in threats})
        needed == farthest + Greater(atr \div 10, (entry * 15) \div 10000)
    IN  IF atr <= 0 \/ threats = {} \/ needed <= dist
        THEN [dist |-> dist, moved |-> FALSE, blocked |-> FALSE]
        ELSE IF needed > maxStop
        THEN [dist |-> dist, moved |-> FALSE, blocked |-> TRUE]
        ELSE [dist |-> needed, moved |-> TRUE, blocked |-> FALSE]

\* _tp_pool_levels: two touches make a target
PoolTargets(pools, entry, dir) ==
    {p.price : p \in {q \in pools : /\ IsLive(q) /\ q.price > 0 /\ q.touches >= 2
                                    /\ Sign(dir) * (q.price - entry) > 0}}

-----------------------------------------------------------------------------
(* Entry and stop.                                                         *)

\* the nearest level against the trade's direction within the limit, else a
\* pullback of 0.2 per cent
Entry(price, dir, levels, tf) ==
    LET Gap(l) == Sign(dir) * (price - l)
        near == {l \in levels : 0 <= Gap(l) /\ 10000 * Gap(l) <= Table[tf].entry * price}
    IN  IF near = {} THEN price - Sign(dir) * ((price * 20) \div 10000)
        ELSE CHOOSE l \in near : \A m \in near : Gap(l) <= Gap(m)

\* from the nearest invalidation and a buffer, else from the ATR
StopDistance(entry, dir, anchors, atr, tf, maxStop) ==
    LET Gap(l) == Sign(dir) * (entry - l)
        near == {l \in anchors : 0 < Gap(l) /\ 10000 * Gap(l) <= Table[tf].anchor * entry}
        buffer == Greater((entry * 40) \div 10000, (atr * Table[tf].buf) \div 100)
        plain == Greater((atr * Greater(Table[tf].sl, 15)) \div 10, (entry * 150) \div 10000)
    IN  Lesser(maxStop, IF near = {} THEN plain ELSE Min({Gap(l) : l \in near}) + buffer)

StopPrice(entry, dir, dist) ==
    IF dir = "LONG" THEN Greater(entry \div 1000, entry - dist) ELSE entry + dist

-----------------------------------------------------------------------------
(* Targets, as distances from the entry in parts of 1/6000, so that every  *)
(* percentage below is exact.  A distance of 0 is no target.               *)

Part == 6000

\* the room of the RSI and the trend's bonus, in sixtieths
TargetFactor(dir, rsi, shortTrend, trend, macd, squeeze) ==
    LET room == Clamp(30, 2 * (IF dir = "LONG" THEN 75 - rsi ELSE rsi - 25), 84)
        bonus == (IF shortTrend THEN 9 ELSE 0) + (IF trend THEN 6 ELSE 0)
                 + (IF macd THEN 6 ELSE 0)
                 + (CASE squeeze = "tight" -> 12 [] squeeze = "wide" -> 6 [] OTHER -> 0)
    IN  Clamp(30, room + bonus, 120)

\* atr_rr_tp_ladder
Ladder(dist, f, maxTarget) ==
    LET tp3 == Lesser(20 * dist * Greater(840, 18 * f), 6000 * maxTarget)
        tp2 == Lesser(20 * dist * Greater(660, 13 * f), 3600 * maxTarget)
        tp1 == Lesser(20 * dist * Greater(600, 10 * f), 2100 * maxTarget)
    IN  <<Lesser(tp1, (9 * tp2) \div 10), Lesser(tp2, (8 * tp3) \div 10), tp3>>

\* _tp_short: a short has no target in the last twentieth of the price
AboveZero(dir, entry, tps) ==
    [n \in 1..3 |-> IF dir = "SHORT" /\ entry * Part - tps[n] <= entry * 300 THEN 0 ELSE tps[n]]

\* _snap_tp_to_structure: the nearest wall that pays is the second target
Wall(risk, entry, dir, levels, tf, maxTarget) ==
    LET dists == {Sign(dir) * (l - entry) : l \in levels}
    IN  {d \in dists : /\ 1000 * d > 3 * entry
                       /\ 10 * d >= (IF HigherTimeframe(tf) THEN 10 ELSE 14) * risk
                       /\ 100 * d <= (IF HigherTimeframe(tf) THEN 135 ELSE 105) * maxTarget}

Snap(risk, entry, dir, levels, tf, maxTarget) ==
    LET dists == {d \in {Sign(dir) * (l - entry) : l \in levels} : 1000 * d > 3 * entry}
        d2 == Min(Wall(risk, entry, dir, levels, tf, maxTarget))
        reach == (IF HigherTimeframe(tf) THEN 8100 ELSE 6300) * maxTarget
        cap == Lesser(13200 * d2, reach)
        nearer == {d \in dists : 2 * d >= risk /\ 100 * d <= 85 * d2}
        further == {d \in dists : 100 * d >= 112 * d2 /\ Part * d <= cap}
    IN  <<IF nearer # {} THEN 5820 * Min(nearer) ELSE 3201 * d2,
          5820 * d2,
          IF further # {} THEN Part * Min(further) ELSE Lesser(8700 * d2, cap)>>

\* no wall pays: only the first target moves, to the nearest level within it
NearTarget(risk, entry, dir, levels, tf, tps) ==
    LET near == {d \in {Sign(dir) * (l - entry) : l \in levels} :
                    /\ d > 0 /\ 10 * d >= (IF HigherTimeframe(tf) THEN 4 ELSE 6) * risk
                    /\ 40000 * d <= 7 * tps[1]}
    IN  IF near = {} THEN tps ELSE [tps EXCEPT ![1] = 5820 * Min(near)]

Targets(dist, entry, dir, levels, tf, f, maxTarget) ==
    LET plain == AboveZero(dir, entry, Ladder(dist, f, maxTarget))
        risk == Distance(StopPrice(entry, dir, dist), entry)
    IN  IF plain[1] = 0 THEN plain
        ELSE IF Wall(risk, entry, dir, levels, tf, maxTarget) # {}
        THEN Snap(risk, entry, dir, levels, tf, maxTarget)
        ELSE NearTarget(risk, entry, dir, levels, tf, plain)

-----------------------------------------------------------------------------
(* Leverage: by tier, timeframe, strength and the size of the stop, which  *)
(* is given in parts of 10000 of the entry.                                *)

Base == [mega |-> 7, large |-> 5, mid |-> 4, small |-> 3, micro |-> 2]
Floor == [mega |-> 3, large |-> 3, mid |-> 2, small |-> 2, micro |-> 1]
Ceiling == [mega |-> 10, large |-> 8, mid |-> 6, small |-> 4, micro |-> 3]

Leverage(tier, tf, strength, stop) ==
    LET ceiling == Greater(Floor[tier], Round(Ceiling[tier] * Table[tf].lev, 100))
        adjust == IF strength >= 80 THEN 2 ELSE IF strength >= 65 THEN 1
                  ELSE IF strength >= 50 THEN 0 ELSE -1
        room == CapRoom(tier)
        byStop == IF stop > 50 * room THEN 3 ELSE IF stop > 30 * room THEN 5
                  ELSE IF stop > 20 * room THEN 7 ELSE IF stop > 10 * room THEN 10 ELSE ceiling
    IN  Lesser(Lesser(byStop, ceiling), Greater(Floor[tier], Base[tier] + adjust))

\* the chased-entry warning: the reward is poor (below 1.5, in hundredths) and
\* the price has run one per cent past the break it follows
Chased(entry, dir, break, rr) ==
    /\ rr < 150
    /\ Sign(dir) * (entry - break) > 0
    /\ 100 * Distance(entry, break) >= break
=============================================================================
