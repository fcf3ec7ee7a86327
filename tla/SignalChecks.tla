--------------------------- MODULE SignalChecks -----------------------------
(***************************************************************************)
(* The signal engine and the policy over bounded inputs: the levels at     *)
(* prices of 10000, the gates at the edges of their steps, and the votes   *)
(* over a market that says nothing, of which every check moves a few       *)
(* readings.                                                               *)
(***************************************************************************)
EXTENDS Integers, Sequences, FiniteSets, SequencesExt

SL == INSTANCE SignalLevels

LevelPrice == 10000
Directions == {"LONG", "SHORT"}
WideTf == {"1H", "4H", "1D", "1M"}
StopsOf(tf, tier) ==
    LET cap == SL!MaxStop(LevelPrice, tf, tier) IN {1, cap \div 7, cap \div 3, (2 * cap) \div 3, cap}
TargetCap(tf, tier) == SL!MaxTarget(LevelPrice, tf, tier)

\* The targets of the ladder stand in order and within reach; its last step,
\* which caps the second target by the third, never has anything to do.
ASSUME LadderIsOrdered ==
    \A tf \in SL!Timeframes, tier \in SL!Tiers : \A dist \in StopsOf(tf, tier), f \in {30, 47, 84, 120} :
        LET max == TargetCap(tf, tier)
            tps == SL!Ladder(dist, f, max)
        IN  /\ 0 < tps[1] /\ tps[1] < tps[2] /\ tps[2] < tps[3] /\ tps[3] <= SL!Part * max
            /\ 10 * tps[2] < 8 * tps[3]

\* The second target pays the 1.5 of the publication floor unless the stop is
\* wider than two fifths of the reach: then it does not.  Stops of that width
\* are within the cap on every timeframe.
ASSUME RewardNeedsATightStop ==
    \A tf \in SL!Timeframes, tier \in SL!Tiers :
        /\ \A dist \in StopsOf(tf, tier), f \in {30, 120} :
              LET tps == SL!Ladder(dist, f, TargetCap(tf, tier)) IN
              (2 * tps[2] < 3 * SL!Part * dist) <=> (5 * dist > 2 * TargetCap(tf, tier))
        /\ 5 * SL!MaxStop(LevelPrice, tf, tier) > 2 * TargetCap(tf, tier)

\* The guard of a short's target never fires: the reach ends above it.
ASSUME ShortTargetsStayUp ==
    \A tf \in SL!Timeframes, tier \in SL!Tiers : \A dist \in StopsOf(tf, tier) :
        LET tps == SL!Ladder(dist, 120, TargetCap(tf, tier)) IN
        SL!AboveZero("SHORT", LevelPrice, tps) = tps

\* Snapped to walls or not, the three targets stand in order, and the second of
\* a snapped plan still pays 0.97 of the least reward asked of its wall (1 on
\* the higher timeframes, else 1.4).
LevelSets(dir) ==
    LET at == {LevelPrice + SL!Sign(dir) * d : d \in {45, 160, 390, 900, 1300, 3300, 6100, 9900}}
    IN  {{a, b, c} : a, b, c \in at}
ASSUME SnappedIsOrdered ==
    \A tf \in WideTf, tier \in {"mega", "micro"}, dir \in Directions :
        \A dist \in StopsOf(tf, tier), levels \in LevelSets(dir) :
            LET max == TargetCap(tf, tier)
                tps == SL!Targets(dist, LevelPrice, dir, levels, tf, 60, max)
                risk == SL!Distance(SL!StopPrice(LevelPrice, dir, dist), LevelPrice)
            IN  /\ 0 < tps[1] /\ tps[1] < tps[2] /\ tps[2] < tps[3]
                /\ SL!Wall(risk, LevelPrice, dir, levels, tf, max) # {} =>
                      tps[2] >= (IF SL!HigherTimeframe(tf) THEN 5820 ELSE 8148) * risk

\* A snapped third target of a short may lie below zero, but only on the
\* timeframes above a week for a coin below the middle tier.
BelowZero(tf, tier) ==
    \E dist \in StopsOf(tf, tier), levels \in LevelSets("SHORT") :
        SL!Targets(dist, LevelPrice, "SHORT", levels, tf, 60, TargetCap(tf, tier))[3]
            > SL!Part * LevelPrice
ASSUME OnlyLongSnapsCrossZero ==
    \A tf \in SL!Timeframes, tier \in {"mid", "small", "micro"} :
        BelowZero(tf, tier) <=> tf \in {"2W", "3W", "1M"} /\ tier # "mid"

-----------------------------------------------------------------------------

\* From any levels around the entry: the stop is on its side of the entry, above
\* zero, within the cap, and no nearer than the nearest invalidation.
ASSUME StopIsPlaced ==
    \A tf \in SL!Timeframes, tier \in {"mega", "mid"}, dir \in Directions :
        \A atr \in {5, 250, 4000}, d \in {1, 180, 900} :
            LET max == SL!MaxStop(LevelPrice, tf, tier)
                eff == SL!EffectiveAtr(atr, LevelPrice, tf, tier)
                level == LevelPrice - SL!Sign(dir) * d
                entry == SL!Entry(LevelPrice, dir, {level}, tf)
                anchor == entry - SL!Sign(dir) * 150
                dist == SL!StopDistance(entry, dir, {anchor}, eff, tf, max)
                stop == SL!StopPrice(entry, dir, dist)
            IN  /\ 0 < dist /\ dist <= max /\ 0 < stop
                /\ SL!Sign(dir) * (entry - stop) > 0
                /\ SL!Sign(dir) * (LevelPrice - entry) >= 0
                /\ dist < max => dist >= 150

\* Clearing a stop of the pools never tightens it and never passes the cap, and
\* when it is moved it stands beyond every pool that threatened it.
PoolAt(d, age, touches, swept) ==
    [price |-> LevelPrice - d, age |-> age, touches |-> touches, swept |-> swept]
PoolSets ==
    LET pools == {PoolAt(d, 3, 3, "absent") : d \in {195, 200, 230, 249, 260, 270}}
                 \union {PoolAt(240, 21, 8, "none"), PoolAt(245, SL!NoAge, 5, "true"),
                         PoolAt(248, 0, 2, "false")}
    IN  {{a, b, c} : a, b, c \in pools}
ASSUME ClearedStopIsSafe ==
    \A pools \in PoolSets, max \in {200, 262, 290, 400}, atr \in {40, 200, 320} :
        LET clear == SL!ClearStop(pools, LevelPrice, 200, "LONG", atr, max)
            threats == SL!StopThreats(pools, LevelPrice, 200, "LONG", atr)
        IN  /\ clear.dist >= 200 /\ clear.dist <= max
            /\ clear.moved <=> clear.dist > 200
            /\ clear.moved => \A p \in threats : LevelPrice - p.price < clear.dist
            /\ clear.blocked => threats # {} /\ ~clear.moved
            /\ \A p \in threats : p.touches >= 3 /\ p.age <= 20 /\ p.swept # "true"

\* It is not a fixed point: the stop it returns may stand just short of another
\* pool, and the same call would move it again.
ASSUME ClearedStopMayBeThreatened ==
    \E pools \in PoolSets :
        LET once == SL!ClearStop(pools, LevelPrice, 200, "LONG", 200, 400)
            twice == SL!ClearStop(pools, LevelPrice, once.dist, "LONG", 200, 400)
        IN  once.moved /\ twice.moved

\* More conviction never lowers the leverage, a wider stop never raises it, and
\* a longer timeframe's ceiling is never above a shorter one's.
ASSUME LeverageIsBounded ==
    \A tier \in SL!Tiers, tf \in SL!Timeframes :
        \A s, t \in {0, 49, 50, 64, 65, 79, 80, 100}, w, x \in {90, 101, 201, 301, 501, 800, 1300} :
            LET lev == SL!Leverage(tier, tf, s, w) IN
            /\ 1 <= lev /\ lev <= 10
            /\ s <= t /\ x <= w => lev <= SL!Leverage(tier, tf, t, x)
            /\ lev <= SL!Leverage(tier, "15M", s, w)

-----------------------------------------------------------------------------
(* The policy                                                              *)

SP == INSTANCE SignalPolicy

Influences == {SP!BtcInfluence(d, s, o) :
                  d \in {"LONG", "SHORT", "NEUTRAL"}, s \in {0, 4, 490, 1000}, o \in {0, 50, 100}}
Strengths == {0, 30, 329, 460, 509, 510, 555, 629, 680, 681, 690, 870, 1000}

\* BTC's direction never hurts a trade that agrees with it and never helps one
\* that opposes it, more correlation moves more, and the result is a strength.
ASSUME BtcAdjustIsFair ==
    \A btc \in Influences, s \in Strengths, dir \in Directions :
        LET at(corr) == SP!BtcAdjust(dir, s, corr, btc) IN
        /\ \A corr \in {0, 40, 85, 100} : 0 <= at(corr) /\ at(corr) <= 1000
        /\ at(0) = s
        /\ btc.direction = dir => s <= at(40) /\ at(40) <= at(85) /\ at(85) <= at(100)
        /\ btc.direction \notin {dir, "NEUTRAL"} => s >= at(40) /\ at(40) >= at(100)
        /\ at(100) <= s + 144 /\ at(100) >= s - 216

\* The calibration only lowers, keeps what was publishable publishable and what
\* was not not, and takes a chased or split trade out of the Confirmed tier.
ASSUME CalibrationOnlyLowers ==
    \A s, h1, h2 \in Strengths \union {SP!NoStrength}, chased \in BOOLEAN :
        s # SP!NoStrength =>
            LET c == SP!Calibrate(s, h1, h2, chased)
                split == SP!NoStrength \notin {h1, h2} /\ SP!Distance(h1, h2) >= 200
            IN  /\ c <= s
                /\ c >= SP!MIN_ADJUSTED_STRENGTH <=> s >= SP!MIN_ADJUSTED_STRENGTH
                /\ chased \/ split => SP!StrengthTier(c) # "Confirmed"
                /\ ~chased /\ ~split => c = s

-----------------------------------------------------------------------------

\* a long at 1000 whose prices are bent one at a time
GoodRead ==
    [tradeable |-> TRUE, invalid |-> FALSE, degraded |-> FALSE, direction |-> "LONG",
     strength |-> 700, chased |-> FALSE, signal |-> 1000, live |-> 1001,
     entry |-> 1000, sl |-> 980, tps |-> <<1020, 1040, 1060>>, rr |-> 200]
Ladders == {<<1020, 1040, 1060>>, <<1020, 1029, 1060>>, <<1020, 1030>>, <<1040>>, <<>>,
            <<1020, 1020, 1060>>, <<1040, 1020, 1060>>, <<990, 1040, 1060>>, <<1020, 0, 1060>>}
BentReads ==
    {[GoodRead EXCEPT !.strength = s, !.chased = c, !.live = l, !.sl = x, !.tps = t, !.rr = r] :
        s \in {460, 509, 510, 700}, c \in BOOLEAN, l \in {0, 700, 799, 1001, 1020, 1334},
        x \in {980, 1000, 1010, -5}, t \in Ladders, r \in {SP!NoRr, 200, 150, 145}}

\* What passes the gates of a close: a strength on the floor, a stop and targets
\* on their sides in order, a second target that pays 1.5, and a first one that
\* the price has not reached.
ASSUME PassedIsSound ==
    \A read \in BentReads, higher \in {"LONG", "SHORT", "NEUTRAL"} :
        SP!Screen(read, higher, 100, SP!NoInfluence) = "ok" =>
            /\ SP!CloseStrength(read, higher, 100, SP!NoInfluence) >= SP!MIN_ADJUSTED_STRENGTH
            /\ read.sl < read.entry
            /\ \A n \in DOMAIN read.tps : read.tps[n] > read.entry
            /\ \A n \in 1..(Len(read.tps) - 1) : read.tps[n] < read.tps[n + 1]
            /\ 2 * (SP!Reward(read.tps) - read.entry) >= 3 * (read.entry - read.sl)
            /\ read.live < read.tps[1]
            /\ read.live # 0 => 4 * SP!Distance(read.live, 1000) <= read.live

\* The mirror image of a reading is judged alike.
Mirrored(read) ==
    [read EXCEPT !.direction = "SHORT", !.live = IF @ = 0 THEN 0 ELSE 2000 - @,
                 !.sl = 2000 - @, !.tps = [n \in DOMAIN @ |-> IF @[n] = 0 THEN 0 ELSE 2000 - @[n]]]
ASSUME GatesAreMirrored ==
    \A read \in {r \in BentReads : r.sl > 0 /\ r.live \in {0, 1001, 1020}} :
        SP!Gates(Mirrored(read), read.strength) = SP!Gates(read, read.strength)

\* A slot's candidate passes the same gates: the 1H reading can only add a
\* refusal or lower the strength.
ASSUME SlotIsStricter ==
    \A read \in {r \in BentReads : r.rr = 200}, h1 \in {[GoodRead EXCEPT !.strength = s, !.direction = d] :
            s \in {300, 600, 900}, d \in {"LONG", "SHORT"}} :
        LET slot == SP!ScreenCandidate(h1, read, 100, SP!NoInfluence) IN
        /\ slot = "ok" => SP!Gates(read, SP!SlotStrength(h1, read, 100, SP!NoInfluence)) = "ok"
        /\ SP!SlotStrength(h1, read, 100, SP!NoInfluence) <= read.strength
        /\ h1.direction = "SHORT" => slot = "TF_GATES"

-----------------------------------------------------------------------------

\* The engine's plan in tenths of the price's unit.
Plan(tf, tier, dir, dist, levels) ==
    LET tps == SP!Targets(dist, LevelPrice, dir, levels, tf, 60, TargetCap(tf, tier)) IN
    [n \in 1..3 |-> 10 * LevelPrice + SP!Sign(dir) * (tps[n] \div 600)]

\* Behind the engine the geometry gate refuses for two reasons only: the reward
\* is too small for the stop, or a short's third target lies below zero, which
\* costs the whole trade.
ASSUME EnginePlansAreWellShaped ==
    \A tf \in {"1H", "1D", "1M"}, tier \in {"mega", "micro"}, dir \in Directions :
        \A dist \in StopsOf(tf, tier) \ {1}, levels \in LevelSets(dir) :
            LET tps == Plan(tf, tier, dir, dist, levels)
                sl == 10 * SP!StopPrice(LevelPrice, dir, dist)
                risk == SP!Distance(sl, 10 * LevelPrice)
                rr == SP!Round(100 * SP!Distance(tps[2], 10 * LevelPrice), risk)
                verdict == SP!Geometry(dir, 10 * LevelPrice, sl, tps, rr)
            IN  /\ verdict \in {"ok", "LOW_RR", "INVALID_GEOMETRY"}
                /\ verdict = "INVALID_GEOMETRY" <=> tps[3] <= 0

-----------------------------------------------------------------------------

Ranks == [avg : {600, 700}, quality : {500, 650}, strength : {550, 720}]
Fields == [strength : {680, 690, 750}, direction : {"LONG", "NEUTRAL"}, entry : {0, 9}, close : {1, 2}]

\* The ranking is a permutation in which no candidate stands before a better one
\* and equals keep their order.
ASSUME RankingIsStable ==
    \A a, b, c \in Ranks :
        LET given == [i \in 1..3 |-> [key |-> <<a, b, c>>[i], i |-> i]]
            list == [i \in 1..3 |-> [avg |-> given[i].key.avg, quality |-> given[i].key.quality,
                                     strength |-> given[i].key.strength, i |-> i]]
            ranked == SP!RankCandidates(list)
        IN  /\ {ranked[n].i : n \in DOMAIN ranked} = 1..3
            /\ \A m, n \in 1..3 : m < n =>
                  /\ ~SP!RankedBefore(ranked[n], ranked[m])
                  /\ SP!RankedBefore(ranked[m], ranked[n]) \/ ranked[m].i < ranked[n].i

\* What may be traded comes from one close, the newest that has a Confirmed row,
\* strongest first: a close without one hands over to an older close only as far
\* back as the run allows.
ASSUME ConfirmedIsFresh ==
    \A a, b, c \in Fields, since \in 1..2 :
        LET rows == <<a, b, c>>
            picked == SP!SelectConfirmed(rows, 690, since)
            usable == {i \in 1..3 : /\ rows[i].strength >= 690 /\ rows[i].direction = "LONG"
                                    /\ rows[i].entry > 0 /\ rows[i].close >= since}
        IN  /\ picked = <<>> <=> usable = {}
            /\ \A n \in DOMAIN picked :
                  /\ picked[n].strength >= 690 /\ picked[n].close >= since
                  /\ \A i \in usable : rows[i].close <= picked[n].close
                  /\ n > 1 => picked[n].strength <= picked[n - 1].strength
            /\ Len(picked) = Cardinality({i \in usable : \A j \in usable : rows[j].close <= rows[i].close})

-----------------------------------------------------------------------------
(* The votes and the strength                                              *)

SS == INSTANCE SignalScore

NoEvent == [way |-> "none", ago |-> 0]
NoLine == [type |-> "none", broken |-> "none", dist |-> 5]
Quiet ==
    [rsi |-> SS!None, slope |-> 0, roc |-> 0, dirs |-> <<>>, cvd |-> "none", spotRatio |-> 1,
     spot |-> "neutral", futures |-> "neutral", funding |-> SS!None, oi |-> 0, oiStrong |-> 50,
     oiQuad |-> 20, move |-> "up", squeeze |-> "none", quadrant |-> "none", book |-> "none",
     bidWall |-> FALSE, askWall |-> FALSE, netflow |-> "none",
     etf |-> [points |-> 0, today |-> 0, week |-> 0], gomining |-> 0, tao |-> 0,
     volume |-> [way |-> "none", ratio |-> 10],
     macro |-> [events |-> FALSE, net |-> 0, imminent |-> FALSE, soon |-> 0, bullFlips |-> 0, bearFlips |-> 0],
     markets |-> 0, isBtc |-> FALSE, regime |-> [alts |-> 0, liquidity |-> 0, oi |-> 0], longShort |-> 0,
     fearGreed |-> SS!None, news |-> [way |-> "neutral", bull |-> 0, bear |-> 0], elliott |-> "neutral",
     divergence |-> [type |-> "none", strength |-> 3, forming |-> FALSE, playedOut |-> FALSE, fresh |-> 100],
     local |-> NoLine, ceiling |-> NoLine, supply |-> "none", demand |-> "none",
     bands |-> [afterSqueeze |-> "none", breakout |-> "none", squeeze |-> FALSE, pctB |-> 50],
     supertrend |-> [way |-> "none", flipped |-> FALSE],
     cloud |-> [color |-> "none", price |-> "inside", cross |-> "none"],
     vwap |-> [cross |-> "none", price |-> "none", slope |-> "flat"], stoch |-> "none",
     macd |-> [cross |-> "none", zero |-> "none", trend |-> "neutral", hist |-> 0],
     ema |-> [above |-> {}, below |-> {}, cross |-> "none", short |-> "none"], stretch |-> SS!None,
     retest |-> [tagged |-> FALSE, up |-> FALSE, down |-> FALSE, candle |-> "none"],
     gapsBelow |-> [plain |-> 0, bags |-> 0], gapsAbove |-> [plain |-> 0, bags |-> 0],
     choch |-> NoEvent, grab |-> NoEvent, acc |-> [way |-> "none", strength |-> 55],
     flags |-> <<>>, reversals |-> <<>>, triangles |-> <<>>, engulfing |-> <<>>, chain |-> <<>>]
Silent == [x \in SS!Themes |-> 0]
Of(groups) == [score |-> SS!Total(groups), groups |-> groups]
Score(m, groups) == SS!FinalScore(m, SS!Trimmed(Of(groups)), "4H")

-----------------------------------------------------------------------------

\* The quiet market says nothing, so what the other checks see is what they moved.
ASSUME QuietIsSilent ==
    \A tf \in DOMAIN SS!CycleWeight : SS!Tally(Quiet, tf) = [score |-> 0, groups |-> Silent]

\* No vote decides alone: forty points, what the strongest of them (pure spot
\* buying) can give, leave the market without a direction by one point.
ASSUME NoVoteDecidesAlone ==
    /\ \A type \in DOMAIN SS!CvdBase, ratio \in {1, 30, 60, 500} :
           SS!Cvd(type, ratio, "bullish", "bullish") \in -40..40
    /\ \A x \in SS!Themes, v \in -40..40 : SS!DirectionOf(Score(Quiet, [Silent EXCEPT ![x] = v])) = "NEUTRAL"

\* A group that leans alone, however many of its votes stack, never gets past
\* the Weak tier; patterns alone never give a direction.
ASSUME LoneGroupIsWeak ==
    /\ \A x \in SS!Themes, v \in -130..130 :
           SS!TierOf(SS!BaseStrength(Score(Quiet, [Silent EXCEPT ![x] = v]))) = "Weak"
    /\ \A v \in -130..130 : SS!DirectionOf(Score(Quiet, [Silent EXCEPT !.pattern = v])) = "NEUTRAL"

\* The score and its groups are rounded apart where the chain is weighed down:
\* the running score stays within a point of the sum of the groups.
ASSUME ScoreFollowsTheGroups ==
    \A tf \in DOMAIN SS!CycleWeight, ribbon \in {"buy", "bear", "neutral"},
       sopr \in {"loss", "profit", "euphoria", "none"}, phase \in {"mid", "early", "late"},
       puell \in {"undervalued", "elevated"}, profit \in {100, 130, 200} :
        LET chain == [ribbon |-> ribbon, sopr |-> sopr, phase |-> phase, puell |-> puell, profit |-> profit,
                      difficulty |-> 30, realized |-> 110, mvrv |-> "none", pi |-> FALSE, heat |-> 0]
            t == SS!Tally([Quiet EXCEPT !.chain = <<chain>>], tf)
        IN  SS!Distance(t.score, SS!Total(t.groups)) <= 1

\* With both flows in the direction of the price, a larger share of futures only
\* lowers the conviction and never turns it.
ASSUME AlignedFlowNeverInverts ==
    \A a, b \in {1, 10, 25, 60} :
        LET CvdAt(type, ratio) == SS!Cvd(type, ratio, "neutral", "neutral")
            Ladder(up) == << CvdAt(IF up THEN "spot_dominated_up" ELSE "spot_dominated_down", a),
                             CvdAt(IF up THEN "spot_heavy_up" ELSE "spot_heavy_down", b),
                             CvdAt(IF up THEN "confirmed_up" ELSE "confirmed_down", b),
                             CvdAt(IF up THEN "futures_heavy_up" ELSE "futures_heavy_down", b),
                             CvdAt(IF up THEN "futures_dominated_up" ELSE "futures_dominated_down", b) >>
        IN  \A i \in 1..5 : /\ Ladder(TRUE)[i] > 0 /\ Ladder(FALSE)[i] = -Ladder(TRUE)[i]
                            /\ i > 1 => Ladder(TRUE)[i] < Ladder(TRUE)[i - 1]

\* The lines mirror: what a broken or a near resistance says of a price, the
\* support at the mirrored distance says the other way.
ASSUME LinesMirror ==
    \A broken \in {"none", "up", "down"}, d \in -80..80 :
        LET Other == CASE broken = "up" -> "down" [] broken = "down" -> "up" [] OTHER -> "none"
            resistance == [type |-> "resistance", broken |-> broken, dist |-> d]
            support == [type |-> "support", broken |-> Other, dist |-> -d]
        IN  /\ SS!LocalLine(resistance) = -SS!LocalLine(support)
            /\ SS!MacroLine(resistance) = -SS!MacroLine(support)

\* The brakes only lower the strength, by no more than their size; the whole of
\* what follows the direction leaves the strength within 0..100.
ASSUME BrakesOnlyLower ==
    \A dir \in {"LONG", "SHORT"}, strength \in {15, 17, 40, 69, 100}, age \in -1..13,
       kind \in {"overbought_top", "oversold_bottom"}, way \in {"bullish", "bearish"} :
        LET brakes == << SS!ReversalDelta(kind, age, dir), SS!ObvDelta(way, FALSE, dir),
                         SS!FibDelta("long", TRUE, dir) >>
        IN  /\ \A k \in 1..3 : brakes[k] \in -6..0
            /\ SS!Settled(strength, brakes) \in SS!Greater(0, strength - 16)..strength
            \* the age of a marker that brakes still counts until it expires
            /\ SS!ReversalDelta(kind, age, dir) # 0 => age \in 0..11
            /\ age \in 1..11 => SS!ReversalDelta(kind, age, dir) >= SS!ReversalDelta(kind, age - 1, dir)

\* The market structure takes at most 18 from a strength and gives at most 8,
\* and the same structure, mirrored at the price, judges a short as it does a long.
ASSUME StructureMirrors ==
    \A offset \in {-70, -35, -20, 0, 20, 35}, touches \in {1, 2, 5}, age \in {-1, 0, 30},
       pos \in {SS!None, 0, 190, 500, 810, 1000}, way \in {"none", "bullish", "bearish"}, laddered \in BOOLEAN :
        LET At(sign) == {[price |-> 1000 + sign * offset, touches |-> touches, swept |-> "false", age |-> age]}
            Structure(sign) ==
                [bars |-> 60, price |-> 1000, atr |-> 100, laddered |-> laddered,
                 pools |-> At(sign), level |-> At(-sign),
                 pos |-> IF pos = SS!None \/ sign = 1 THEN pos ELSE 1000 - pos,
                 bos |-> [way |-> CASE way = "none" \/ sign = 1 -> way [] way = "bullish" /\ sign = -1 -> "bearish"
                                    [] OTHER -> "bullish",
                          count |-> 2, held |-> TRUE, age |-> 3]]
        IN  /\ SS!StructureDelta(Structure(1), "LONG") = SS!StructureDelta(Structure(-1), "SHORT")
            /\ SS!StructureDelta(Structure(1), "LONG") \in -18..8

-----------------------------------------------------------------------------
(* What a reader of the comments would not expect                          *)

\* "4 of 5" earns less than "3 of 5": a fourth group that agrees while the fifth
\* conflicts takes the amplifier of 15 per cent away (signals.py:3266-3306).
ASSUME FourAgreeingWeighLess ==
    /\ SS!Multiplier(3, 1) > SS!Multiplier(4, 1)
    /\ \E a, b \in {[Silent EXCEPT !.trend = 30, !.momentum = 20, !.flow = 20, !.pattern = -10, !.sentiment = s]
                       : s \in {8, 9}} :
           SS!Total(a) < SS!Total(b) /\ Score(Quiet, a) > Score(Quiet, b)

\* A contradiction "pulls the score back toward zero from the trend's side"
\* (signals.py:3053); where flow outweighs the trend it pushes it further away.
ASSUME ContradictionMayAmplify ==
    \E trend \in 9..30, flow \in -48..-9 :
        LET g == [Silent EXCEPT !.trend = trend, !.flow = flow] IN
        SS!Total(g) < 0 /\ SS!Total(g) + SS!AgainstTrend(g, "flow", 20) < SS!Total(g)

\* Trimming a stacked group can turn the score, not only lower it.
ASSUME TrimmingMayTurn ==
    \E trend \in 53..90, flow \in -48..-1, momentum \in -44..-1 :
        LET t == Of([Silent EXCEPT !.trend = trend, !.flow = flow, !.momentum = momentum]) IN
        t.score > 0 /\ SS!Trimmed(t).score < 0

\* The combination named "max short positioning" (signals.py:3085) reads the
\* size of the funding only: longs that pay the most add to a LONG.
ASSUME HotFundingBacksALong ==
    LET g == [Silent EXCEPT !.trend = 30]
        hot == [Quiet EXCEPT !.funding = 500]
    IN  SS!Funding(500) < 0 /\ SS!FundingTrend(hot, g, 30) > 0

\* A divergence that has played out votes nothing, as its comment promises
\* (signals.py:2546-2551), and still counts whole with a MACD cross.
ASSUME SpentDivergenceStillCounts ==
    LET spent == [Quiet EXCEPT !.divergence.type = "bullish", !.divergence.playedOut = TRUE,
                               !.macd.cross = "bullish"]
    IN  SS!RsiDivergence(spent.divergence) = 0 /\ SS!DivergenceAndMacd(spent) = 12

\* The radar counts "many independent signs"; with two readable, one is enough.
ASSUME OneSignElevates ==
    LET m == [Quiet EXCEPT !.ema.above = {50, 200}, !.divergence.type = "bearish", !.bands.pctB = SS!None]
    IN  SS!Radar(m, "1H") = "elevated" /\ SS!RadarVote(m, "1H") = -4

\* The tier is named before the event is weighed: a row called Confirmed may
\* carry a strength of the Strong tier.
ASSUME TierMayLag ==
    \E s \in 69..80 : SS!TierOf(s) = "Confirmed" /\ SS!TierOf(SS!EventAdjusted(s, "bearish", "LONG")) = "Strong"

\* An index of zero is "no data" for its own vote and extreme fear for the news.
ASSUME MissingIndexIsFear ==
    LET bad == [Quiet EXCEPT !.news = [way |-> "bearish", bull |-> 0, bear |-> 4]]
    IN  /\ SS!FearGreed(0, "1D") = 0
        /\ SS!News([bad EXCEPT !.fearGreed = 0], "1D") > SS!News(bad, "1D")

=============================================================================
