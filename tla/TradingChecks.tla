--------------------------- MODULE TradingChecks ----------------------------
(***************************************************************************)
(* Sizing and the records of the exchange, and the rules of the scalps,    *)
(* over bounded inputs: candles made of three noises of different lengths, *)
(* and the edges of the rules' steps.                                      *)
(***************************************************************************)
EXTENDS Integers, Sequences, FiniteSets, SequencesExt, FiniteSetsExt

(* Orders and fills                                                        *)

HZ == INSTANCE HLSizing

SizeCfg == [notional |-> 25, leverage |-> 3, least |-> 10, maxExposure |-> 100, cap |-> 20,
            fraction |-> 500]
Assets == [listed : {TRUE}, q : {1, 10, 1000}, maxLev : {1, 2, 50}]

\* What is opened costs no more than was asked for and no less than the exchange
\* takes, fits the collateral, and with a fill five per cent worse still fits
\* under the cap together with what is open.
ASSUME OpenedFits ==
    \A asset \in Assets, mark \in 1..40, exposure \in {0, 60, 73, 74, 80}, free \in {HZ!Unknown, 0, 8, 9, 25} :
        LET lots == HZ!Lots(SizeCfg.notional, mark, asset.q)
            sig == [entry |-> mark, sl |-> HZ!NoPrice]
        IN  HZ!Judge(asset, sig, mark, exposure, free, SizeCfg) = "ok" =>
                /\ lots * mark <= 25 * asset.q /\ lots * mark >= 10 * asset.q
                /\ (lots + 1) * mark > 25 * asset.q
                /\ 100 * exposure * asset.q + 105 * lots * mark <= 10000 * asset.q
                /\ free # HZ!Unknown => lots * mark <= 3 * free * asset.q

\* The price of an order that opens is at most half the stop's distance away:
\* never at or past the stop, and never further than 2 per cent.
ASSUME DriftStaysShortOfTheStop ==
    \A entry \in {500, 1000}, sl \in {485, 499, 900, 960, 999, 1001, 1100}, mark \in 470..530 \union 970..1030 :
        LET long == sl < entry IN
        ~HZ!Stale(entry, sl, mark, SizeCfg) =>
            /\ long => mark > sl
            /\ ~long => mark < sl
            /\ 50 * HZ!Abs(entry - mark) <= entry
            /\ 2 * HZ!Abs(mark - sl) >= HZ!Abs(entry - sl)

\* But it may be past a first target that a wall put nearer than that: the
\* nearest level at 0.4 of the risk makes one at 0.388.
ASSUME DriftMayPassTheTarget ==
    \E mark \in 1000..1020 : mark > 1000 + 15 /\ ~HZ!Stale(1000, 960, mark, SizeCfg)

\* The two targets close the whole size, each part large enough for the exchange
\* and the first no larger than its share; a size of two parts is not split when
\* a lot is coarse or the second target of a short lies low.
ASSUME SplitIsWhole ==
    /\ \A lots \in 0..60, q \in {1, 10}, tp1, tp2 \in {0, 3, 10, 24}, fraction \in {50, 70} :
          LET split == HZ!PlanTpSplit(lots, q, tp1, tp2, fraction, 10) IN
          split # HZ!NoSplit =>
              /\ split[1] + split[2] = lots /\ split[1] > 0 /\ split[2] > 0
              /\ split[1] * tp1 >= 10 * q /\ split[2] * tp2 >= 10 * q
              /\ 100 * split[1] <= fraction * lots
    /\ HZ!PlanTpSplit(HZ!Lots(25, 9, 1), 1, 10, 11, 50, 10) # HZ!NoSplit
    /\ HZ!PlanTpSplit(HZ!Lots(25, 12, 1), 1, 11, 9, 50, 10) = HZ!NoSplit

\* An accepted price has five significant figures on the asset's step, is the
\* nearest to within a step, and rounding again changes nothing; order is kept,
\* but two prices may fall together, and one below half a step becomes none.
RoundedPrices == {1, 4, 5, 49, 50, 12344, 12345, 99994, 99995, 100004, 100005, 123449, 123450, 999949,
                  999950, 9999949, 9999950, 12345678}
ASSUME PriceIsAccepted ==
    \A px \in RoundedPrices, step \in {1, 10, 1000} :
        LET rounded == HZ!RoundPrice(px, step) IN
        /\ rounded % step = 0 /\ rounded % HZ!SigStep(px) = 0
        /\ 2 * HZ!Abs(rounded - px) <= step + HZ!SigStep(px)
        /\ HZ!RoundPrice(rounded, step) = rounded
        /\ \A lower \in RoundedPrices : lower < px => HZ!RoundPrice(lower, step) <= rounded
        /\ 2 * px < step => rounded = HZ!NoPrice

\* The placed stop is never nearer than the signal's and stays above zero.
ASSUME StopIsOnlyMovedAway ==
    \A sl \in {100, 500, 1000}, atr \in {0, 30, 600, 5000} :
        LET long == HZ!PlacedStop(TRUE, sl, atr) IN
        long <= sl /\ long > 0 /\ HZ!PlacedStop(FALSE, sl, atr) = sl + atr

-----------------------------------------------------------------------------

\* Reading page by page loses and repeats nothing as long as the pages suffice
\* and no page is filled by one moment: such a page is read for ever.
History(times) == [i \in DOMAIN times |-> [id |-> i, time |-> times[i]]]
Times == {t \in [1..5 -> 1..5] : \A i \in 1..4 : t[i] <= t[i + 1]}
Crowded(times, size) == \E m \in 1..5 : Cardinality({i \in 1..5 : times[i] = m}) >= size
ASSUME PagesLoseNothing ==
    \A times \in Times, start \in 1..2, size \in 2..3 :
        LET fills == History(times)
            paged == HZ!FillsPaged(fills, start, size, 6)
            asked == SelectSeq(fills, LAMBDA f : f.time >= start)
        IN  /\ ~Crowded(times, size) => paged = asked
            /\ IsPrefix(paged, asked)
            /\ start = 1 /\ times = <<1, 1, 1, 2, 3>> => paged # asked

\* Two round trips of one coin, the first closed in two parts.
Fill(time, tid, signed, start, pnl) ==
    [time |-> time, tid |-> tid, signed |-> signed, start |-> start, pnl |-> pnl]
Trips(a, b, tids, second) ==
    <<Fill(1, 1, 2, 0, 0), Fill(a, tids[1], -1, 2, 5), Fill(b, tids[2], -1, 1, 7),
      Fill(6, 4, second, 0, 0), Fill(7, 5, -second, second, -3)>>

\* Read from the start, every round trip is one trade with its own profit; read
\* from later on, what is missing is the entry, never an exit of the window.
ASSUME RoundTripsAreWhole ==
    \A a \in 2..3, b \in 4..5, tids \in {<<2, 3>>, <<3, 2>>}, second \in {2, -2}, from \in 1..5 :
        LET fills == SubSeq(Trips(a, b, tids, second), from, 5)
            trades == HZ!ClosedTrades(fills, 0)
        IN  /\ Len(trades) = IF from <= 3 THEN 2 ELSE 1
            /\ from = 1 => /\ trades[1].pnl = 12 /\ trades[1].side = 1
                           /\ trades[1].closes = 2 /\ trades[1].complete
            /\ trades[Len(trades)].pnl = -3
            /\ trades[Len(trades)].complete <=> from <= 4
            /\ FoldLeft(LAMBDA sum, t : sum + t.pnl, 0, trades)
                   = FoldLeft(LAMBDA sum, f : sum + f.pnl, 0, fills)

\* Two fills of one moment are put in the order of their names, which is not the
\* order they happened in: then the first trade ends early, and what is left of
\* it swallows the next trade, whatever its direction.
ASSUME SameMomentIsScrambled ==
    \A second \in {2, -2} :
        LET right == HZ!ClosedTrades(Trips(3, 3, <<2, 3>>, second), 0)
            wrong == HZ!ClosedTrades(Trips(3, 3, <<3, 2>>, second), 0)
        IN  /\ right[1].pnl = 12 /\ right[2].pnl = -3
            /\ Len(wrong) = 2 /\ wrong[1].pnl = 7 /\ wrong[2].pnl = 2
            /\ wrong[2].side = 1 /\ ~wrong[2].complete

-----------------------------------------------------------------------------
(* The scalps                                                              *)

SR == INSTANCE ScalpSetups

Both == {"LONG", "SHORT"}
Noise(x) == ((((x % 1009) * (x % 997)) \div 7) % 13) - 6
\* The close of candle k: a swing over sixteen candles, one over five, and the candle's own
CloseOf(seed, k) ==
    1000 + 4 * Noise(97 * seed + (k \div 16)) + 2 * Noise(89 * seed + (k \div 5)) + Noise(83 * seed + k)
\* n candles, each opening where the last one closed
Walk(seed, n) ==
    [k \in 1..n |->
        LET close == CloseOf(seed, k)
            open == CloseOf(seed, k - 1)
            wick == Noise(79 * seed + 3 * k) + 6
        IN  [close |-> close, high |-> SR!Greater(close, open) + (wick % 4),
             low |-> SR!Lesser(close, open) - (wick \div 4)]]
Walks(seeds, n) == {SR!Seen(Walk(seed, n), dir) : seed \in seeds, dir \in Both}
Upto(bars, n) == SubSeq(bars, 1, n)

-----------------------------------------------------------------------------
(* Reading the candles                                                     *)

\* No look-ahead: the setups of the first n candles are the ones of the whole
\* walk that were complete by then, so a replay enters where the live pass did.
ASSUME SweepsHaveNoLookAhead ==
    \A bars \in Walks(1..30, 48), n \in {30, 39, 44} :
        SR!SweepSetups(Upto(bars, n), 0, 15) = {s \in SR!SweepSetups(bars, 0, 15) : s.ready <= n}

\* The longer sequence promises the same (sweep_fvg.py:171-175); its scan skips
\* the candles of a setup it finds, so a setup seen while an earlier sweep is
\* still open is gone once that one completes: live has it, a replay has not.
ASSUME SmcMayForget ==
    \E bars \in Walks({163}, 50), n \in 38..42 :
        \E s \in SR!SmcSetups(Upto(bars, n), 0) : s \notin SR!SmcSetups(bars, 0)

\* Whatever the candles, the stop stands behind the price, the target ahead of
\* it, and the reward is at least one and a half risks.
ASSUME ExitsStandApart ==
    \A bars \in Walks(1..25, 40), i \in {14, 15, 30, 40} :
        \A e \in SR!Exits(bars, i) :
            /\ e.sl < 28000 * bars[i].close /\ 28000 * bars[i].close < e.target
            /\ e.rr >= 10 * SR!TARGET_R

-----------------------------------------------------------------------------
(* The score and the size                                                  *)

Reads(turn, divergence, fib, level) == [turn |-> turn, divergence |-> divergence, fib |-> fib, level |-> level]

\* Context never carries a weak read: it adds at most 25 points, the reversal
\* reads at most 15 of them, however many agree.
ASSUME ContextIsCapped ==
    \A a, b, c, d \in {0, 500, 833, 1000}, structure \in DOMAIN SR!StructurePoints :
        LET reads == Reads(a, b, c, d) IN
        /\ SR!ReversalPoints(reads) \in 0..150
        /\ SR!Score(0, structure, reads, 0) \in SR!Greater(SR!StructurePoints[structure], SR!ReversalPoints(reads))..250

\* The hourly candles are fetched only for a score they can still lift or sink
\* across the floor; leaving them out changes no outcome.
ASSUME SkippedFetchChangesNothing ==
    \A base \in {0, 349, 350, 400, 449, 450, 499, 500, 550, 600}, structure \in DOMAIN SR!StructurePoints,
       w \in {0, 333, 1000}, h1 \in {"LONG", "SHORT", "none"}, rr \in {149, 150}, needs \in BOOLEAN :
        LET r == [fresh |-> TRUE, dir |-> "LONG", base |-> base, structure |-> structure,
                  reads |-> Reads(w, 0, 0, 0), h1 |-> h1, exits |-> {[rr |-> rr]}]
            asked == SR!Score(base, structure, r.reads, SR!H1Vote(h1, "LONG"))
            result == SR!Blend(r, 600, 150, needs)
        IN  result.is = "scalp" <=>
                /\ asked >= 600 /\ rr >= 150 /\ (needs => w > 0)
                \* and a scalp carries the score with the hourly vote
                /\ result.score = asked

\* A Fibonacci zone that names no side speaks for a short (scalp_live.py:366-374).
ASSUME UnsidedFibSellsShort ==
    LET a == [markers |-> {}, fib |-> [inZone |-> TRUE, void |-> FALSE, bias |-> "none"],
              divergence |-> [type |-> "none", playedOut |-> FALSE, forming |-> FALSE, age |-> SR!None],
              support |-> SR!None, resistance |-> SR!None]
    IN  SR!Weight(SR!ReversalReads(a, "SHORT")) = 1000 /\ SR!Weight(SR!ReversalReads(a, "LONG")) = 0

\* The stop costs no more than the risk, to the cent, and the margin times the
\* leverage carries the position, within the exchange's own maximum.
ASSUME SizeKeepsToItsBudget ==
    \A dist \in {0, 1, 2, 3, 8, 20, 77, 200}, cap \in {SR!None, 50, 500, 5000, 50000}, hlMax \in {0, 1, 3, 50},
       risk \in {1, 2, 5}, margin \in {25, 50} :
        LET p == SR!SizePlan(1000, 1000 - dist, cap, hlMax, risk, margin) IN
        /\ p.notional * dist <= 100000 * risk + dist
        /\ p.notional <= 100 * margin * p.leverage
        /\ p.leverage \in 1..p.cap /\ (hlMax # 0 => p.cap <= hlMax)

-----------------------------------------------------------------------------
(* A running scalp                                                         *)

Total(ladder) == SR!FoldLeft(LAMBDA sum, t : sum + t.size, 0, ladder)
Some(n) == {s \in SUBSET {90, 96, 104, 110, 111, 120} : Cardinality(s) <= n}

\* A ladder sells the whole position and no more, in at most three shares each
\* worth the exchange's minimum, all ahead of the price, and never gives up the
\* furthest target it had.
ASSUME LadderSellsThePosition ==
    \A old \in Some(3), new \in {95, 104, 107, 130}, size \in {0, 1, 2, 3, 7, 100}, least \in {100, 1000} :
        LET levels == {p \in old : p > 100}
            ladder == SR!TpLadder(levels, new, size, "LONG", 100, least)
        IN  ladder # <<>> =>
                /\ Total(ladder) = size /\ Len(ladder) <= SR!MAX_TPS
                /\ \A k \in DOMAIN ladder : ladder[k].px > 100
                /\ Len(ladder) > 1 => \A k \in DOMAIN ladder : ladder[k].size * 100 >= least
                /\ \A p \in levels \union {new} : p <= ladder[Len(ladder)].px

\* A fresh signal and an add only tighten: the stop they leave is at least as
\* near as every stop that stood, and still behind the price; an add without a
\* stop behind the price is not made.
ASSUME ChangesOnlyTighten ==
    \A dir \in Both, sl \in {90, 97, 100, 104, 112}, stops \in Some(2), entry \in {95, 100, 105},
       mode \in {"any", "better", "winning"} :
        LET setup == [sl |-> sl, target |-> 130]
            st == SR!ExitState({[px |-> p, trigger |-> TRUE, kind |-> "stop"] : p \in stops}, dir, 100)
            plan == SR!PlanUpdate(setup, st, 10, dir, 100, 1)
            add == SR!PlanAdd(mode, setup, st, entry, dir, 100, 0, 2)
        IN  /\ \A s \in plan.sl, old \in stops : SR!Ahead(dir, s, old)
            /\ \A s \in plan.sl \union add : SR!Ahead(dir, 100, s)
            /\ \A s \in add, old \in stops : s = old \/ SR!Ahead(dir, s, old)
            /\ stops = {} /\ ~SR!Ahead(dir, 100, sl) => add = {}

\* A scalp half of which was stopped and half of which reached its target comes
\* out as "breakeven"; one that lost between a quarter and a half of its risk as
\* "other".  Neither is remembered as a stop-out, so the coin may be entered
\* again at once.
ScalpFill(open, px, sz) == [coin |-> "c", time |-> 1, open |-> open, px |-> px, sz |-> sz, pnl |-> 0, fee |-> 0]
Ended(fills) == {s.reason : s \in SR!Settle(fills, [coin |-> "c", dir |-> "LONG", placed |-> 0, sl |-> 900, target |-> 1150],
                                            FALSE, 9)}
ASSUME LossesThatAreNoStop ==
    LET SoldAt(px) == Ended(<<ScalpFill(TRUE, 1000, 2), ScalpFill(FALSE, px, 2)>>)
    IN  /\ Ended(<<ScalpFill(TRUE, 1000, 2), ScalpFill(FALSE, 900, 1), ScalpFill(FALSE, 1150, 1)>>) = {"breakeven"}
        /\ \A px \in 951..974 : SoldAt(px) = {"other"}
        /\ \A px \in 850..950 : SoldAt(px) = {"stop"}

-----------------------------------------------------------------------------
(* The guard                                                               *)

GuardSettings ==
    [newPerCandle |-> 2, maxOpen |-> 3, perSide |-> [LONG |-> 2, SHORT |-> 2], maxRisk |-> 250000,
     maxExtension |-> 200, minRoom |-> 50, minNetRr |-> 110, minStopLeft |-> 50, cooldown |-> 240,
     hotReads |-> 3, hotTps |-> 2, hotPause |-> 30, winTps |-> 2, winWindow |-> 60, winBatch |-> 2, winPause |-> 30,
     hotGuard |-> TRUE, winPauseOn |-> TRUE]
Wish == [dir : Both, risk : {60000, 130000}, add : BOOLEAN]

\* Whatever a pass wants to enter, in whatever order, what it commits stays
\* within every limit.
ASSUME BatchStaysWithin ==
    LET Take(b, w) == IF SR!Check(b, w.dir, w.risk, w.add, GuardSettings) = "none"
                      THEN SR!Commit(b, w.dir, w.risk, w.add) ELSE b
        Held(n) == {[coin |-> k, dir |-> IF k = 1 THEN "LONG" ELSE "SHORT", entry |-> 1000, sl |-> 985, dollars |-> 275] : k \in 1..n}
    IN  \A n \in 0..2, w1, w2, w3 \in Wish :
            LET b == Take(Take(Take(SR!BatchOf(Held(n), 0), w1), w2), w3) IN
            /\ b.open <= 3 /\ b.candle <= 2 /\ b.risk <= 250000
            /\ \A d \in Both : b.side[d] <= 2
            /\ b.open = b.side["LONG"] + b.side["SHORT"]

\* The prices at which an order may still go out form one interval around the
\* planned entry: neither rule leaves a hole.
ASSUME LiveCheckIsAnInterval ==
    \A stop \in {950, 980, 990}, target \in {1015, 1030, 1060} :
        LET Fine == {m \in 940..1070 : SR!LiveReasons("LONG", m, stop, target, 1000, GuardSettings) = {}} IN
        /\ \A a, b \in Fine : a..b \subseteq Fine
        /\ \A m \in Fine : stop < m /\ m < target

\* A coin that was stopped out is not entered the same way before the cooldown
\* and a candle without a setup, whatever comes in between; only the other
\* direction, a later exit of another kind or a week's forgetting frees it.
Stopped(reads) == SR!Observe(SR!RecordExit(<<>>, <<"c", "LONG">>, "stop", 100), "c", reads, 115)
ASSUME StopOutHolds ==
    \A seen \in {<<>>, [LONG |-> TRUE], [LONG |-> FALSE], [SHORT |-> FALSE], [LONG |-> TRUE, SHORT |-> FALSE]},
       now \in {115, 339, 340, 10179, 10180} :
        LET memory == SR!Prune(Stopped(seen), now) IN
        /\ SR!ReentryBlock(memory, <<"c", "SHORT">>, now, GuardSettings) = "none"
        /\ SR!ReentryBlock(memory, <<"c", "LONG">>, now, GuardSettings) = "none" <=>
               now >= 10180 \/ (now >= 340 /\ seen = [LONG |-> FALSE])

\* A candle that is worked through twice counts once: the pauses and the counts
\* it leaves are the ones of the first time.
Heats ==
    {SR!HeatUpdate(SR!HeatUpdate(SR!HeatTarget(SR!HeatTarget(SR!NoHeat, d, 10), "LONG", t), 15, c1, 16, GuardSettings), 30, c2, 31, GuardSettings) :
        d \in Both, t \in {15, 17, 29}, c1, c2 \in [Both -> {0, 2}]}
ASSUME RepeatedCandleCountsOnce ==
    \A h \in Heats, slot \in {30, 45, 75}, count \in [Both -> {0, 1, 3}] :
        LET once == SR!HeatUpdate(h, slot, count, slot + 1, GuardSettings) IN
        /\ SR!HeatUpdate(once, slot, count, slot + 1, GuardSettings) = once
        /\ \A d \in Both : once.until[d] \in {h.until[d], slot + GuardSettings.hotPause}

\* Of a burst that is over a pause ends: a candle without a setup and without a
\* new target starts none, however full the hour still is.
ASSUME SpentBurstStartsNothing ==
    \A h \in Heats :
        LET next == SR!HeatUpdate(h, 45, [d \in Both |-> 0], 46, GuardSettings) IN
        (\A k \in DOMAIN h.targets : h.targets[k].at <= h.last) => next.until = h.until

=============================================================================
