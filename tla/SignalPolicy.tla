---------------------------- MODULE SignalPolicy ----------------------------
(***************************************************************************)
(* backend/rec_policy.py and close_publish.screen: which reading of a coin *)
(* may be published, with what strength, in what order; and                *)
(* hl_autoexec.select_confirmed: which published row may be traded.        *)
(*                                                                         *)
(* Strengths and points are in tenths, the reward over the risk in         *)
(* hundredths, prices are integers (0 or less is no price).  A reading has *)
(* the fields tradeable, invalid, degraded, direction, strength, chased,   *)
(* signal, live (its prices), entry, sl, tps and rr.                       *)
(***************************************************************************)
EXTENDS SignalLevels, Sequences, SequencesExt

Sides == {"LONG", "SHORT"}
MIN_ADJUSTED_STRENGTH == 510
CONFIRMED_TIER_FLOOR == 690
TIER_DEMOTE_CAP == 680
TF_SPLIT_GAP == 200
MIN_RR == 150
HTF_POINTS == 50
NoRr == -1
NoStrength == -1

\* passes_tf_gates
PassesTfGates(h1, h2) ==
    /\ h1.tradeable /\ h2.tradeable
    /\ h1.direction \in Sides /\ h1.direction = h2.direction

\* btc_influence: scale is a hundred times the root of the strength's share, and
\* the on-chain score moves bonus and penalty by a fifth at most
BtcInfluence(dir, strength, onchain) ==
    [direction |-> dir,
     scale |-> CHOOSE r \in 0..100 : r * r <= 10 * strength /\ 10 * strength < (r + 1) * (r + 1),
     bonus |-> Round(12 * (800 + 4 * onchain), 100),
     penalty |-> Round(18 * (800 + 4 * onchain), 100)]
NoInfluence == BtcInfluence("NEUTRAL", 0, 50)

\* apply_btc_adjustment; corr in hundredths
BtcAdjust(dir, strength, corr, btc) ==
    LET Points(most) == Round(most * btc.scale * corr, 10000) IN
    IF btc.direction \notin Sides THEN strength
    ELSE IF btc.direction = dir THEN Lesser(1000, strength + Points(btc.bonus))
    ELSE Greater(0, strength - Points(btc.penalty))

\* apply_tier_calibration
Calibrate(strength, h1, h2, chased) ==
    LET spread == Distance(h1, h2)
        split == NoStrength \notin {h1, h2} /\ spread >= TF_SPLIT_GAP
        capped == IF chased \/ split THEN Lesser(strength, TIER_DEMOTE_CAP) ELSE strength
        docked == IF split THEN Round(2 * capped - (spread - TF_SPLIT_GAP), 2) ELSE capped
    IN  IF strength >= MIN_ADJUSTED_STRENGTH THEN Greater(docked, MIN_ADJUSTED_STRENGTH) ELSE docked

StrengthTier(s) ==
    IF s >= CONFIRMED_TIER_FLOOR THEN "Confirmed" ELSE IF s >= 510 THEN "Strong"
    ELSE IF s >= 330 THEN "Moderate" ELSE "Weak"

\* price_divergence_ok: a quarter of the live price; an absent price passes
PriceOk(signal, live) ==
    signal = 0 \/ live <= 0 \/ 4 * Distance(signal, live) <= live

\* recompute_rr and validate_geometry_and_rr, as the reason of the refusal
Reward(tps) == IF Len(tps) >= 2 THEN tps[2] ELSE tps[1]
WellShaped(dir, entry, sl, tps) ==
    LET s == Sign(dir) IN
    /\ dir \in Sides /\ entry > 0 /\ sl > 0 /\ s * (entry - sl) > 0
    /\ tps # <<>>
    /\ \A n \in DOMAIN tps : tps[n] > 0 /\ s * (tps[n] - entry) > 0
    /\ \A n \in DOMAIN tps : n > 1 => s * (tps[n] - tps[n - 1]) > 0

Geometry(dir, entry, sl, tps, stored) ==
    LET reward == Distance(Reward(tps), entry)
        risk == Distance(sl, entry)
    IN  IF ~WellShaped(dir, entry, sl, tps) THEN "INVALID_GEOMETRY"
        ELSE IF /\ stored # NoRr
                /\ Distance(stored * risk, 100 * reward) > 10 * Greater(risk, reward)
        THEN "INVALID_RR"
        ELSE IF 100 * reward < MIN_RR * risk THEN "LOW_RR" ELSE "ok"

\* targets_behind_live: the numbers of the targets the price has passed
TargetsBehind(dir, tps, live) ==
    IF live <= 0 THEN {}
    ELSE {n \in DOMAIN tps : tps[n] > 0 /\ Sign(dir) * (tps[n] - live) <= 0}

\* the gates that the close post and the slot share, in their order
LiveOf(read) == IF read.live = 0 THEN read.signal ELSE read.live
Gates(read, strength) ==
    LET geometry == Geometry(read.direction, read.entry, read.sl, read.tps, read.rr) IN
    IF ~PriceOk(read.signal, LiveOf(read)) THEN "PRICE_DIVERGENCE"
    ELSE IF strength < MIN_ADJUSTED_STRENGTH THEN "MIN_STRENGTH"
    ELSE IF geometry # "ok" THEN geometry
    ELSE IF 1 \in TargetsBehind(read.direction, read.tps, LiveOf(read)) THEN "TP1_BEHIND_LIVE"
    ELSE "ok"

\* close_publish.screen; higher is the direction of the timeframe above, NEUTRAL
\* when it cannot be read
CloseStrength(read, higher, corr, btc) ==
    LET nudge == IF higher = read.direction THEN HTF_POINTS
                 ELSE IF higher \in Sides THEN -HTF_POINTS ELSE 0
        nudged == Clamp(0, BtcAdjust(read.direction, read.strength, corr, btc) + nudge, 1000)
    IN  Calibrate(nudged, NoStrength, NoStrength, read.chased)
Screen(read, higher, corr, btc) ==
    IF ~read.tradeable \/ read.invalid THEN "NOT_TRADEABLE"
    ELSE IF read.direction \notin Sides THEN "NEUTRAL"
    ELSE Gates(read, CloseStrength(read, higher, corr, btc))

\* screen_candidate: the 2H reading, confirmed by the 1H one
SlotStrength(h1, h2, corr, btc) ==
    Calibrate(BtcAdjust(h2.direction, h2.strength, corr, btc), h1.strength, h2.strength, h2.chased)
ScreenCandidate(h1, h2, corr, btc) ==
    IF ~PassesTfGates(h1, h2) THEN "TF_GATES" ELSE Gates(h2, SlotStrength(h1, h2, corr, btc))

-----------------------------------------------------------------------------
(* Ranking: a candidate has the fields avg, quality and strength.          *)

\* rec_quality of a candidate with reward rr; the 4H direction and the reversal
\* radar against the trade weigh on it
RecQuality(strength, dir, rr, htf, against, exhausted, flips, degraded) ==
    LET points ==
            (IF rr = NoRr THEN 0 ELSE IF rr >= 300 THEN 100 ELSE IF rr >= 200 THEN 50
             ELSE IF rr < MIN_RR THEN -120 ELSE 0)
            + (IF htf \notin Sides THEN 0 ELSE IF htf = dir THEN 80 ELSE -100)
            + (CASE against = "high" -> -150 [] against = "elevated" -> -80 [] OTHER -> 0)
            + (IF exhausted THEN -60 ELSE 0)
            + (IF flips >= 2 THEN 40 ELSE 0)
            + (IF degraded THEN -60 ELSE 0)
    IN  Greater(0, strength + points)

\* avg_tf_strength: to a tenth, in twentieths it is exact
AvgTfStrength(h1, h2) == Round(h1.strength + h2.strength, 2)

\* rank_candidates
RankedBefore(c, d) ==
    \/ c.avg > d.avg
    \/ c.avg = d.avg /\ c.quality > d.quality
    \/ c.avg = d.avg /\ c.quality = d.quality /\ c.strength > d.strength
RankCandidates(candidates) ==
    LET ranked == SortSeq([i \in DOMAIN candidates |-> i],
            LAMBDA i, j : \/ RankedBefore(candidates[i], candidates[j])
                          \/ ~RankedBefore(candidates[j], candidates[i]) /\ i < j)
    IN  [n \in DOMAIN ranked |-> candidates[ranked[n]]]

-----------------------------------------------------------------------------
(* select_confirmed: a row has the fields strength, direction, entry and   *)
(* close (its candle's); floor is the strength asked for, since the first  *)
(* close that is not too old.                                              *)

SelectConfirmed(rows, floor, since) ==
    LET usable == {i \in DOMAIN rows :
                      /\ rows[i].strength >= floor
                      /\ rows[i].direction \in Sides /\ rows[i].entry > 0
                      /\ rows[i].close >= since}
        latest == {i \in usable : \A j \in usable : rows[j].close <= rows[i].close}
        order == SelectSeq([i \in DOMAIN rows |-> i], LAMBDA i : i \in latest)
        ranked == SortSeq(order, LAMBDA i, j : \/ rows[i].strength > rows[j].strength
                                               \/ rows[i].strength = rows[j].strength /\ i < j)
    IN  [n \in DOMAIN ranked |-> rows[ranked[n]]]
=============================================================================
