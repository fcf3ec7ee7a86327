---------------------------- MODULE PatternMemory ---------------------------
(***************************************************************************)
(* backend/pattern_persist.py: a confirmed breakout is remembered by its   *)
(* fixed lines and levels until it hits its target, fails or expires.      *)
(*                                                                         *)
(* A rail is a record with the fields t0, p0, t1, p1; a detected pattern   *)
(* has key (its type and direction), direction, confirmed, breakTs,        *)
(* target, upper and lower; a candle has ts, high, low and close.  Times   *)
(* and prices are integers.                                                *)
(***************************************************************************)
EXTENDS Integers, Sequences, FiniteSets, FiniteSetsExt

MAX_TRACKED == 6
FAILURE_SHOW_BARS == 3
NoDate == -1

CeilDiv(a, b) == -((-a) \div b)

\* _interp: the price of a rail at a time
Interp(line, ts) == line.p0 + ((line.p1 - line.p0) * (ts - line.t0)) \div (line.t1 - line.t0)

\* _apex_ts: the first time at which the rails have met
Apex(upper, lower) ==
    LET narrowing == (lower.p1 - lower.p0) - (upper.p1 - upper.p0) IN
    IF narrowing = 0 THEN NoDate
    ELSE IF narrowing > 0
    THEN upper.t0 + CeilDiv((upper.p0 - lower.p0) * (upper.t1 - upper.t0), narrowing)
    ELSE upper.t0 - ((upper.p0 - lower.p0) * (upper.t1 - upper.t0)) \div (-narrowing)

\* record_from_pattern: only a confirmed breakout is worth a record
Trackable(p) == p.confirmed /\ p.direction \in {"bullish", "bearish"}
RecordFrom(p, now) ==
    LET bullish == p.direction = "bullish" IN
    [key |-> p.key, direction |-> p.direction, breakTs |-> p.breakTs, target |-> p.target,
     breakLevel |-> Interp(IF bullish THEN p.upper ELSE p.lower, p.breakTs),
     failLevel |-> Interp(IF bullish THEN p.lower ELSE p.upper, p.breakTs),
     apex |-> Apex(p.upper, p.lower), eta |-> 2 * p.breakTs - p.upper.t0,
     lastSeen |-> now]

\* a is at least as far as b in the direction of the breakout
AtLeast(rec, a, b) == IF rec.direction = "bullish" THEN a >= b ELSE a <= b

Deadlines(rec) == {rec.apex, rec.eta} \ {NoDate}
Since(rec, candles) == {i \in DOMAIN candles : candles[i].ts >= rec.breakTs}

\* the closes back through the failure level
FailingCloses(rec, candles) ==
    {candles[i].ts : i \in {j \in Since(rec, candles) :
                               ~AtLeast(rec, candles[j].close, rec.failLevel)}}

\* the move from the break level to the best price since is given back whole,
\* with at least 3% of the level as room
GivenBack(rec, candles, price) ==
    LET since == Since(rec, candles)
        room == CeilDiv(3 * rec.breakLevel, 100)
        run == IF rec.direction = "bullish"
               THEN Max({candles[i].high : i \in since}) - rec.breakLevel
               ELSE rec.breakLevel - Min({candles[i].low : i \in since})
        give == IF run > room THEN run ELSE room
    IN  /\ since # {}
        /\ IF rec.direction = "bullish" THEN price < rec.breakLevel - give
                                        ELSE price > rec.breakLevel + give

\* _fresh_bars within FAILURE_SHOW_BARS: a time that is no candle's is old
StillNew(candles, ts) ==
    \E i \in DOMAIN candles : candles[i].ts = ts /\ Len(candles) - i <= FAILURE_SHOW_BARS

\* reevaluate
Reevaluate(rec, candles, price, now) ==
    LET failing == FailingCloses(rec, candles)
        failTs == IF failing # {} THEN Min(failing) ELSE now
    IN  IF AtLeast(rec, price, rec.target) THEN "target_hit"
        ELSE IF \E d \in Deadlines(rec) : now >= d THEN "expired"
        ELSE IF failing = {} /\ ~GivenBack(rec, candles, price) THEN "live"
        ELSE IF StillNew(candles, failTs) THEN "failed" ELSE "expired"

\* reconcile: what is tracked after the capture, what is kept, what is shown.
\* The stored list holds one record per key; of records with the same break bar
\* the cap counts one.
New(fresh, records) ==
    {i \in DOMAIN fresh : Trackable(fresh[i]) /\ \A r \in records : r.key # fresh[i].key}
Captured(fresh, records) ==
    {i \in New(fresh, records) :
        \A j \in New(fresh, records) : j < i => fresh[j].key # fresh[i].key}
Tracked(fresh, records, now) ==
    records \union {RecordFrom(fresh[i], now) : i \in Captured(fresh, records)}

\* to_display_pattern of the verdict
Card(rec, verdict) ==
    [key |-> rec.key, target |-> rec.target, tracked |-> TRUE,
     status |-> IF verdict = "live" THEN "confirmed" ELSE verdict]

Survivors(fresh, records, candles, price, now) ==
    {[r EXCEPT !.lastSeen = now] :
        r \in {s \in Tracked(fresh, records, now) :
                  Reevaluate(s, candles, price, now) \in {"live", "failed"}}}

Reconcile(fresh, records, candles, price, now) ==
    LET all == Tracked(fresh, records, now)
        Verdict(r) == Reevaluate(r, candles, price, now)
        survivors == Survivors(fresh, records, candles, price, now)
        Newer(r) == {s \in survivors : s.breakTs > r.breakTs}
    IN  [display |-> {Card(r, Verdict(r)) : r \in {s \in all : Verdict(s) # "expired"}}
             \union {[key |-> fresh[i].key, target |-> fresh[i].target, tracked |-> FALSE,
                      status |-> IF fresh[i].confirmed THEN "confirmed" ELSE "forming"] :
                        i \in {j \in DOMAIN fresh : \A r \in all : fresh[j].key # r.key}},
         records |-> {r \in survivors : Cardinality(Newer(r)) < MAX_TRACKED}]
=============================================================================
