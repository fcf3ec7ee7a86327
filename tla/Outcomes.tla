------------------------------ MODULE Outcomes ------------------------------
(***************************************************************************)
(* What is told about the recorded signals: the tracker                    *)
(* (backend/signal_tracker.py and its endpoint), the analytics             *)
(* (signal_analytics.py), the postmortem and its cadence                   *)
(* (postmortem_report.py), the attribution of the score's sections         *)
(* (live_attribution.py) and live against replay (recent_signals.py).      *)
(*                                                                         *)
(* A value that may be missing is the empty set or a singleton.  Prices    *)
(* are in ticks, times in hours, returns, moves and strengths in           *)
(* hundredths.  Of the remarks only which one is given is kept.            *)
(***************************************************************************)
EXTENDS Rounding, FiniteSets, Sequences, FiniteSetsExt, SequencesExt

TERMINAL_STATUSES == {"TP_HIT", "SL_HIT", "CLOSED", "EXPIRED", "CANCELLED"}
HL_EXTRA == "mtf_confluence_hl_extra"
MAX_PAGE_SIZE == 100

Given(rows, Field(_)) ==
    LET known == SelectSeq(rows, LAMBDA r : Field(r) # {})
    IN  [i \in DOMAIN known |-> CHOOSE v \in Field(known[i]) : TRUE]
Ascending(vals) == SortSeq(vals, LAMBDA a, b : a < b)
Total(vals) == FoldLeft(LAMBDA a, b : a + b, 0, vals)
Mean(vals, scale) == IF vals = <<>> THEN {} ELSE {Round(scale * Total(vals), Len(vals))}
Rate(part, whole, scale) == IF whole = 0 THEN {} ELSE {Round(scale * part, whole)}
\* a moment that sorts before every other when it is missing
Moment(at) == Max(at \union {-1})
Newest(rows, n) == SubSeq(rows, 1, Lesser(n, Len(rows)))

-----------------------------------------------------------------------------
(* A row of the tracker                                                    *)

\* batches are named by the hour of Singapore, eight ahead of UTC
SlotFor(at) == {4 * ((t + 8) \div 4) : t \in at}

Signed(dir, from, to) == {Sign(dir) * Round(10000 * (t - f), f) : f \in from \ {0}, t \in to}

Ladder(s, live) ==
    [n \in DOMAIN s.targets |->
        s.targets[n] @@ [distance |-> IF s.targets[n].hit THEN {}
                                      ELSE Signed(s.direction, live, {s.targets[n].price})]]

Judged(status, move) ==
    IF status = "CLOSED"
    THEN IF \E m \in move : m > 0 THEN "WIN" ELSE IF \E m \in move : m < 0 THEN "LOSS" ELSE "BREAKEVEN"
    ELSE CASE status = "TP_HIT" -> "WIN" [] status = "SL_HIT" -> "LOSS"
           [] status \in {"EXPIRED", "CANCELLED"} -> status [] OTHER -> "none"

BuildRow(s, live, now) ==
    LET over == s.status \in TERMINAL_STATUSES
        pending == s.status = "PENDING"
        stop == IF s.moved # {} THEN s.moved ELSE s.stop
        ahead == {n \in DOMAIN s.targets : ~s.targets[n].hit}
        reference == IF over /\ s.close # {} THEN s.close ELSE live
        move == IF pending THEN {} ELSE IF over /\ s.ret # {} THEN s.ret
                ELSE Signed(s.direction, s.entry, reference)
    IN  [s EXCEPT !.stop = stop, !.targets = Ladder(s, live)] @@
        [next |-> IF over \/ ahead = {} THEN {} ELSE {Min(ahead)},
         hits |-> DOMAIN s.targets \ ahead,
         move |-> move,
         r |-> IF pending THEN {}
               ELSE {Round(100 * Sign(s.direction) * (p - e), Distance(e, x)) :
                        <<e, p, x>> \in {t \in s.entry \X reference \X stop : t[1] # t[3]}},
         riskFree |-> \E e \in s.entry, x \in stop : Sign(s.direction) * (x - e) >= 0,
         stopDistance |-> Signed(s.direction, stop, live),
         entryDistance |-> IF pending THEN Signed(s.direction, live, s.entry) ELSE {},
         age |-> {Max(IF s.closed = {} THEN {now} ELSE s.closed) - o : o \in s.opened},
         outcome |-> Judged(s.status, move),
         slot |-> SlotFor(s.opened), republished |-> 1, ids |-> <<s.id>>]

\* what the table says of a row, and what it says to do
Remark(row) ==
    LET gap == UNION {row.targets[n].distance : n \in row.next}
        Some(vals, Test(_)) == \E v \in vals : Test(v)
        stopped == Some(row.stopDistance, LAMBDA v : v <= 0)
        finished == [TP_HIT |-> "all_targets", SL_HIT |-> "stopped_out", CLOSED |-> "closed_manually",
                     EXPIRED |-> IF row.move = {} THEN "stale" ELSE "sideways",
                     CANCELLED |-> IF row.reason = "NEVER_FILLED" THEN "never_filled" ELSE "cancelled"]
        breakeven == IF row.riskFree THEN "stop_is_at_breakeven" ELSE "move_stop_to_entry"
    IN  CASE row.status \in TERMINAL_STATUSES -> <<finished[row.status], "none">>
          [] row.status = "PENDING" ->
                IF row.entryDistance = {} THEN <<"waiting", "none">>
                ELSE IF Some(row.entryDistance, LAMBDA v : v <= 0) THEN <<"entry_reached", "fills_next">>
                ELSE <<"waiting", "cancel_if_senseless">>
          [] row.status = "PARTIAL_TP" ->
                IF stopped THEN <<"through_the_stop", "treat_as_stopped">>
                ELSE <<breakeven, IF Some(gap, LAMBDA v : v < 0) THEN "take_it" ELSE "let_it_run">>
          [] OTHER ->
                IF stopped THEN <<"at_the_stop", "treat_as_stopped">>
                ELSE IF Some(row.move, LAMBDA v : v < 0) THEN <<"underwater", "hold_or_cut">>
                ELSE IF Some(gap, LAMBDA v : v <= 0) THEN <<"through_target", "take_it">>
                ELSE IF Some(gap, LAMBDA v : v <= 50) THEN <<"approaching", "prepare">>
                ELSE <<IF row.move = {} THEN "no_price" ELSE "working", "hold">>

-----------------------------------------------------------------------------
(* The tracker's lists                                                     *)

\* two levels within a quarter of a per cent of each other
CloseEnough(a, b) == \E x \in a, y \in b : x = y \/ 400 * Distance(x, y) <= Greater(Abs(x), Abs(y))

Identified(row) == row.entry # {} /\ row.stop # {}
SamePosition(rep, row) ==
    /\ <<rep.symbol, rep.timeframe, rep.direction, rep.status>> =
          <<row.symbol, row.timeframe, row.direction, row.status>>
    /\ CloseEnough(rep.entry, row.entry) /\ CloseEnough(rep.stop, row.stop)

\* the earlier row lends its levels and its age; what was read off a live price stays
Merge(rep, row) ==
    LET counted == [rep EXCEPT !.republished = @ + 1, !.ids = Append(@, row.id)]
    IN  IF Moment(row.opened) < Moment(rep.opened)
        THEN [counted EXCEPT !.opened = row.opened, !.age = row.age, !.id = row.id, !.slot = row.slot,
                             !.entry = row.entry, !.stop = row.stop, !.targets = row.targets]
        ELSE counted

CollapseRepublished(rows) ==
    LET Place(out, row) ==
            LET same == {i \in DOMAIN out : /\ Identified(out[i]) /\ Identified(row)
                                            /\ SamePosition(out[i], row)}
            IN  IF same = {} THEN Append(out, row) ELSE [out EXCEPT ![Min(same)] = Merge(@, row)]
    IN  FoldLeft(Place, <<>>, rows)

\* newest batch first; the rows of no batch come last
GroupBySlot(rows) ==
    LET Note(seen, r) == IF Contains(seen, r.slot) THEN seen ELSE Append(seen, r.slot)
        order == SortSeq(FoldLeft(Note, <<>>, rows), LAMBDA a, b : Moment(a) > Moment(b))
    IN  [n \in DOMAIN order |-> [slot |-> order[n],
                                 rows |-> SelectSeq(rows, LAMBDA r : r.slot = order[n])]]

Summarise(all) ==
    LET rows == SelectSeq(all, LAMBDA r : r.reason # "NEVER_FILLED")
        Many(o) == Len(SelectSeq(rows, LAMBDA r : r.outcome = o))
        moves == Given(rows, LAMBDA r : r.move)
    IN  [closed |-> Len(rows), neverFilled |-> Len(all) - Len(rows),
         count |-> [o \in {"WIN", "LOSS", "EXPIRED", "CANCELLED", "BREAKEVEN"} |-> Many(o)],
         winRate |-> Rate(Many("WIN"), Many("WIN") + Many("LOSS"), 1000),
         avgMove |-> Mean(moves, 1), best |-> IF moves = <<>> THEN {} ELSE {Max(ToSet(moves))}]

BuildTracker(active, closed, prices, now, days) ==
    LET Rows(sigs) == [i \in DOMAIN sigs |-> BuildRow(sigs[i], prices[sigs[i].symbol], now)]
        Latest(r) == IF r.closed # {} THEN r.closed ELSE r.opened
        inWindow == SelectSeq(closed, LAMBDA s : \E t \in Latest(s) : t >= now - 24 * days)
    IN  [live |-> SortSeq(CollapseRepublished(Rows(active)),
                          LAMBDA a, b : Moment(a.opened) > Moment(b.opened)),
         closed |-> SortSeq(Rows(inWindow), LAMBDA a, b : Moment(Latest(a)) > Moment(Latest(b)))]

\* What the endpoint reads, newest publication first: the page is cut before
\* the rows of the extra strategy are left out.
TrackerRead(active, closed, days) ==
    LET Published(rows) == SelectSeq(rows, LAMBDA s : s.strategy # HL_EXTRA)
        most == IF days <= 3 THEN 50 ELSE MAX_PAGE_SIZE * (IF days <= 31 THEN 4 ELSE 20)
    IN  [active |-> Published(Newest(active, MAX_PAGE_SIZE)), closed |-> Published(Newest(closed, most))]

\* a price from the cache, or the ticker's when it answers within the budget
TrackerPrices(wanted, cached, ticker, inTime) ==
    [s \in wanted |-> IF cached[s] # {} THEN cached[s] ELSE IF s \in inTime THEN ticker[s] ELSE {}]

-----------------------------------------------------------------------------
(* The class of a closed row: the sign of its return, whatever its status  *)

ClassifyOutcome(r) ==
    CASE r.status = "CANCELLED" -> "cancelled"
      [] r.status \in {"PENDING", "OPEN", "PARTIAL_TP"} -> "open"
      [] OTHER ->
            IF r.ret = {} THEN IF r.status = "EXPIRED" THEN "expired" ELSE "scratch"
            ELSE IF r.ret = {0} THEN "scratch" ELSE IF \E v \in r.ret : v > 0 THEN "win" ELSE "loss"

Of(rows, outcomes) == SelectSeq(rows, LAMBDA r : ClassifyOutcome(r) \in outcomes)
Resolved == {"win", "loss", "scratch", "expired"}

-----------------------------------------------------------------------------
(* The analytics                                                           *)

MIN_BUCKET == 5

\* four times the k-th quartile, interpolated
Quartile(vals, k) ==
    LET pos == k * (Len(vals) - 1)
        low == pos \div 4
    IN  IF vals = <<>> THEN {}
        ELSE {vals[low + 1] * (4 - (pos % 4)) + vals[Lesser(low + 2, Len(vals))] * (pos % 4)}

WinExpectancy(rows) ==
    LET Many(o) == Len(Of(rows, {o}))
        returns == Given(Of(rows, Resolved), LAMBDA r : r.ret)
    IN  [n |-> Len(rows), filled |-> Len(rows) - Many("cancelled") - Many("open"),
         decided |-> Many("win") + Many("loss"),
         count |-> [o \in Resolved \union {"cancelled", "open"} |-> Many(o)],
         winRate |-> Rate(Many("win"), Many("win") + Many("loss"), 1000),
         expectancy |-> Mean(returns, 100),
         total |-> IF returns = <<>> THEN {} ELSE {Total(returns)},
         thin |-> Many("win") + Many("loss") < MIN_BUCKET]

\* Weak, Moderate, Strong, Confirmed
STRENGTH_TIERS == <<0..3299, 3300..5099, 5100..6899, 6900..100000>>
StrengthCalibration(rows) ==
    LET stats == [t \in DOMAIN STRENGTH_TIERS |->
                    WinExpectancy(SelectSeq(rows, LAMBDA r : \E v \in r.confidence : v \in STRENGTH_TIERS[t]))]
        trusted == {t \in DOMAIN stats : ~stats[t].thin}
        rising == \A a, b \in trusted : a < b => Max(stats[a].winRate) <= Max(stats[b].winRate)
    IN  [buckets |-> stats, monotonic |-> IF Cardinality(trusted) < 2 THEN {} ELSE {rising}]

ExcursionStats(rows, field) ==
    LET vals == Ascending(Given(rows, LAMBDA r : r[field]))
    IN  [n |-> Len(vals), quarter |-> [k \in 1..3 |-> Quartile(vals, k)]]
ExcursionReport(rows) ==
    LET Both(o) == [field \in {"mfe", "mae"} |-> ExcursionStats(Of(rows, {o}), field)]
    IN  [winners |-> Both("win"), losers |-> Both("loss"), stopFloor |-> Both("win").mae.quarter[3]]

TargetReach(rows) ==
    LET considered == SelectSeq(rows, LAMBDA r : r.mfe # {} /\ r.tps # <<>>)
        Reached(i) == SelectSeq(considered, LAMBDA r : i <= Len(r.tps) /\ Max(r.mfe) >= Abs(r.tps[i]))
    IN  [considered |-> Len(considered), reached |-> [i \in 1..3 |-> Len(Reached(i))],
         rate |-> [i \in 1..3 |-> Rate(Len(Reached(i)), Len(considered), 10000)]]

Held(r) == {c - o : <<o, c>> \in {t \in r.opened \X r.closed : t[1] <= t[2]}}
Medians(rows) == Quartile(Ascending(Given(rows, Held)), 2)

TimingReport(rows) ==
    [win |-> Medians(Of(rows, {"win"})), loss |-> Medians(Of(rows, {"loss"})),
     slot |-> [h \in {0, 4, 8, 12, 16, 20} |->
                WinExpectancy(SelectSeq(rows, LAMBDA r : \E t \in r.opened : 4 * ((t % 24) \div 4) = h))]]

FillFunnel(rows) ==
    LET never == Len(Of(rows, {"cancelled"}))
    IN  [total |-> Len(rows), never |-> never, filled |-> Len(rows) - never,
         neverRate |-> Rate(never, Len(rows), 1000),
         expiredRate |-> Rate(Len(Of(rows, {"expired"})), Len(rows), 1000)]

\* the best of the trusted, the first of equals in the given order
BestOf(order, worth) ==
    LET able == {i \in DOMAIN order : worth[order[i]] # {}}
    IN  IF able = {} THEN {}
        ELSE {order[Min({i \in able : \A k \in able : Max(worth[order[k]]) <= Max(worth[order[i]])})]}

\* a day's return on the capital at risk; a trade held for less than an hour counts one
FrameStats(rows, tf) ==
    LET group == SelectSeq(rows, LAMBDA r : r.timeframe = tf)
        stats == WinExpectancy(group)
    IN  stats @@ [perDay |-> {Round(96 * e, Greater(m, 4)) : e \in stats.expectancy, m \in Medians(group)}]
TimeframeEfficiency(rows, frames) ==
    LET stats == [tf \in ToSet(frames) |-> FrameStats(rows, tf)]
        worth == [tf \in ToSet(frames) |-> IF stats[tf].thin THEN {} ELSE stats[tf].perDay]
    IN  [frames |-> stats, best |-> BestOf(frames, worth)]

SESSIONS == [ASIA |-> 0..6, LONDON |-> 7..12, US |-> 13..20, LATE |-> 21..23]
SessionOf(r) == {s \in DOMAIN SESSIONS : \E t \in r.opened : t % 24 \in SESSIONS[s]}
SessionPerformance(rows) ==
    LET stats == [s \in DOMAIN SESSIONS |-> WinExpectancy(SelectSeq(rows, LAMBDA r : s \in SessionOf(r)))]
        worth == [s \in DOMAIN SESSIONS |-> IF stats[s].thin THEN {} ELSE stats[s].expectancy]
    IN  [sessions |-> stats, best |-> BestOf(<<"ASIA", "LONDON", "US", "LATE">>, worth)]

-----------------------------------------------------------------------------
(* The postmortem                                                          *)

MIN_COHORT == 5

\* The warnings, each as far as the snapshot can say it.  A reading that was
\* recorded as none opposes nothing; one that was not recorded says nothing.
Flags(r) ==
    LET s == r.snap
        Against(reading, up, down) == {v = (IF r.direction = "LONG" THEN down ELSE up) : v \in reading}
        Told(factor) == IF s.factors = {} THEN {} ELSE {factor \in UNION s.factors}
        Toward(dir) == IF dir = "LONG" THEN "long" ELSE "short"
    IN  [structure |-> {a < 0 : a \in s.structure}, sweepZone |-> s.blocked,
         reversal |-> Told("against"), chase |-> Told("chase"),
         disagreed |-> {Abs(v) >= 2000 : v \in s.spread}, thin |-> {v < 150 : v \in s.rr},
         violent |-> {v = "extreme" \/ v = "elevated" : v \in s.regime}, degraded |-> s.degraded,
         btc |-> s.btc, squeeze |-> {a < 0 : a \in s.squeeze \ {0}},
         rsiDivergence |-> Against(s.rsiDivergence, "bullish", "bearish"),
         obvDivergence |-> Against(s.obvDivergence, "bullish", "bearish"),
         playedOut |-> {v /\ s.rsiDivergence \notin {{}, {"none"}} : v \in s.playedOut},
         fib |-> {s.inPocket /\ v # "none" /\ v # Toward(r.direction) : v \in s.fib},
         rsiReversal |-> Against(s.rsiReversal, "oversold_bottom", "overbought_top")]

\* told: what each row says of the warning
FlagRate(told) ==
    LET Many(v) == Len(SelectSeq(told, LAMBDA t : t = v))
    IN  [present |-> Many({TRUE}), absent |-> Many({FALSE}), unknown |-> Many({}),
         rate |-> Rate(Many({TRUE}), Many({TRUE}) + Many({FALSE}), 10000)]

Powered(rows) == \A o \in {"win", "loss"} : Len(Of(rows, {o})) >= MIN_COHORT

\* how much more often a warning came before a loss than before a win
Discriminator(rows, name) ==
    LET Told(side) == [i \in DOMAIN side |-> Flags(side[i])[name]]
        losers == FlagRate(Told(Of(rows, {"loss"})))
        winners == FlagRate(Told(Of(rows, {"win"})))
        unbounded == losers.rate \notin {{}, {0}} /\ winners.rate = {0}
        lift == {Round(100 * l, w) : l \in losers.rate, w \in winners.rate \ {0}}
    IN  [feature |-> name, losers |-> losers, winners |-> winners, lift |-> lift, unbounded |-> unbounded,
         over |-> Powered(rows) /\ losers.present >= 2 /\ (unbounded \/ \E v \in lift : v >= 150)]

\* unbounded ones first, then by the lift, then in the order of the list
Discriminators(rows, names) ==
    LET found == [i \in DOMAIN names |-> Discriminator(rows, names[i])]
        Key(i) == IF found[i].unbounded THEN 1000000 ELSE Max(found[i].lift \union {-1})
        order == SortSeq([i \in DOMAIN names |-> i],
                         LAMBDA i, j : Key(i) > Key(j) \/ (Key(i) = Key(j) /\ i < j))
    IN  [k \in DOMAIN names |-> found[order[k]]]

\* did a loser first run as far as it risked?
RanFirst(r) == {m >= x : m \in r.mfe, x \in {v \in r.stopPct : v > 0}}
StopPlacement(rows) ==
    LET losers == Of(rows, {"loss"})
        share == FlagRate([i \in DOMAIN losers |-> RanFirst(losers[i])]).rate
    IN  IF share = {} THEN "no_data" ELSE IF Max(share) >= 5000 THEN "stop"
        ELSE IF Max(share) <= 2000 THEN "signal" ELSE "mixed"

GroupBy(rows, field) ==
    LET trades == Of(rows, Resolved)
    IN  [k \in {trades[i][field] : i \in DOMAIN trades} |->
            WinExpectancy(SelectSeq(trades, LAMBDA r : r[field] = k))]

\* Closes per day, in thousandths, since the first publication among the rows,
\* and the tenths of a day until there are as many as wanted.
CadenceReport(rows, now, targets) ==
    LET closes == Len(Of(rows, Resolved))
        elapsed == now - Min({now} \union UNION {rows[i].opened : i \in DOMAIN rows})
        perDay == IF elapsed > 0 /\ closes > 0 THEN {Round(24000 * closes, elapsed)} ELSE {}
    IN  [closes |-> closes, perDay |-> perDay, soft |-> elapsed < 72 \/ closes < 3,
         eta |-> [t \in targets |-> IF closes >= t THEN {0}
                                    ELSE {Round(10000 * (t - closes), v) : v \in perDay \ {0}}]]

\* Both readers ask for a page at most, whatever limit was meant.
CadenceRead(published, limit) == Newest(published, Clamp(1, limit, MAX_PAGE_SIZE))

-----------------------------------------------------------------------------
(* live_attribution.py: the points a section gave, signed with the trade   *)

Contributions(r) ==
    LET sections == {k \in DOMAIN r.breakdown : r.breakdown[k] # 0}
        brakes == {k \in DOMAIN r.brakes : r.brakes[k] # 0}
    IN  [k \in sections |-> Sign(r.direction) * r.breakdown[k]] @@ [k \in brakes |-> r.brakes[k]]

\* what trades returned when the section pushed with them, against all others
Edge(rows, section, minWith) ==
    LET usable == SelectSeq(rows, LAMBDA r : r.status # "CANCELLED" /\ r.ret # {})
        Pushed(r) == section \in DOMAIN Contributions(r) /\ Contributions(r)[section] > 0
        with == Given(SelectSeq(usable, Pushed), LAMBDA r : r.ret)
        rest == Given(SelectSeq(usable, LAMBDA r : ~Pushed(r)), LAMBDA r : r.ret)
    IN  IF Len(with) < minWith \/ rest = <<>> THEN {}
        ELSE {Round(10 * (Total(with) * Len(rest) - Total(rest) * Len(with)), Len(with) * Len(rest))}

-----------------------------------------------------------------------------
(* recent_signals.py: a slot of the replay beside what was recorded live   *)

CAP == 6800
FLOOR == 6900
SHOW_FROM == 6200

WhyCapped(c) ==
    (IF c.chased /\ c.before > CAP THEN {"chase"} ELSE {}) \union
    {"split" : x \in {t \in c.h1 \X c.h2 : Abs(t[1] - t[2]) >= 2000}}

Compare(cands, live) ==
    LET pairs == {<<c, x>> \in cands \X live : <<c.slot, c.coin, c.direction>> = <<x.slot, x.coin, x.direction>>}
        gaps == MapThenSumSet(LAMBDA p : p[2].strength - p[1].strength, pairs)
        Many(set, Test(_)) == Cardinality({e \in set : Test(e)})
    IN  [replay |-> Many(cands, LAMBDA c : c.strength >= FLOOR),
         capped |-> Many(cands, LAMBDA c : c.before >= FLOOR /\ c.strength < FLOOR),
         live |-> Many(live, LAMBDA x : x.strength >= FLOOR),
         atCap |-> Many(live, LAMBDA x : x.strength = CAP),
         gap |-> Rate(gaps, 10 * Cardinality(pairs), 1),
         shown |-> {e.slot : e \in {c \in cands : c.before >= SHOW_FROM} \union
                                   {x \in live : x.strength >= SHOW_FROM}}]

=============================================================================
