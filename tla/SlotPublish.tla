----------------------------- MODULE SlotPublish -----------------------------
(***************************************************************************)
(* app.py's 4H publication, which runs by hand since the close trades took *)
(* its place: what a scan chooses, the batch of a slot that concurrent     *)
(* publishers complete (publication_batch.py), the post about it, and what *)
(* is told about its trades.                                               *)
(*                                                                         *)
(* Minutes are since midnight UTC.  Strengths and boosts are in tenths.    *)
(***************************************************************************)
EXTENDS Replay

PUBLICATION_INTERVAL == 240
SlotStart(minute) == minute - (minute % PUBLICATION_INTERVAL)
\* _is_publication_bar, _rec_cache_key and _slot_envelope
IsPublicationBar(close) == close % PUBLICATION_INTERVAL = 0
Envelope(minute) == [from |-> SlotStart(minute), until |-> SlotStart(minute) + PUBLICATION_INTERVAL]
\* _hl_auto_execute_catch_up
CatchesUp(minute) == minute - SlotStart(minute) <= 60
\* _daily_rec_scheduler: the hour after the present one that starts a slot, at two past
NextWake(minute) ==
    LET hour == (minute \div 60) * 60
    IN  Min({t \in (hour + 60)..(hour + 300) : t % PUBLICATION_INTERVAL = 0}) + 2

-----------------------------------------------------------------------------
(* What a scan chooses.                                                    *)

\* only these coins have their 4H chart read
NeedsH4(coins, reads) ==
    {sym \in coins \ {BTC} : \E h1 \in reads[sym]["1H"], h2 \in reads[sym]["2H"] : PassesTfGates(h1, h2)}
LiveCandidate(sym, reads, corr, btc) ==
    Candidate(sym, reads, corr, btc, \E r \in reads["1H"] \union reads["2H"] : r.degraded)

\* order is the one in which the coins' first charts arrived
Scan(order, reads, corr, btc) ==
    LET Verdict(sym) == Screened(reads[sym], corr[sym], btc)
        passing == SelectSeq(order, LAMBDA sym : sym # BTC /\ Verdict(sym) = "ok")
        ranked == RankCandidates([n \in DOMAIN passing |->
                      LiveCandidate(passing[n], reads[passing[n]], corr[passing[n]], btc)])
    IN  [ranked |-> ranked, top |-> Pub!SelectPublishable(ranked, PUBLISH_TOP_N),
         expired |-> SelectSeq(order, LAMBDA sym : sym # BTC /\ Verdict(sym) = "TP1_BEHIND_LIVE")]

\* _channel_min_strength and _split_channel; {} is no setting
ChannelFloor(setting) ==
    IF \E v \in setting : v \in 0..1000 THEN CHOOSE v \in setting : TRUE ELSE CONFIRMED_TIER_FLOOR
SplitChannel(top, floor) ==
    [signals |-> SelectSeq(top, LAMBDA c : c.strength >= floor),
     watch |-> SelectSeq(top, LAMBDA c : c.strength < floor)]

\* the daily lists that boost an extra: {} when nothing fresh is stored
BOTTOM_READ_KINDS == {"rsi_swing", "divergence", "divergence_forming"}
DAILY_READS_MAX_AGE == 30 * 60
BoostOf(setting, default) ==
    IF \E v \in setting : v \in 0..200 THEN CHOOSE v \in setting : TRUE ELSE default
StoredDailyReads(stored, now) == {list \in stored : now - list.at <= DAILY_READS_MAX_AGE}
BottomReads(stored, now, sym) ==
    {r.direction : r \in {r \in UNION {list.reads : list \in StoredDailyReads(stored, now)} :
        r.coin = sym /\ r.tf = "1D" /\ r.kind \in BOTTOM_READ_KINDS /\ r.direction \in Sides}}
DailyMomentum(closes, now) == {sym \in DOMAIN closes : now - closes[sym] \in 0..(24 * 60 - 1)}

\* _hl_extra_candidates; boosts gives the two boosts, switch whether extras are
\* recorded and traded at all
HL_EXTRA_MAX == 3
HlExtras(switch, candidates, published, floor, bottoms, momentum, boosts) ==
    LET Boost(c) == (IF c.direction \in bottoms[c.coin] THEN boosts.bottom ELSE 0)
                    + (IF c.direction = "LONG" /\ c.coin \in momentum THEN boosts.momentum ELSE 0)
        own == {published[i].coin : i \in {i \in DOMAIN published : published[i].strength >= floor}}
        Take(acc, c) ==
            IF c.coin \in acc.taken \/ c.strength + Boost(c) < floor THEN acc
            ELSE [taken |-> acc.taken \union {c.coin},
                  picks |-> Append(acc.picks, [c EXCEPT !.strength = @ + Boost(c)])]
        picks == FoldLeft(Take, [taken |-> own, picks |-> <<>>], candidates).picks
        order == SortSeq([i \in DOMAIN picks |-> i],
                     LAMBDA i, j : \/ picks[i].strength > picks[j].strength
                                   \/ picks[i].strength = picks[j].strength /\ i < j)
        first == SubSeq(order, 1, Lesser(HL_EXTRA_MAX, Len(order)))
    IN  IF switch THEN [n \in DOMAIN first |-> picks[first[n]]] ELSE <<>>

\* _observed_patterns: what the log gets of one analysis
Observed(a) ==
    {[kind |-> "rsi_divergence", direction |-> IF d.bullish THEN "LONG" ELSE "SHORT"] :
        d \in {d \in a.divergence : d.status # "none"}}
    \union {[kind |-> b.kind, direction |-> IF b.signal = "bullish" THEN "LONG" ELSE "SHORT"] :
        b \in {b \in a.breaks : b.signal # "none" /\ b.status # "none"}}
    \union {[kind |-> "flag", direction |-> a.flags[i].direction] :
        i \in {i \in DOMAIN a.flags : i <= 3 /\ a.flags[i].status # "none"}}
    \union {[kind |-> "triangle", direction |-> a.triangles[i].direction] :
        i \in {i \in DOMAIN a.triangles : i <= 3 /\ a.triangles[i].status # "none"}}

-----------------------------------------------------------------------------
(* The slot, as the steps of publishers, of notifiers and of a deployment. *)
(* A scan has channel and extras, sets of the records a row is made of     *)
(* (key names its coin and candle, sound that it passes the store's        *)
(* validation), a watchlist, and boosted.  earlier holds the keys that the *)
(* slot before recorded.                                                   *)

Shared(earlier, start) ==
    [batch |-> {}, rows |-> {}, earlier |-> earlier, marker |-> {}, boosted |-> {}, audit |-> {},
     post |-> [claimed |-> FALSE, sent |-> <<>>, excused |-> 0], version |-> 1, pc |-> start,
     scan |-> [r \in DOMAIN start |-> {}], recs |-> [r \in DOMAIN start |-> {}]]

Goto(st, r, step) == [st EXCEPT !.pc[r] = step]
TheBatch(st) == CHOOSE b \in st.batch : TRUE
\* what the slot's window shows of the channel
Visible(st) == {row \in st.rows : row[1] = "channel"}
\* _slot_decided: the batch when there is one, else the marker
SlotDecided(st) == IF st.batch # {} THEN TheBatch(st).done ELSE st.marker # {}
RowsOf(scan) == ({"channel"} \X {c.key : c \in scan.channel}) \union ({"extra"} \X {c.key : c \in scan.extras})

\* freeze: the first decision stays
Freeze(st, r) ==
    LET own == CHOOSE s \in st.scan[r] : TRUE IN
    IF st.batch = {}
    THEN [st EXCEPT !.batch = {[payload |-> own, version |-> st.version, done |-> FALSE]}] ELSE st

\* resume, one transaction under the batch's lock: every row or none
Resume(st, r, after) ==
    LET b == TheBatch(st)
        written == [st EXCEPT !.rows = @ \union {row \in RowsOf(b.payload) : row \notin st.earlier},
                              !.batch = {[b EXCEPT !.done = TRUE]}]
    IN  IF b.version # st.version THEN {Goto(st, r, "failed")}
        ELSE IF b.done THEN {Goto(st, r, after)}
        ELSE {Goto(st, r, "failed")}
             \union (IF \A c \in b.payload.channel \union b.payload.extras : c.sound
                     THEN {Goto(written, r, after)} ELSE {})

\* api_cron_publish; a read that fails answers like an empty one
Publish(st, r, scans) ==
    CASE st.pc[r] = "recover" -> IF st.batch = {} THEN {Goto(st, r, "look")} ELSE Resume(st, r, "remark")
      [] st.pc[r] = "remark" ->
            {Goto(s, r, "over") : s \in {st, [st EXCEPT !.marker = {TheBatch(st).payload.watch}]}}
      [] st.pc[r] = "look" ->
            {Goto(st, r, "scan"),
             Goto(st, r, IF SlotDecided(st) THEN "over" ELSE IF Visible(st) # {} THEN "failed" ELSE "scan")}
      [] st.pc[r] = "scan" -> {Goto([st EXCEPT !.scan[r] = {s}], r, "gate") : s \in scans}
      [] OTHER -> {}

\* the audit keeps the first entry: who was chosen may be another scan's than the rest
Audited(st, own, chosen) ==
    [st EXCEPT !.audit = IF @ = {} THEN {[seen |-> own, selected |-> {c.key[1] : c \in chosen.channel}]} ELSE @]

\* what _compute_recommendations writes once its scan is made
Record(st, r) ==
    IF st.scan[r] = {} THEN {} ELSE
    LET own == CHOOSE s \in st.scan[r] : TRUE IN
    CASE st.pc[r] = "gate" ->
            {Goto(st, r, "boost"),
             Goto(st, r, IF SlotDecided(st) \/ Visible(st) # {} THEN "aside" ELSE "boost")}
      [] st.pc[r] = "boost" ->
            {Goto(s, r, "freeze") :
                s \in {st, IF own.boosted = {} THEN st ELSE [st EXCEPT !.boosted = own.boosted]}}
      [] st.pc[r] = "freeze" -> {Goto(Freeze(st, r), r, "resume"), Goto(st, r, "failed")}
      [] st.pc[r] = "resume" -> Resume(st, r, "mark")
      [] st.pc[r] = "mark" ->
            {Goto(s, r, "audit") : s \in {st, [st EXCEPT !.marker = {TheBatch(st).payload.watch}]}}
      [] st.pc[r] = "aside" -> {Goto(s, r, "over") : s \in {st, Audited(st, own, own)}}
      [] st.pc[r] = "audit" -> {Goto(s, r, "over") : s \in {st, Audited(st, own, TheBatch(st).payload)}}
      [] OTHER -> {}

-----------------------------------------------------------------------------
(* The slot's post.  claimed is its key in the KV, sent what the channel   *)
(* has been sent, and excused counts what lets one more go out: a post     *)
(* that arrived and was reported as failed, a claim that a file answered   *)
(* for the KV, and a person's press of the button.                         *)

Told(post, recs) == [post EXCEPT !.sent = Append(@, recs)]
Excused(post) == [post EXCEPT !.excused = @ + 1]
MaybeClaimed(post) == {[post EXCEPT !.claimed = c] : c \in {post.claimed, TRUE}}
MaybeReleased(post) == {[post EXCEPT !.claimed = c] : c \in {post.claimed, FALSE}}

\* Each gives the outcomes <<post, where the request goes>>.
\* claim: when the command raised, executed or not, the request's own file answers
Claiming(post) ==
    {<<[post EXCEPT !.claimed = TRUE], IF post.claimed THEN "over" ELSE "send">>}
    \union {<<p, "over">> : p \in MaybeClaimed(post)}
    \union {<<Excused(p), "send">> : p \in MaybeClaimed(post)}
\* the send: an exception after the channel took the message is a failure too,
\* and a failure gives the key back if the KV can be reached
Sending(post, recs) ==
    {<<Told(post, recs), "over">>}
    \union {<<p, "failed">> : p \in MaybeReleased(post) \union MaybeReleased(Excused(Told(post, recs)))}
\* api_telegram_send: whatever was sent before, and the key is claimed after it
Pressing(post, recs) ==
    {<<p, "over">> : p \in MaybeClaimed(Excused(Told(post, recs)))}
    \union {<<p, "failed">> : p \in {post, Excused(Told(post, recs))}}

Outcomes(st, r) ==
    CASE st.pc[r] = "claim" -> Claiming(st.post)
      [] st.pc[r] = "send" -> Sending(st.post, st.recs[r])
      [] st.pc[r] = "pressing" -> Pressing(st.post, st.recs[r])
      [] OTHER -> {}

\* _notify_persisted_slot with _dispatch_once, and api_telegram_send ("press")
Notify(st, r) ==
    CASE st.pc[r] \in {"read", "press"} ->
            {Goto(st, r, "failed"),
             Goto([st EXCEPT !.recs[r] = Visible(st)], r,
                  IF Visible(st) = {} THEN "over" ELSE IF st.pc[r] = "read" THEN "check" ELSE "pressing")}
      [] st.pc[r] = "check" -> {Goto(st, r, "failed"), Goto(st, r, IF SlotDecided(st) THEN "claim" ELSE "failed")}
      [] OTHER -> {Goto([st EXCEPT !.post = o[1]], r, o[2]) : o \in Outcomes(st, r)}

Halted(step) == step \in {"over", "failed"}
SlotSteps(st, scans) ==
    UNION {Publish(st, r, scans) \union Record(st, r) \union Notify(st, r)
           \union (IF Halted(st.pc[r]) THEN {} ELSE {Goto(st, r, "failed")}) : r \in DOMAIN st.pc}

-----------------------------------------------------------------------------
(* What is told about the slot and its trades.                             *)

\* _rec_from_row: the columns, and the stored card laid over them
CARD_KEYS ==
    {"strength", "display_strength", "h1_strength", "h2_strength", "avg_tf_strength", "aligned_tfs",
     "rr_ratio", "sl_pct", "tp_pcts", "leverage", "vol_tier", "vol_tier_label", "btc_consensus",
     "btc_corr", "btc_adj", "btc_aligned", "btc_conflict", "mtf_dirs", "mtf_adj", "mtf_aligned",
     "mtf_confirm", "mtf_counter", "reasons", "view_tf", "detected_at"}
COLUMNS ==
    {"symbol", "direction", "timeframe", "entry", "sl", "tp_targets", "signal_id", "persisted",
     "actionable", "published_at", "candle_close_time", "status"}
BuildCard(rec) == [f \in CARD_KEYS \intersect DOMAIN rec |-> rec[f]]
RecFromRow(columns, card) == card @@ columns

\* _live_data_split, in tenths of a point toward the trade, with the largest three
LIVE_DATA_SECTIONS ==
    {"funding", "open_interest", "oi_squeeze_fuel", "squeeze_priming", "order_book", "netflow",
     "etf_flows", "macro", "tradfi", "market_regime", "gomining", "tao", "long_short_ratio",
     "fear_greed", "news", "btc_onchain", "combo_funding_trend", "combo_hash_ribbon",
     "combo_btc_cycle", "btc_cycle_top", "combo_macro_inflection", "combo_etf_reversal"}
LiveDataSplit(breakdown, dir) ==
    LET live == SelectSeq(breakdown, LAMBDA p : p[1] \in LIVE_DATA_SECTIONS /\ p[2] # 0)
        toward == [i \in DOMAIN live |-> <<live[i][1], Sign(dir) * live[i][2]>>]
        pts == FoldLeft(LAMBDA sum, p : sum + p[2], 0, toward)
        order == SortSeq([i \in DOMAIN toward |-> i],
                     LAMBDA i, j : \/ Distance(toward[i][2], 0) > Distance(toward[j][2], 0)
                                   \/ Distance(toward[i][2], 0) = Distance(toward[j][2], 0) /\ i < j)
    IN  [pts |-> pts, strength |-> Round(100 * pts, 220),
         top |-> [n \in 1..Lesser(3, Len(order)) |-> toward[order[n]]],
         cvd |-> Sign(dir) * MapThenSumSet(LAMBDA i : breakdown[i][2],
                                           {i \in DOMAIN breakdown : breakdown[i][1] = "cvd"})]
\* _live_data_summary, over the candidates' splits
LiveDataSummary(splits) ==
    LET effects == [i \in DOMAIN splits |-> splits[i].strength]
        Named(name) == FoldLeft(LAMBDA sum, s : sum + FoldLeft(LAMBDA a, p : IF p[1] = name THEN a + p[2] ELSE a,
                                                               0, s.top), 0, splits)
    IN  [candidates |-> Len(splits), average |-> Round(SumR(effects), Len(splits)),
         cost |-> Len(SelectSeq(effects, LAMBDA e : e <= -50)),
         helped |-> Len(SelectSeq(effects, LAMBDA e : e >= 50)),
         sections |-> [name \in UNION {{p[1] : p \in Range(s.top)} : s \in Range(splits)} |-> Named(name)]]

\* _kv_append_json: the log of a key keeps the last six entries
HL_RUN_LOG_MAX == 6
Logged(log, entry) == Newest(Append(log, entry), HL_RUN_LOG_MAX)
\* _record_hl_signal_runs: a coin that the market's mood held back is logged too
SignalRuns(results, skipped) ==
    [i \in DOMAIN results |-> [coin |-> results[i].coin, reason |-> results[i].reason]]
    \o [i \in DOMAIN skipped |-> [coin |-> skipped[i].coin,
            reason |-> IF skipped[i].reason = "none" THEN "LOW_VOLATILITY" ELSE skipped[i].reason]]

\* _hl_history_verdict: e has the fields listed and placed ("yes", "no" or
\* "unknown"), status and filled (of the order), runs (the reasons logged for
\* the signal, oldest first), stale (whether the alert was sent), slotRuns
\* (whether each run of the slot ran)
ROUTINE_RUN_REASONS == {"ALREADY_PLACED", "POSITION_EXISTS"}
HL_LIVE_ORDER_STATES == {"open", "triggered"}
RunVerdict(reason) ==
    CASE reason = "STALE_ENTRY" -> "stale" [] reason = "LOW_VOLATILITY" -> "low_vol"
      [] reason = "AGAINST_WEEKLY_LEAN" -> "against_lean" [] OTHER -> "rejected"
HistoryVerdict(e) ==
    LET real == SelectSeq(e.runs, LAMBDA reason : reason \notin ROUTINE_RUN_REASONS) IN
    IF e.placed = "yes"
    THEN IF e.filled \/ e.status \in {"filled", "none"} \union HL_LIVE_ORDER_STATES THEN "opened" ELSE "order_failed"
    ELSE IF e.listed = "no" THEN "not_listed"
    ELSE IF e.runs # <<>> THEN RunVerdict(IF real # <<>> THEN real[1] ELSE e.runs[1])
    ELSE IF e.stale THEN "stale"
    ELSE IF e.slotRuns # <<>>
    THEN IF \A i \in DOMAIN e.slotRuns : ~e.slotRuns[i] THEN "not_run" ELSE "not_attempted"
    ELSE IF e.placed = "unknown" THEN "unknown" ELSE "no_record"

\* _hl_decision of a recorded signal; table and held are the coins listed (none:
\* not read) and the coins with a position
Decision(sig, floor, table, held, known) ==
    IF sig.strength = NoStrength \/ sig.strength < floor THEN "below_floor"
    ELSE IF table # {} /\ sig.coin \notin table THEN "not_listed"
    ELSE IF known = "yes" THEN "opened"
    ELSE IF sig.coin \in table \intersect held THEN "position_open"
    ELSE IF known = "unknown" THEN "unknown" ELSE "not_opened"

\* _recent_signal_results: closed has the fields at and pct ({} when it has no
\* return); at most eight since the last post, and the week's record
RecentResults(closed, since, now, week) ==
    LET timed == SelectSeq(closed, LAMBDA c : c.at # {})
        After(t) == SelectSeq(timed, LAMBDA c : \A at \in c.at : at > t)
        pcts == FoldLeft(LAMBDA acc, c : acc \o SetToSeq(c.pct), <<>>, After(now - week))
    IN  [recent |-> SubSeq(After(since), 1, Lesser(8, Len(After(since)))),
         wins |-> Len(SelectSeq(pcts, LAMBDA p : p > 0)), losses |-> Len(SelectSeq(pcts, LAMBDA p : p < 0)),
         average |-> IF pcts = <<>> THEN {} ELSE {Round(SumR(pcts), Len(pcts))}]
=============================================================================
