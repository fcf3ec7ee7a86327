---------------------------- MODULE ReportChecks ----------------------------
(***************************************************************************)
(* The studies and the statistics over bounded histories.                  *)
(***************************************************************************)
EXTENDS Integers, Sequences, FiniteSets, SequencesExt, FiniteSetsExt

(* The replay                                                              *)

RP == INSTANCE Replay

Bar(at, low, high, close) == [ts |-> at, low |-> low, high |-> high, close |-> close]
Flat(at) == Bar(at, 9, 11, 10)
Hourly(hours) == LET order == RP!InOrder(hours) IN [n \in DOMAIN order |-> Flat(order[n])]

\* A coin takes part in a slot only when its newest candle closes at the slot and
\* no candle is missing behind it: either the whole lookback is there, or there
\* are enough and the coin has no older one.
ASSUME HolesAreNoticed ==
    \A hours \in SUBSET (0..6), slot \in 4..7, warmup \in 1..3 :
        LET ends == {n \in 0..slot : (slot - n)..(slot - 1) \subseteq hours}
            run == CHOOSE n \in ends : \A k \in ends : k <= n
            older == hours \intersect (0..(slot - run - 1))
        IN  RP!Ready(Hourly(hours), "1H", slot, warmup, 3) <=>
                run >= 3 \/ (run >= warmup /\ older = {} /\ run > 0)

\* What a slot sees is what had closed: candles and observations that came later
\* change neither the window, nor the stop's width, nor the features.
ASSUME NothingFromLater ==
    \A hours \in SUBSET (0..5), slot \in 2..5 :
        LET closed == {h \in hours : h < slot}
            seen == [i \in 1..Cardinality(hours) |-> [at |-> {RP!InOrder(hours)[i]}, names |-> {i},
                                                      cap |-> IF i = 2 THEN {} ELSE {i}]]
            then == SubSeq(seen, 1, Cardinality(hours \intersect (0..slot)))
        IN  /\ RP!Window(Hourly(hours), "1H", slot, 3) = RP!Window(Hourly(closed), "1H", slot, 3)
            /\ RP!AtrAt(Hourly(hours), "1H", slot, 2) = RP!AtrAt(Hourly(closed), "1H", slot, 2)
            /\ RP!Features(seen, slot) = RP!Features(then, slot)
            /\ RP!MarketCapAt(seen, slot) = RP!MarketCapAt(then, slot)

\* No run may call itself a replay of production: two of the blockers never go.
ASSUME NeverParity ==
    \A mode \in {"price_only", "historical_full"}, seen, production \in SUBSET {"BTC", "ETH"},
       history, pipeline, capped \in BOOLEAN, omitted \in {{}, {"macro"}} :
        LET label == RP!Label([mode |-> mode, seen |-> seen, production |-> production,
                               history |-> history, pipeline |-> pipeline, capped |-> capped,
                               omitted |-> omitted])
        IN  /\ label # "production_parity"
            /\ label = "full_universe_price_only" <=>
                  mode = "price_only" /\ production # {} /\ production \subseteq seen /\ history

\* Half of the families that are counted as available are names no reading takes
\* its input from: an observation that gives the funding rate is used, and its
\* family is reported as omitted.
ASSUME FamiliesAreNotInputs ==
    LET given == [at |-> {0}, names |-> {"funding_rate", "news"}]
        omitted == RP!Omitted("historical_full", RP!Coverage(<<<<<<given>>, 1>>>>))
    IN  /\ RP!EXTERNAL_FEATURE_FAMILIES \ RP!EXTERNAL_HISTORICAL =
              {"funding", "long_short_ratio", "news_sentiment", "onchain", "options"}
        /\ given.names \subseteq RP!EXTERNAL_HISTORICAL
        /\ omitted = RP!EXTERNAL_FEATURE_FAMILIES

Long == [coin |-> "A", slot |-> 4, direction |-> "LONG", strength |-> 700,
         entry |-> 10, sl |-> 8, tps |-> <<12, 13, 14>>]
Short == [Long EXCEPT !.direction = "SHORT", !.sl = 12, !.tps = <<8, 7, 6>>]
Swings == {<<9, 11, 10>>, <<8, 10, 9>>, <<9, 12, 9>>, <<10, 13, 11>>, <<12, 14, 13>>, <<7, 9, 7>>,
           <<6, 8, 8>>, <<11, 11, 11>>}
Walks(size) == {[i \in 1..size |-> Bar(from + i, w[i][1], w[i][2], w[i][3])] :
                  w \in [1..size -> Swings], from \in {2, 3}}
Rules(perLeg) == [tf |-> "1H", fill |-> 2, age |-> 3, floor |-> 0, one |-> TRUE, perLeg |-> perLeg]

\* Whatever the candles do, a trade is filled inside its window, is over no later
\* than its age allows when there are candles enough, loses at most what it
\* risked, and does not lose once a target was reached, unless it was
\* closed for its age on the very candle that reached it.
ASSUME LossIsTheRisk ==
    \A rec \in {Long, Short}, bars \in Walks(4) :
        LET pos == RP!WalkPosition(rec, bars, Rules(0))
            trade == RP!Settle(rec, pos, Rules(0))
        IN  /\ \A f \in pos.filled : rec.slot <= f /\ f < rec.slot + 2
            /\ \A f \in pos.filled, e \in pos.closed : f <= e /\ e < rec.slot + 3
            /\ pos.filled = {} => trade.r = {} /\ pos.hits = {}
            /\ \A r \in trade.r : r >= -10000
            /\ trade.hits # {} /\ trade.status # "EXPIRED" => \A r \in trade.r : r > 0
            /\ trade.outcome[2] = "sl" => trade.hits = {} /\ trade.r = {-10000}
            /\ trade.outcome[2] = "be" => trade.hits # {}

\* The candle that reaches a target is not also held against the stop which that
\* target moved: walked on, the same candle again would end the trade.
ASSUME MovedStopWaitsACandle ==
    LET walked(bars) == RP!WalkPosition(Long, bars, Rules(0)) IN
    /\ walked(<<Bar(4, 9, 12, 9)>>).status = "PARTIAL_TP"
    /\ walked(<<Bar(4, 9, 12, 9), Bar(5, 9, 12, 9)>>).outcome = <<1, "be">>

\* Costs only take away, and a trade that reached its first target can lose by them.
ASSUME CostsOnlyTake ==
    /\ \A rec \in {Long, Short}, bars \in Walks(2) :
          LET with == RP!Settle(rec, RP!WalkPosition(rec, bars, Rules(50)), Rules(50))
              free == RP!Settle(rec, RP!WalkPosition(rec, bars, Rules(0)), Rules(0))
          IN  /\ with.status = free.status /\ (with.r = {}) <=> (free.r = {})
              /\ \A a \in with.r, b \in free.r : a < b
    /\ LET dear == Rules(600)
           bars == <<Bar(4, 9, 12, 9), Bar(5, 9, 12, 9)>>
       IN  \A r \in RP!Settle(Long, RP!WalkPosition(Long, bars, dear), dear).r : r < 0

\* A wider stop is never a nearer one, whatever the settings, and stays above nothing.
ASSUME WidenedIsWider ==
    \A rec \in {Long, Short}, mult \in {50, 100, 150, 700}, add \in {0, 100} :
        LET bars == [i \in 1..16 |-> Bar(2 * i - 30, 9, 9 + i, 9)]
            wide == RP!WidenStop(rec, bars, mult, add)
        IN  /\ RP!Sign(rec.direction) * (7000 * rec.sl - wide) >= 0
            /\ wide > 0

\* With one trade per coin, a coin is taken again no earlier than the opening of
\* the candle that ended its last trade.  That candle has not closed: a slot
\* inside it takes the coin twice at a time.
Twice(tf, at) ==
    LET bars == <<Bar(4, 10, 11, 10), Bar(8, 9, 14, 9)>>
        market == [sym \in {"A"} |-> [f \in {tf} |-> bars]]
        rules == [Rules(0) EXCEPT !.tf = tf, !.fill = 24, !.age = 0]
    IN  RP!Trade(<<Long, [Long EXCEPT !.slot = at]>>, market, rules)
ASSUME BusyEndsACandleEarly ==
    /\ \A at \in 4..12 : LET run == Twice("4H", at) IN Len(run.trades) + run.skipped = 2
    /\ \A at \in 5..12 : Len(Twice("4H", at).trades) = 2 <=> at >= 8
    /\ Twice("4H", 8).trades[1].closed = {8}

Deal(sym, at, dir, r) ==
    [coin |-> sym, slot |-> at, direction |-> dir, hits |-> {}, moved |-> FALSE, filled |-> {at},
     closed |-> {at + 1}, r |-> {r}, status |-> IF r < 0 THEN "STOP_LOSS_HIT" ELSE "TARGET_HIT"]
Deals == {Deal("A", 4, "LONG", -10000), Deal("A", 28, "SHORT", 0), Deal("B", 8, "LONG", 25000),
          Deal("B", 4, "SHORT", -5000)}

\* Both sides, the coins and the hours each add up to the whole; the curve never
\* falls by more than the losses and always by enough to end where it does; and
\* orders that were not filled count nowhere.
SumOf(f) == MapThenSumSet(LAMBDA k : f[k].total, DOMAIN f)
ASSUME ReportAddsUp ==
    \A size \in 1..4 : \A trades \in [1..size -> Deals] :
        LET rep == RP!Aggregate(trades)
            lost == -RP!SumR(SelectSeq([i \in 1..size |-> CHOOSE r \in trades[i].r : TRUE],
                                       LAMBDA r : r < 0))
            unfilled == [trades[1] EXCEPT !.filled = {}, !.r = {}, !.status = "CANCELLED"]
        IN  /\ rep.long + rep.short = rep.total
            /\ SumOf(rep.coins) = rep.total /\ SumOf(rep.hours) = rep.total
            /\ rep.drawdown <= lost /\ rep.drawdown >= -rep.total
            /\ rep.factor = {} <=> lost = 0
            /\ RP!Aggregate(<<unfilled>> \o trades) = rep

\* The drawdown is the order of the slots', not the order in which trades ended:
\* two trades that end the other way round leave another one.
ASSUME DrawdownFollowsTheSlots ==
    LET late == [Deal("A", 4, "LONG", -10000) EXCEPT !.closed = {90}]
        lost == Deal("B", 8, "LONG", -10000)
        won == Deal("B", 12, "LONG", 25000)
    IN  /\ RP!Aggregate(<<late, lost, won>>).drawdown = 20000
        /\ RP!Aggregate(<<lost, won, late>>).drawdown = 10000

-----------------------------------------------------------------------------
(* The slot's publication                                                  *)

SP == INSTANCE SlotPublish

Rec(sym, at, sound) == [key |-> <<sym, at>>, sound |-> sound]
ScanOf(channel, extras, watch, boosted) ==
    [channel |-> channel, extras |-> extras, watch |-> watch, boosted |-> boosted]
FirstScan == ScanOf({Rec("A", 1, TRUE)}, {Rec("C", 1, TRUE)}, {"W"}, {"C"})
OtherScan == ScanOf({Rec("A", 1, TRUE), Rec("B", 2, TRUE)}, {}, {"V"}, {"D"})
\* every state that steps lead to, from a set of states
Reached(starts, scans) ==
    FoldLeft(LAMBDA acc, n :
                 LET next == UNION {SP!SlotSteps(st, scans) : st \in acc.front} \ acc.seen
                 IN  [seen |-> acc.seen \union next, front |-> next],
             [seen |-> starts, front |-> starts], [n \in 1..30 |-> n]).seen
Start(pcs) == SP!Shared({}, pcs)
Race == Reached({Start([p |-> "recover", q |-> "recover"])}, {FirstScan, OtherScan})
\* another try of one request after it failed
Retried(st, r, step) == [st EXCEPT !.pc[r] = step, !.scan[r] = {}, !.recs[r] = {}]
Payload(st) == SP!TheBatch(st).payload

\* Two requests that scanned at different moments publish one of the scans whole,
\* wherever either of them stops; the mark and what is visible are of that scan.
ASSUME WholeOrNothing ==
    \A st \in Race :
        /\ st.rows = {} \/ \E s \in {FirstScan, OtherScan} : st.rows = SP!RowsOf(s)
        /\ st.rows # {} => SP!TheBatch(st).done /\ st.rows = SP!RowsOf(Payload(st))
        /\ st.marker # {} => st.marker = {Payload(st).watch} /\ SP!TheBatch(st).done

\* A notifier beside a publisher; and over a published slot two notifiers, one of
\* which is tried again, and somebody at the button.
Beside == Reached({Start([p |-> "recover", n |-> "read"])}, {FirstScan})
Asking == Start([n |-> "read", m |-> "read", b |-> "press"])
Asked == Reached({[Asking EXCEPT !.batch = st.batch, !.rows = st.rows] :
                      st \in {st \in Beside : st.rows # {} /\ st.post = Asking.post}}, {})
AskedAgain == Reached({Retried(st, "n", "read") : st \in {st \in Asked : SP!Halted(st.pc["n"])}}, {})

\* The slot's post is always of a whole published scan, and sent once more at
\* most for every answer that was lost on its way and every press of the button.
ASSUME SentWhole ==
    \A st \in Beside \union AskedAgain :
        /\ Len(st.post.sent) <= 1 + st.post.excused
        /\ \A i \in DOMAIN st.post.sent : st.post.sent[i] = SP!Visible(st)

\* One answer that comes back as a failure after the message arrived is enough to
\* send the slot's post twice: a retry finds the key released.
ASSUME LostAnswerSendsAgain ==
    \E st \in AskedAgain : Len(st.post.sent) = 2 /\ st.post.excused = 1 /\ st.pc["b"] = "press"

\* Wherever requests of the same build stopped, one more can finish the slot,
\* unless the frozen scan has a row that the store refuses.
Finishes(st, scans) ==
    \E done \in Reached({Retried(st, "p", "recover")}, scans) :
        done.pc["p"] = "over" /\ SP!SlotDecided(done)
Alone == {st \in Reached({Start([p |-> "recover"])}, {FirstScan}) : SP!Halted(st.pc["p"])}
Deployed == {[st EXCEPT !.version = 2] : st \in Alone}
ASSUME RetryFinishes == \A st \in Alone : Finishes(st, {OtherScan})

\* After a deployment between two requests a frozen slot is stranded: even a
\* finished one answers with a failure for the rest of its four hours, because
\* the version is compared before it is asked whether the batch is complete.
ASSUME DeployStrandsTheSlot ==
    /\ \A st \in Deployed : Finishes(st, {OtherScan}) <=> st.batch = {}
    /\ \E st \in Deployed : st.batch # {} /\ SP!TheBatch(st).done

\* An extra, which is never posted, can cost the channel its signals: a row of
\* it that the store refuses takes every row of the slot with it, at every retry.
ASSUME ExtraSinksTheSlot ==
    LET bad == [FirstScan EXCEPT !.extras = {Rec("C", 1, FALSE)}]
        first == Reached({Start([p |-> "recover"])}, {bad})
    IN  \A st \in first :
            /\ st.rows = {}
            /\ st.batch # {} => ~Finishes(st, {OtherScan})

\* What is kept beside the slot may describe a scan that lost: the boosts shown
\* with it, and the coins of the audit.
ASSUME LosersNotes ==
    /\ \E st \in Race : st.rows = SP!RowsOf(OtherScan) /\ st.boosted = FirstScan.boosted
    /\ \E st \in Race : \E e \in st.audit : e.seen = FirstScan /\ e.selected = {"A", "B"}

\* A slot whose candles were recorded by the slot before is finished and decided,
\* and shows nothing: its post never goes out.
ASSUME LaggingSlotIsSilent ==
    LET before == SP!Shared(SP!RowsOf(FirstScan), [p |-> "recover", n |-> "read"])
        all == Reached({before}, {FirstScan})
    IN  /\ \E st \in all : SP!SlotDecided(st) /\ st.pc["p"] = "over"
        /\ \A st \in all : st.rows = {} /\ st.post.sent = <<>>

\* Slots start at the same moments in both zones, and a scheduler that wakes is
\* two minutes into the slot after the hour it looked at.
ASSUME SlotsAreAligned ==
    \A m \in 0..600 :
        /\ SP!SlotStart(m + 480) = SP!SlotStart(m) + 480
        /\ m \in SP!Envelope(m).from..(SP!Envelope(m).until - 1)
        /\ SP!NextWake(m) % 240 = 2 /\ SP!NextWake(m) > m /\ SP!NextWake(m) - m <= 302

\* A scheduler that starts in the two minutes before the wake of its slot lets
\* that slot go.
ASSUME StartMayMissItsSlot ==
    \A m \in 240..241 : SP!SlotStart(SP!NextWake(m)) = SP!SlotStart(m) + 240

\* Taking a record to a card and back keeps everything that is not a column, and
\* the card never covers a column.
ASSUME CardNeverCovers ==
    /\ SP!CARD_KEYS \intersect SP!COLUMNS = {}
    /\ \A fields \in SUBSET {"strength", "mtf_dirs", "entry", "detected_at"} :
           LET rec == [f \in fields |-> f]
               back == SP!RecFromRow([f \in {"entry", "status"} |-> "row"], SP!BuildCard(rec))
           IN  /\ \A f \in fields \intersect SP!CARD_KEYS : back[f] = f
               /\ back["entry"] = "row"

\* An extra's strength reaches the floor of the trader, none of its coins was
\* published above it, at most three are taken, and a boost never moves a coin
\* from the floor's other side into the channel's set.
Sided(sym, dir, strength) == [coin |-> sym, direction |-> dir, strength |-> strength]
ASSUME ExtrasAreTheRest ==
    \A a, b, c \in {590, 640, 690}, bottom, momentum \in {0, 50, 100},
       lows \in SUBSET {"A", "B"}, published \in {<<>>, <<Sided("A", "LONG", 690)>>, <<Sided("B", "SHORT", 640)>>} :
        LET cands == <<Sided("A", "LONG", a), Sided("B", "SHORT", b), Sided("A", "SHORT", c), Sided("D", "LONG", c),
                       Sided("E", "LONG", 700)>>
            extras == SP!HlExtras(TRUE, cands, published, 690,
                          [s \in {"A", "B", "D", "E"} |-> IF s \in lows THEN {"LONG"} ELSE {}], {"D"},
                          [bottom |-> bottom, momentum |-> momentum])
        IN  /\ Len(extras) <= 3
            /\ \A i, j \in DOMAIN extras :
                   /\ extras[i].strength >= 690
                   /\ extras[i].coin = extras[j].coin => i = j
                   /\ i < j => extras[i].strength >= extras[j].strength
            /\ \A i \in DOMAIN extras, k \in DOMAIN published :
                   extras[i].coin = published[k].coin => published[k].strength < 690
            /\ SP!HlExtras(FALSE, cands, published, 690, [s \in {"A", "B", "D", "E"} |-> {}], {},
                           [bottom |-> bottom, momentum |-> momentum]) = <<>>

\* The reason told for a signal that was not traded is the oldest one that is no
\* routine, though a later pass refused it for another.
Told(runs) ==
    SP!HistoryVerdict([placed |-> "no", listed |-> "yes", status |-> "none", filled |-> FALSE,
                       runs |-> runs, stale |-> FALSE, slotRuns |-> <<TRUE>>])
ASSUME OldestReasonIsTold ==
    /\ Told(<<"LOW_VOLATILITY", "POSITION_EXISTS", "STALE_ENTRY">>) = "low_vol"
    /\ \A first, last \in {"LOW_VOLATILITY", "STALE_ENTRY", "AGAINST_WEEKLY_LEAN"} :
           Told(<<"POSITION_EXISTS", first, last>>) = Told(<<first>>)

\* An order that the log forgot is still told as opened, and a signal that no run
\* was seen for is never told as refused.
ASSUME NothingIsInvented ==
    \A placed \in {"yes", "no", "unknown"}, status \in {"none", "open", "filled", "canceled"}, filled \in BOOLEAN,
       stale \in BOOLEAN, slotRuns \in {<<>>, <<TRUE>>, <<FALSE>>} :
        LET told == SP!HistoryVerdict([placed |-> placed, listed |-> "yes", status |-> status, filled |-> filled,
                                       runs |-> <<>>, stale |-> stale, slotRuns |-> slotRuns])
        IN  /\ told \in {"opened", "order_failed"} <=> placed = "yes"
            /\ told # "rejected"
            /\ told = "unknown" => placed = "unknown"

-----------------------------------------------------------------------------
(* The reports over recorded signals                                       *)

OC == INSTANCE Outcomes
PO == INSTANCE SignalPolicy

Ticks(dir, n) == IF dir = "LONG" THEN 100 + n ELSE 100 - n
Signal == [id |-> 1, symbol |-> "A", timeframe |-> "2H", direction |-> "LONG", status |-> "OPEN",
           entry |-> {100}, stop |-> {90}, moved |-> {}, close |-> {}, ret |-> {}, reason |-> "none",
           targets |-> <<>>, opened |-> {0}, closed |-> {}, strategy |-> "top3",
           confidence |-> {}, mfe |-> {}, mae |-> {}, tps |-> <<>>, stopPct |-> {}]
Working(dir, status, moved, hits) ==
    [Signal EXCEPT !.direction = dir, !.status = status, !.stop = {Ticks(dir, -10)},
                   !.moved = {Ticks(dir, m) : m \in moved},
                   !.targets = [n \in 1..2 |-> [price |-> Ticks(dir, 10 * n), hit |-> n \in hits]]]

\* The advice fits the price: a row is to be treated as stopped exactly when the
\* price is at its stop, profit is offered only where an open target was passed,
\* and nobody is told to move a stop that protects the entry already.
ASSUME AdviceFitsThePrice ==
    \A dir \in {"LONG", "SHORT"}, status \in {"OPEN", "PARTIAL_TP"}, moved \in {{}, {-5}, {0}, {5}},
       hits \in {{}, {1}, {1, 2}}, at \in -12..25 :
        LET row == OC!BuildRow(Working(dir, status, moved, hits), {Ticks(dir, at)}, 9)
            told == OC!Remark(row)
            stop == Max(moved \union {-10})
        IN  /\ told[2] = "treat_as_stopped" <=> at <= stop
            /\ told[2] = "take_it" => \E n \in {1, 2} \ hits : at >= 10 * n
            /\ told[2] = "prepare" => at > 0 /\ \A n \in row.next : at < 10 * n
            /\ told[1] = "move_stop_to_entry" => stop < 0
            /\ told[1] = "stop_is_at_breakeven" => \A m \in row.move : m >= 0

\* R is measured against the stop as it now stands and not, as its comment says,
\* against the risk first taken: tightening the stop raises it, and a stop at the
\* entry has none.
ASSUME RIsOfTheMovedStop ==
    LET R(moved) == OC!BuildRow(Working("LONG", "OPEN", moved, {}), {108}, 9).r
    IN  R({}) = {80} /\ R({-5}) = {160} /\ R({0}) = {}

\* A row without a price in time shows no move and gives no advice to act.
ASSUME LatePriceIsNoPrice ==
    \A cached, ticker \in {{}, {80}, {100}, {130}}, inTime \in SUBSET {"A"}, status \in {"PENDING", "OPEN", "PARTIAL_TP"} :
        LET price == OC!TrackerPrices({"A"}, [A |-> cached], [A |-> ticker], inTime)["A"]
            row == OC!BuildRow(Working("LONG", status, {}, {}), price, 9)
        IN  price = {} => /\ row.move = {} /\ row.r = {}
                          /\ OC!Remark(row)[2] \in {"none", "hold", "let_it_run"}

\* What a finished row says no longer follows the market, once its return or its
\* closing price is on record.  Without both a manual close is a win or a loss
\* by the price of the moment.
ASSUME FinishedIsFixed ==
    LET Shown(s, live) == LET row == OC!BuildRow(s, live, 9) IN <<row.move, row.r, row.outcome, OC!Remark(row)>>
        Closed(status, ret, close) == [Working("LONG", status, {}, {}) EXCEPT !.ret = ret, !.close = close]
    IN  /\ \A status \in OC!TERMINAL_STATUSES, ret \in {{}, {-50}, {70}}, a, b \in {{}, {80}, {130}} :
              Shown(Closed(status, ret, {104}), a) = Shown(Closed(status, ret, {104}), b)
        /\ {OC!BuildRow(Closed("CLOSED", {}, {}), live, 9).outcome : live \in {{80}, {130}}} = {"LOSS", "WIN"}

\* The tracker judges by the status and the postmortem by the return: a trade
\* stopped after its first target is a loss in the one and a win in the other.
ASSUME TwoScoreboards ==
    \A status \in OC!TERMINAL_STATUSES, ret \in {{}, {-50}, {0}, {70}} :
        LET s == [Signal EXCEPT !.status = status, !.ret = ret, !.close = {104}]
            tracker == OC!BuildRow(s, {}, 9).outcome
            postmortem == OC!ClassifyOutcome(s)
        IN  /\ (tracker = "LOSS" /\ postmortem = "win") <=> (status = "SL_HIT" /\ ret = {70})
            /\ (tracker = "WIN" /\ postmortem = "loss") <=> (status = "TP_HIT" /\ ret = {-50})

\* Three prints of one coin whose levels drift: 997 to 999, 999 to 1001 are one
\* level each, 996 and 1001 are not.
Prints(levels, times) ==
    [i \in DOMAIN levels |->
        OC!BuildRow([Signal EXCEPT !.id = i, !.entry = {levels[i]}, !.stop = {900}, !.opened = {times[i]}],
                    {999}, 9)]
Drifts(n) == [1..n -> {996, 998, 1000, 1002}]
Shows(row, rows) == \A k \in DOMAIN row.ids : OC!SamePosition(row, rows[row.ids[k]])

\* However often a setup was printed, each print stands behind one row of the list.
ASSUME EveryPrintIsBehindARow ==
    \A levels \in Drifts(4), times \in {<<1, 2, 3, 4>>, <<4, 3, 2, 1>>, <<2, 1, 4, 3>>} :
        LET out == OC!CollapseRepublished(Prints(levels, times))
            ids == FlattenSeq([i \in DOMAIN out |-> out[i].ids])
        IN  /\ Len(ids) = 4 /\ ToSet(ids) = 1..4
            /\ \A i \in DOMAIN out : out[i].republished = Len(out[i].ids)

\* Read oldest first, a row stands only for prints at its own levels and no two
\* rows are one position.
ASSUME OldestFirstDoesNotChain ==
    \A levels \in Drifts(4) :
        LET rows == Prints(levels, <<1, 2, 3, 4>>)
            out == OC!CollapseRepublished(rows)
        IN  /\ \A i \in DOMAIN out : Shows(out[i], rows)
            /\ \A i, j \in DOMAIN out : OC!SamePosition(out[i], out[j]) => i = j

\* The list is read newest first, and there an older print hands its levels to
\* the row it joins: drifts chain, which the comment rules out, two rows may end
\* as one position, and a row shows the entry of one print beside the move of
\* another.
ASSUME NewestFirstChains ==
    LET Out(levels) == OC!CollapseRepublished(Prints(levels, <<3, 2, 1>>))
        drifted == Out(<<1002, 1000, 998>>)
        twins == Out(<<1002, 998, 1000>>)
    IN  /\ Len(drifted) = 1 /\ ~Shows(drifted[1], Prints(<<1002, 1000, 998>>, <<3, 2, 1>>))
        /\ Len(twins) = 2 /\ OC!SamePosition(twins[1], twins[2])
        /\ drifted[1].entry = {998} /\ \A m \in drifted[1].move : m < 0

\* Every row is in one batch, batches are told apart in UTC as in Singapore, the
\* newest comes first, and the rows without a time are not lost.
ASSUME BatchesHoldEverything ==
    \A a, b, c \in {{}, {1}, {3}, {4}, {9}} :
        LET opened == <<a, b, c>>
            rows == [i \in 1..3 |-> OC!BuildRow([Signal EXCEPT !.id = i, !.opened = opened[i]], {}, 20)]
            out == OC!GroupBySlot(rows)
        IN  /\ Len(FlattenSeq([k \in DOMAIN out |-> out[k].rows])) = 3
            /\ \A i, j \in 1..3 : rows[i].slot = rows[j].slot <=>
                   {t \div 4 : t \in opened[i]} = {t \div 4 : t \in opened[j]}
            /\ \A k \in DOMAIN out : out[k].slot = {} => k = Len(out)
            /\ \A k, m \in DOMAIN out : k < m => OC!Moment(out[k].slot) > OC!Moment(out[m].slot)

\* The page is cut before the extras are taken out of it: fifty of them, which
\* the view never shows, hide every trade that was published before them.
ASSUME ExtrasUseUpThePage ==
    LET History(n) == [i \in 1..n |-> [Signal EXCEPT !.strategy = OC!HL_EXTRA]] \o <<Signal>>
        Shown(n, days) == Len(OC!TrackerRead(History(n), History(n), days).closed)
    IN  Shown(49, 3) = 1 /\ Shown(50, 3) = 0 /\ Shown(50, 4) = 1

Outcome(status, ret) == [Signal EXCEPT !.status = status, !.ret = ret]
Ends == {Outcome("CANCELLED", {}), Outcome("OPEN", {}), Outcome("EXPIRED", {}), Outcome("SL_HIT", {70}),
         Outcome("SL_HIT", {-50}), Outcome("TP_HIT", {0}), Outcome("TP_HIT", {})}

\* Every row is counted once, the two counts of filled orders differ by what is
\* still open, and sessions, slots and groups leave nobody out.
ASSUME CountsAddUp ==
    \A ends \in [1..4 -> Ends], hour \in {0, 6, 7, 20, 23} :
        LET rows == [i \in 1..4 |-> [ends[i] EXCEPT !.opened = {hour + 24 * i}]]
            all == OC!WinExpectancy(rows)
            Sum4(f) == FoldSet(LAMBDA k, sum : f[k].n + sum, 0, DOMAIN f)
        IN  /\ FoldSet(LAMBDA o, sum : all.count[o] + sum, 0, DOMAIN all.count) = 4
            /\ OC!FillFunnel(rows).filled = all.filled + all.count["open"]
            /\ Sum4(OC!SessionPerformance(rows).sessions) = 4
            /\ Sum4(OC!TimingReport(rows).slot) = 4
            /\ Sum4(OC!GroupBy(rows, "status")) = 4 - all.count["open"] - all.count["cancelled"]

\* The depth offered as a floor for the stop is said to be one that a quarter of
\* the winners went through.  Depths are negative and sorted upwards: three
\* quarters of them went that deep, as near as the count divides.
ASSUME StopFloorIsTheWrongQuartile ==
    \A depths \in SUBSET {-900, -700, -400, -300, -100} \ {{}} :
        LET order == OC!Ascending(SetToSeq(depths))
            rows == [i \in DOMAIN order |-> [Outcome("TP_HIT", {70}) EXCEPT !.mae = {order[i]}]]
            floor == Max(OC!ExcursionReport(rows).stopFloor)
        IN  Cardinality({d \in depths : 4 * d <= floor}) = 1 + ((3 * (Cardinality(depths) - 1)) \div 4)

\* On a ladder that climbs no rung is reached oftener than the one before it, and
\* the share of each is of the trades that had a ladder.
ASSUME ReachFallsAlongTheLadder ==
    \A ran \in [1..3 -> {{}, {0}, {100}, {250}}], ladders \in [1..3 -> {<<>>, <<100>>, <<100, 200, 300>>}] :
        LET reach == OC!TargetReach([i \in 1..3 |-> [Signal EXCEPT !.mfe = ran[i], !.tps = ladders[i]]])
        IN  /\ reach.reached[1] >= reach.reached[2] /\ reach.reached[2] >= reach.reached[3]
            /\ reach.considered >= reach.reached[1]
            /\ \A i \in 1..3 : (reach.rate[i] = {}) <=> (reach.considered = 0)

\* A tier or a frame with too few decided trades is never the one that decides,
\* however well it did: nothing about it changes the verdict.
Decided(n, wins, confidence, frame, ret) ==
    [i \in 1..n |-> [Outcome("CLOSED", {IF i <= wins THEN ret ELSE -ret}) EXCEPT
                        !.confidence = {confidence}, !.timeframe = frame, !.opened = {8}, !.closed = {12}]]
ASSUME ThinDecidesNothing ==
    \A weak, strong \in 0..5, few \in 0..4, lucky \in 0..4 :
        LET rows == Decided(5, weak, 2000, "1H", 100) \o Decided(5, strong, 7000, "2H", 100)
            more == rows \o Decided(few, lucky, 6000, "4H", 900)
            Best(r) == OC!TimeframeEfficiency(r, <<"1H", "2H", "4H">>).best
        IN  /\ OC!StrengthCalibration(rows).monotonic = {weak <= strong}
            /\ OC!StrengthCalibration(more).monotonic = {weak <= strong}
            /\ Best(more) = Best(rows) /\ Best(rows) = {IF strong > weak THEN "2H" ELSE "1H"}

\* A warning means the same for both directions: turned upside down, a trade
\* has the warnings it had; and what was not recorded is never all clear.
NothingKnown ==
    [structure |-> {}, blocked |-> {}, factors |-> {}, spread |-> {}, rr |-> {}, regime |-> {}, degraded |-> {},
     btc |-> {}, squeeze |-> {}, rsiDivergence |-> {}, obvDivergence |-> {}, playedOut |-> {}, fib |-> {},
     inPocket |-> TRUE, rsiReversal |-> {}]
Flagged(r, snap) == OC!Flags([direction |-> r, snap |-> snap])
Upside == [bullish |-> "bearish", bearish |-> "bullish", none |-> "none", long |-> "short", short |-> "long",
           oversold_bottom |-> "overbought_top", overbought_top |-> "oversold_bottom"]
ASSUME WarningsAreMirrored ==
    /\ \A rsi, obv \in {{}, {"bullish"}, {"bearish"}, {"none"}}, fib \in {{}, {"long"}, {"short"}, {"none"}},
          marker \in {{}, {"oversold_bottom"}, {"overbought_top"}, {"none"}}, spent, in \in BOOLEAN :
          LET snap == [NothingKnown EXCEPT !.rsiDivergence = rsi, !.obvDivergence = obv, !.fib = fib,
                                           !.rsiReversal = marker, !.playedOut = {spent}, !.inPocket = in]
              Turn(seen) == {Upside[v] : v \in seen}
              turned == [snap EXCEPT !.rsiDivergence = Turn(rsi), !.obvDivergence = Turn(obv), !.fib = Turn(fib),
                                     !.rsiReversal = Turn(marker)]
          IN  Flagged("LONG", snap) = Flagged("SHORT", turned)
    /\ \A name \in DOMAIN Flagged("LONG", NothingKnown) : Flagged("LONG", NothingKnown)[name] = {}

\* A warning is held against the losses only when both sides have enough trades,
\* two losers had it, and it was the rarer among the winners; rows that do not
\* know move no rate, and the worst warnings are told first.
Warned(outcome, seen) ==
    [outcome EXCEPT !.mfe = {}] @@ [snap |-> [NothingKnown EXCEPT !.blocked = seen, !.btc = {TRUE}]]
ASSUME WarningNeedsBothSides ==
    \A wins, losses \in {4, 5}, inWins, inLosses \in 0..4, strangers \in {0, 3} :
        LET Half(n, outcome, flagged) ==
                [i \in 1..n |-> Warned(outcome, {i <= flagged})] \o [i \in 1..strangers |-> Warned(outcome, {})]
            rows == Half(wins, Outcome("TP_HIT", {70}), inWins) \o Half(losses, Outcome("SL_HIT", {-50}), inLosses)
            told == OC!Discriminators(rows, <<"btc", "thin", "sweepZone">>)
            sweep == told[CHOOSE i \in 1..3 : told[i].feature = "sweepZone"]
        IN  /\ sweep.losers.rate = OC!Rate(inLosses, losses, 10000)
            /\ sweep.over => /\ wins + strangers >= 5 /\ losses + strangers >= 5
                             /\ inLosses >= 2 /\ inLosses * wins > inWins * losses
            /\ \A i \in 1..3 : ~told[i].over \/ told[i].feature = "sweepZone"
            /\ sweep.unbounded => told[1] = sweep
            /\ told[3].feature = (IF inWins + inLosses = 0 THEN "sweepZone" ELSE "thin")

\* The stop is blamed for the losers only when half of those that can be judged
\* first ran as far as they risked; a loser without a stop or an excursion says nothing.
ASSUME BlameTheStop ==
    \A ran \in [1..3 -> {{}, {40}, {120}}], risked \in [1..3 -> {{}, {0}, {100}}] :
        LET rows == [i \in 1..3 |-> [Outcome("SL_HIT", {-50}) EXCEPT !.mfe = ran[i], !.stopPct = risked[i]]]
            known == {i \in 1..3 : ran[i] # {} /\ risked[i] = {100}}
            early == {i \in known : ran[i] = {120}}
        IN  /\ OC!StopPlacement(rows) = "no_data" <=> known = {}
            /\ OC!StopPlacement(rows) = "stop" <=> known # {} /\ 2 * Cardinality(early) >= Cardinality(known)

\* The rate of closes is meant to run since the first publication.  Whatever
\* limit is asked for, a page of a hundred is read: behind a hundred open signals
\* twenty closed ones are not seen, and there is no date for any milestone.
ASSUME CadenceSeesAPage ==
    LET all == [i \in 1..120 |-> [Outcome(IF i <= 100 THEN "OPEN" ELSE "TP_HIT", {70}) EXCEPT !.opened = {200 - i}]]
        told == OC!CadenceReport(OC!CadenceRead(all, 1000), 300, {15})
        whole == OC!CadenceReport(all, 300, {15})
    IN  /\ told.closes = 0 /\ told.perDay = {} /\ told.eta[15] = {}
        /\ whole.closes = 20 /\ whole.eta[15] = {0}

\* What a section earned does not depend on the direction of the trades, only on
\* whether it pushed with them.
ASSUME EdgeIsOfTheTrade ==
    \A points \in [1..3 -> {-2, 0, 1}], rets \in [1..3 -> {{}, {-50}, {70}}] :
        LET Trades(dir) ==
                [i \in 1..3 |-> [Outcome("CLOSED", rets[i]) EXCEPT !.direction = dir] @@
                    [breakdown |-> [macro |-> points[i] * (IF dir = "LONG" THEN 1 ELSE -1)], brakes |-> [fib |-> -1]]]
            edge == OC!Edge(Trades("LONG"), "macro", 1)
        IN  /\ edge = OC!Edge(Trades("SHORT"), "macro", 1)
            /\ edge # {} => \E i, j \in 1..3 : points[i] = 1 /\ points[j] # 1 /\ rets[i] # {} /\ rets[j] # {}
            /\ OC!Edge(Trades("LONG"), "fib", 1) = {}

\* The report can name the cap behind every candidate that one took under the
\* floor, and what one side has is never counted for the other.
ASSUME CapsAreExplained ==
    \A before \in {6850, 6900, 7100}, h1, h2 \in {{}, {5000}, {7000}}, chased \in BOOLEAN, recorded \in {6800, 6950} :
        LET Read(h) == IF h = {} THEN PO!NoStrength ELSE Max(h) \div 10
            cand == [coin |-> "A", direction |-> "LONG", slot |-> 1, before |-> before, chased |-> chased,
                     h1 |-> h1, h2 |-> h2, strength |-> 10 * PO!Calibrate(before \div 10, Read(h1), Read(h2), chased)]
            live == {[coin |-> "A", direction |-> dir, slot |-> 1, strength |-> recorded] : dir \in {"LONG", "SHORT"}}
            told == OC!Compare({cand}, live)
        IN  /\ told.capped = 1 => OC!WhyCapped(cand) # {}
            /\ OC!WhyCapped(cand) = {} => cand.strength = before \/ (chased /\ before <= OC!CAP)
            /\ told.replay + told.capped <= 1
            /\ told.gap = {OC!Round(recorded - cand.strength, 10)}
            /\ told.live = (IF recorded >= OC!FLOOR THEN 2 ELSE 0) /\ told.shown = {1}
=============================================================================
