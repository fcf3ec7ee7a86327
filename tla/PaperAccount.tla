--------------------------- MODULE PaperAccount -----------------------------
(***************************************************************************)
(* backend/paper_account.py: the closed signals replayed as an account     *)
(* that reserves margin while positions overlap. A row has the fields id,  *)
(* outcome, gen (its publication), open, close, priced and gross (its      *)
(* return on the fixed size). cfg has the fields start, margin and fee     *)
(* (one side's). Amounts are integers, and a time that cannot be read is   *)
(* NoTime.                                                                 *)
(***************************************************************************)
EXTENDS Integers, Sequences, FiniteSets, SequencesExt, FiniteSetsExt

NoTime == -1

\* what can be placed on the timeline
Placed(row) ==
    /\ row.outcome \notin {"cancelled", "open"}
    /\ row.priced
    /\ NoTime \notin {row.open, row.close} /\ row.open <= row.close

\* the events in the order of the walk: opens before closes of the same moment,
\* opens by publication and name, closes by gain
Events(rows) ==
    LET At(e) == IF e.opens THEN rows[e.row].open ELSE rows[e.row].close
        Key(e) == IF e.opens THEN <<At(e), 0, rows[e.row].gen, rows[e.row].id, e.row>>
                             ELSE <<At(e), 1, -rows[e.row].gross, 0, e.row>>
        Before(e, f) ==
            \E n \in 1..5 : /\ Key(e)[n] < Key(f)[n]
                            /\ \A m \in 1..(n - 1) : Key(e)[m] = Key(f)[m]
        placed == SelectSeq([i \in DOMAIN rows |-> i], LAMBDA i : Placed(rows[i]))
        Of(opening) == [n \in DOMAIN placed |-> [opens |-> opening, row |-> placed[n]]]
        sorted == SortSeq(Of(TRUE) \o Of(FALSE), Before)
    IN  [n \in DOMAIN sorted |->
            [opens |-> sorted[n].opens, row |-> sorted[n].row, ts |-> At(sorted[n]),
             gross |-> rows[sorted[n].row].gross]]

Fresh(cfg) ==
    [equity |-> cfg.start, reserved |-> 0, active |-> {}, ruined |-> FALSE,
     applied |-> 0, fees |-> 0, filled |-> 0, skipped |-> 0, most |-> 0,
     peak |-> cfg.start, drawdown |-> 0, dirty |-> FALSE, ts |-> NoTime, ledger |-> <<>>]

\* _record_equity, once per moment
Flush(acc) ==
    LET peak == IF acc.equity > acc.peak THEN acc.equity ELSE acc.peak
        down == peak - acc.equity
    IN  [acc EXCEPT !.peak = peak, !.dirty = FALSE,
                    !.drawdown = IF down > @ THEN down ELSE @]

\* a position needs its margin and its entry fee
Fundable(cfg, acc) == ~acc.ruined /\ acc.equity - acc.reserved >= cfg.margin + cfg.fee

Open(cfg, acc, row) ==
    IF ~Fundable(cfg, acc) THEN [acc EXCEPT !.skipped = @ + 1]
    ELSE [acc EXCEPT !.equity = @ - cfg.fee, !.applied = @ - cfg.fee, !.fees = @ + cfg.fee,
                     !.reserved = @ + cfg.margin, !.filled = @ + 1,
                     !.active = @ \union {row},
                     !.most = IF Cardinality(acc.active) + 1 > @
                              THEN Cardinality(acc.active) + 1 ELSE @,
                     !.dirty = @ \/ cfg.fee > 0]

Booked(row, net, fee, liquidated) ==
    [row |-> row, net |-> net, fee |-> fee, gross |-> net + fee, liquidated |-> liquidated]

\* the loss that wipes the account out is capped at what is left, and what is
\* still open then only loses the entry fee it has paid
Close(cfg, acc, row, gross) ==
    LET wiped == acc.equity + gross - cfg.fee <= 0
        delta == IF wiped THEN -acc.equity ELSE gross - cfg.fee
        released == [acc EXCEPT !.active = @ \ {row}, !.reserved = @ - cfg.margin]
    IN  IF row \notin acc.active THEN acc
        ELSE IF acc.ruined
        THEN [released EXCEPT !.ledger = Append(@, Booked(row, -cfg.fee, cfg.fee, TRUE))]
        ELSE [released EXCEPT
                !.equity = @ + delta, !.applied = @ + delta, !.fees = @ + cfg.fee,
                !.ruined = wiped, !.dirty = TRUE,
                !.ledger = Append(@, Booked(row, delta - cfg.fee, 2 * cfg.fee, FALSE))]

Step(cfg, acc, ev) ==
    LET now == IF acc.ts # NoTime /\ acc.ts # ev.ts /\ acc.dirty THEN Flush(acc) ELSE acc
        at == [now EXCEPT !.ts = ev.ts]
    IN  IF ev.opens THEN Open(cfg, at, ev.row) ELSE Close(cfg, at, ev.row, ev.gross)

\* the account after each of the events
Walk(cfg, events) ==
    LET after[n \in 0..Len(events)] ==
            IF n = 0 THEN Fresh(cfg) ELSE Step(cfg, after[n - 1], events[n])
    IN  after

BuildPaperAccount(cfg, rows) ==
    LET events == Events(rows)
        end == Walk(cfg, events)[Len(events)]
    IN  IF end.dirty THEN Flush(end) ELSE end

Wins(acc) == Cardinality({i \in DOMAIN acc.ledger : acc.ledger[i].net > 0})
Losses(acc) == Cardinality({i \in DOMAIN acc.ledger : acc.ledger[i].net < 0})

\* _max_concurrent: the most positions open at once, whatever they cost
MaxConcurrent(rows) ==
    LET placed == {i \in DOMAIN rows : Placed(rows[i])}
        OpenAt(t) == {i \in placed : rows[i].open <= t /\ t <= rows[i].close}
    IN  Max({0} \union {Cardinality(OpenAt(rows[i].open)) : i \in placed})
=============================================================================
