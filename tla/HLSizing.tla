------------------------------ MODULE HLSizing ------------------------------
(***************************************************************************)
(* The arithmetic of an order: backend/hl_meta.py (lots, accepted prices,  *)
(* collateral), hl_exchange.py (drift and exposure), hl_autoexec.py (the   *)
(* placed stop and the split of the targets); and hl_account.py, which     *)
(* rebuilds the closed trades from the fills.                              *)
(*                                                                         *)
(* Prices and dollars are integers of one unit, a size is a number of      *)
(* lots, and an asset has q lots to the coin.                              *)
(***************************************************************************)
EXTENDS Integers, Sequences, FiniteSets, SequencesExt, FiniteSetsExt

NoPrice == 0
Unknown == -1
Abs(n) == IF n < 0 THEN -n ELSE n
Smaller(a, b) == IF a <= b THEN a ELSE b
Larger(a, b) == IF a >= b THEN a ELSE b

\* round_size: down to whole lots
Lots(dollars, px, q) == (dollars * q) \div px

\* round_price: five significant figures, then the asset's smallest step (a
\* power of ten of the unit), a half upwards both times
HalfUp(n, step) == ((2 * n + step) \div (2 * step)) * step
SigStep(px) ==
    LET steps == {1, 10, 100, 1000, 10000}
        fit == {s \in steps : px < 100000 * s}
    IN  Min(fit)
RoundPrice(px, step) == IF px <= 0 THEN NoPrice ELSE HalfUp(HalfUp(px, SigStep(px)), step)

-----------------------------------------------------------------------------
(* Opening.  An asset has the fields listed, q and maxLev; cfg has         *)
(* notional, leverage, least, maxExposure, cap and fraction (both per      *)
(* thousand).                                                              *)

CanPlace(asset, px, free, cfg) ==
    LET lots == Lots(cfg.notional, px, asset.q)
        lev == Smaller(Larger(1, cfg.leverage), asset.maxLev)
    IN  IF ~asset.listed THEN "SYMBOL_NOT_ON_HYPERLIQUID"
        ELSE IF px <= 0 THEN "BAD_ENTRY_PRICE"
        ELSE IF lots = 0 THEN "SIZE_ROUNDS_TO_ZERO"
        ELSE IF lots * px < cfg.least * asset.q THEN "BELOW_MIN_NOTIONAL"
        ELSE IF free # Unknown /\ lots * px > free * asset.q * lev THEN "INSUFFICIENT_MARGIN"
        ELSE "ok"

\* allowed_entry_drift, as what the price may be away from the entry, in
\* thousandths of the unit
AllowedDrift(entry, sl, cfg) ==
    IF sl <= 0 \/ sl = entry THEN cfg.cap * entry
    ELSE Smaller(cfg.fraction * Abs(entry - sl), cfg.cap * entry)
Stale(entry, sl, mark, cfg) ==
    entry > 0 /\ 1000 * Abs(entry - mark) > AllowedDrift(entry, sl, cfg)

\* the larger of the perpetual account and the spot dollars; an unknown one
\* counts as none unless both are unknown
Free(perps, spot) ==
    IF perps = Unknown /\ spot = Unknown THEN Unknown ELSE Larger(Larger(perps, spot), 0)

\* open_position from the market price on: a fill 5 per cent worse must fit
Judge(asset, sig, mark, exposure, free, cfg) ==
    LET placed == CanPlace(asset, mark, free, cfg)
        lots == Lots(cfg.notional, mark, asset.q)
    IN  IF mark <= 0 THEN "NO_MARK_PRICE"
        ELSE IF Stale(sig.entry, sig.sl, mark, cfg) THEN "STALE_ENTRY"
        ELSE IF placed # "ok" THEN placed
        ELSE IF 100 * exposure * asset.q + 105 * lots * mark > 100 * cfg.maxExposure * asset.q
        THEN "MAX_EXPOSURE"
        ELSE "ok"

\* placed_stop: one mean range beyond the signal's stop, a hundredth of it left
PlacedStop(long, sl, atr) ==
    IF sl = NoPrice THEN NoPrice
    ELSE IF long THEN Larger(sl - atr, sl \div 100) ELSE sl + atr

\* plan_tp_split: the lots of the two targets, or none to close all at the
\* first; fraction in per cent
NoSplit == <<>>
PlanTpSplit(lots, q, tp1, tp2, fraction, least) ==
    LET first == (lots * fraction) \div 100
        rest == lots - first
    IN  IF \/ lots = 0 \/ NoPrice \in {tp1, tp2} \/ first = 0 \/ rest <= 0
           \/ first * tp1 < least * q \/ rest * tp2 < least * q
        THEN NoSplit ELSE <<first, rest>>

-----------------------------------------------------------------------------
(* fills_paged: the exchange answers with at most a page of fills from a   *)
(* time on; a fill has the fields id and time.  The next page starts at    *)
(* the last fill's time, and what was seen is not added again.             *)

Page(fills, start, size) ==
    LET from == SelectSeq(fills, LAMBDA f : f.time >= start)
    IN  SubSeq(from, 1, Smaller(size, Len(from)))

FillsPaged(fills, start, size, pages) ==
    LET read[n \in 0..pages] ==
            IF n = 0 THEN [out |-> <<>>, start |-> start, done |-> FALSE]
            ELSE LET last == read[n - 1]
                     page == Page(fills, last.start, size)
                     new == SelectSeq(page, LAMBDA f : \A i \in DOMAIN last.out : last.out[i] # f)
                 IN  IF last.done THEN last
                     ELSE [out |-> last.out \o new,
                           start |-> IF page = <<>> THEN start ELSE Last(page).time,
                           done |-> Len(page) < size]
    IN  read[pages].out

-----------------------------------------------------------------------------
(* closed_trades of one coin: a fill has the fields time, tid (the order   *)
(* of its name as text), signed (its size, negative for a sale), start (the position  *)
(* before it) and pnl.                                                     *)

NoTrade == [side |-> 0, opened |-> 0, closed |-> 0, complete |-> FALSE, opens |-> 0, closes |-> 0,
            pnl |-> 0, fills |-> 0]
SignOf(n) == IF n > 0 THEN 1 ELSE -1

Filled(trade, f) ==
    LET new == IF trade.fills > 0 THEN trade
               ELSE [trade EXCEPT !.complete = (f.start = 0),
                        !.side = IF f.start = 0 THEN SignOf(f.signed) ELSE SignOf(f.start),
                        !.opened = IF f.start = 0 THEN f.time ELSE 0]
        opening == SignOf(f.signed) = new.side
    IN  [new EXCEPT !.opens = IF opening THEN @ + Abs(f.signed) ELSE @,
                    !.closes = IF opening THEN @ ELSE @ + Abs(f.signed),
                    !.pnl = @ + f.pnl, !.fills = @ + 1]

Sorted(fills) ==
    SortSeq(fills, LAMBDA f, g : \/ f.time < g.time
                                 \/ f.time = g.time /\ f.tid < g.tid)

RoundTrips(fills) ==
    LET Walk(acc, f) ==
            LET trade == Filled(acc.trade, f) IN
            IF f.start + f.signed # 0 THEN [acc EXCEPT !.trade = trade]
            ELSE [trade |-> NoTrade,
                  done |-> Append(acc.done, [trade EXCEPT !.closed = f.time])]
    IN  FoldLeft(Walk, [trade |-> NoTrade, done |-> <<>>], Sorted(fills)).done

ClosedTrades(fills, cutoff) ==
    SelectSeq(RoundTrips(fills), LAMBDA t : t.closed >= cutoff /\ t.closes > 0)
=============================================================================
