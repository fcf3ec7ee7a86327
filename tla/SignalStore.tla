---------------------------- MODULE SignalStore ----------------------------
(***************************************************************************)
(* One published signal as its database row and the lifecycle calls of     *)
(* signal_store.py: which status may follow which, what each call records, *)
(* when it is a duplicate and when it is refused.  A row is a record, a    *)
(* call an operator from the row under lock to the row it leaves.          *)
(*                                                                         *)
(* Prices are positions on a small scale.  The row keeps what the calls    *)
(* decide on and what the statistics read.  A return is counted in parts   *)
(* of the position times steps of the price (the code: percent of entry).  *)
(***************************************************************************)
EXTENDS Integers, FiniteSets, SequencesExt

CONSTANTS
    Direction,       \* "LONG" or "SHORT"
    Entry, StopLoss, \* the published entry and stop prices
    Ladder           \* the published target prices, first to last

\* validate_price_structure: the stop is on the losing side of the entry, the
\* targets are on the other, each further away than the one before
PriceStructure(direction, entry, stop, targets) ==
    LET Past(a, b) == IF direction = "LONG" THEN a > b ELSE a < b
    IN  /\ direction \in {"LONG", "SHORT"}
        /\ entry > 0 /\ stop > 0 /\ \A n \in DOMAIN targets : targets[n] > 0
        /\ Past(entry, stop)
        /\ \A n \in DOMAIN targets : Past(targets[n], entry)
        /\ \A n \in 2..Len(targets) : Past(targets[n], targets[n - 1])

\* create_signal refuses every other structure
ASSUME SignalAssumption ==
    /\ Entry \in Nat /\ StopLoss \in Nat
    /\ Ladder \in Seq(Nat) \ {<<>>}
    /\ PriceStructure(Direction, Entry, StopLoss, Ladder)

Working  == {"PENDING", "OPEN", "PARTIAL_TP"}
Terminal == {"TP_HIT", "SL_HIT", "CLOSED", "EXPIRED", "CANCELLED"}
Statuses == Working \union Terminal

Never == -1                      \* NULL in a time column

Numbers == DOMAIN Ladder
LastTarget == Len(Ladder)

\* the position in parts, so that every share is a number of them
Whole == 10 * LastTarget

\* exit_fraction: the published plan for three targets, an even split otherwise
Share(n) == IF LastTarget = 3 THEN <<15, 9, 6>>[n] ELSE 10

\* an expired trade can still be ended otherwise
Allowed_Reopens(from) ==
    CASE from = "PENDING" -> {"OPEN", "CANCELLED", "EXPIRED"}
      [] from \in {"OPEN", "PARTIAL_TP", "EXPIRED"} -> {"PARTIAL_TP"} \union Terminal
      [] OTHER -> {}

\* the status machine; a terminal status has no successor
Allowed(from) ==
    CASE from = "PENDING" -> {"OPEN", "CANCELLED", "EXPIRED"}
      [] from \in {"OPEN", "PARTIAL_TP"} -> {"PARTIAL_TP"} \union Terminal
      [] OTHER -> {}

\* what a call is asked to record: its kind, target number (0: none), price and candle time
Ask(kind, number, price, at) == [kind |-> kind, number |-> number, price |-> price, at |-> at]

\* the idempotency key of the event the call writes: kind, target and source candle
Key(a) == <<a.kind, a.number, a.at>>

\* an event that ends the signal: its status is then terminal
Ends(e) ==
    \/ e[1] \in Terminal \union {"STOP_LOSS_HIT"}
    \/ e[1] = "TARGET_HIT" /\ e[2] >= LastTarget

\* the status a call moves the row to
NextStatus(a) ==
    CASE a.kind = "ENTRY_FILLED"  -> "OPEN"
      [] a.kind = "TARGET_HIT"    -> IF a.number >= LastTarget THEN "TP_HIT" ELSE "PARTIAL_TP"
      [] a.kind = "STOP_LOSS_HIT" -> "SL_HIT"
      [] OTHER                    -> a.kind

Tighter(price, stop) == IF Direction = "LONG" THEN price > stop ELSE price < stop

\* nothing to do: the event is on the row already, or the stop would be no tighter
Duplicate(x, a) ==
    \/ Key(a) \in x.events
    \/ a.kind = "STOP_MOVED" /\ ~Tighter(a.price, x.stop)

\* the call raises InvalidTransition
Refused(x, a) ==
    IF a.kind = "STOP_MOVED" THEN x.status \notin Working
    ELSE Key(a) \notin x.events /\ NextStatus(a) \notin Allowed(x.status)

Leg(price) == IF Direction = "LONG" THEN price - Entry ELSE Entry - price

\* weighted_return: every exit takes its share at its price, a price of final
\* closes the rest; {} is NULL
WeightedReturn(exits, final) ==
    LET take(b, e) ==
            LET share == Min({e.share, Whole - b.taken})
            IN [total |-> b.total + share * Leg(e.price), taken |-> b.taken + share]
        banked == FoldLeft(take, [total |-> 0, taken |-> 0], exits)
        rest == Whole - banked.taken
    IN IF rest > 0 /\ final # {} THEN {banked.total + rest * Leg(price) : price \in final}
       ELSE IF banked.taken > 0 THEN {banked.total} ELSE {}

\* the whole position at the last price
Realised_LastExit(hit, final) == WeightedReturn(<<>>, final)

\* _realized_pct: the targets of hit were taken, the rest closes at final; a
\* target that was not hit takes nothing
Realised(hit, final) ==
    WeightedReturn([n \in Numbers |-> [share |-> IF n \in hit THEN Share(n) ELSE 0,
                                      price |-> Ladder[n]]], final)

\* the targets of x that are taken once call a is made
Taken(x, a) == {n \in Numbers : x.hitAt[n] # Never \/ (a.kind = "TARGET_HIT" /\ n = a.number)}

\* record_entry_fill: when the order became a position
FilledAt(x, a) == IF a.kind = "ENTRY_FILLED" THEN a.at ELSE x.filledAt

\* the return a call books: whatever was banked at a target stays banked; a
\* call without a price closes nothing
Booked(x, a) ==
    IF Ends(Key(a)) /\ a.price # Never THEN Realised(Taken(x, a), {a.price}) ELSE x.result

\* the row after a call that is neither refused nor a duplicate
Written(x, a) ==
    [x EXCEPT
       !.status   = IF a.kind = "STOP_MOVED" THEN @ ELSE NextStatus(a),
       !.filledAt = FilledAt(x, a),
       !.hitAt    = [n \in Numbers |->
                       IF a.kind = "TARGET_HIT" /\ n = a.number /\ @[n] = Never THEN a.at ELSE @[n]],
       !.stop     = IF a.kind = "STOP_MOVED" THEN a.price ELSE @,
       !.result   = Booked(x, a),
       !.events   = @ \union {Key(a)}]

\* one lifecycle call on the locked row
Record(x, a) == IF Duplicate(x, a) THEN x ELSE Written(x, a)

\* record_excursion: the extremes seen since the fill only ever widen
Widen(x, low, high) ==
    [x EXCEPT !.low = IF low < @ THEN low ELSE @, !.high = IF high > @ THEN high ELSE @]

\* create_signal: a published signal is a working order
Published ==
    [status |-> "PENDING", filledAt |-> Never, hitAt |-> [n \in Numbers |-> Never],
     stop |-> StopLoss, events |-> {}, low |-> Entry, high |-> Entry, result |-> {},
     archived |-> FALSE]
=============================================================================
