--------------------------- MODULE SignalMonitor ---------------------------
(***************************************************************************)
(* The outcome monitor (signal_monitor.py): runs that list the working     *)
(* signals, fetch closed candles, decide what the market did to a signal   *)
(* and record it through signal_store.py, while candles close, the clock   *)
(* moves, other runs overlap and runs are cut off.                         *)
(*                                                                         *)
(* One signal, published at time Generated on the candle that closed at    *)
(* time 0.  The row lock is held from a run's first write until it commits,*)
(* so nobody sees a run half done; reads take no lock.                     *)
(***************************************************************************)
EXTENDS SignalStore

CONSTANTS
    Runs,            \* monitor runs that may overlap
    Candles,         \* the candles the market may print: <<low, high, close>>
    CandleTicks,     \* ticks of the clock a candle lasts
    Generated,       \* generated_at
    FillWindow,      \* ticks a working order may wait
    MaxAge,          \* ticks after which a signal is stale
    MaxClock,        \* bound: the clock stops here
    NoRun            \* "nobody holds the row lock"

ASSUME MonitorAssumption ==
    /\ Candles \subseteq {c \in Nat \X Nat \X Nat : c[1] <= c[3] /\ c[3] <= c[2]}
    /\ CandleTicks \in Nat \ {0}
    /\ Generated \in 0..(CandleTicks - 1)     \* published before the next candle closes
    /\ FillWindow \in Nat \ {0} /\ MaxAge \in Nat \ {0}
    /\ MaxClock \in Nat
    /\ NoRun \notin Runs

VARIABLES
    clock,    \* wall-clock time
    market,   \* the candles closed so far; candle i opened at OpenTime(i)
    row,      \* the signal as committed
    voided,   \* is there a row in signal_voids?
    pc,       \* pc[r]: where run r is
    snap,     \* snap[r]: the row run r listed
    fetched,  \* fetched[r]: how many closed candles run r fetched
    plan,     \* plan[r]: the calls run r decided on and has not made yet
    lock,     \* the run holding the row lock
    work      \* the row inside the lock holder's transaction

runvars == <<pc, snap, fetched, plan>>
vars == <<clock, market, row, voided, runvars, lock, work>>

OpenTime(i) == CandleTicks * (i - 1)
Deadline == Generated + FillWindow

Low(c)  == c[1]
High(c) == c[2]
Close(c) == c[3]
Touched(price, c) == Low(c) <= price /\ price <= High(c)
Reached(price, c) == IF Direction = "LONG" THEN High(c) >= price ELSE Low(c) <= price
Stopped(price, c) == IF Direction = "LONG" THEN Low(c) <= price ELSE High(c) >= price

Init ==
    /\ clock = Generated /\ market = <<>>
    /\ row = Published /\ voided = FALSE
    /\ pc = [r \in Runs |-> "idle"]
    /\ snap = [r \in Runs |-> Published]
    /\ fetched = [r \in Runs |-> 0]
    /\ plan = [r \in Runs |-> <<>>]
    /\ lock = NoRun /\ work = Published

-----------------------------------------------------------------------------
(* The decision: a walk over the candles, oldest first.                    *)

Start(x) ==
    [waiting |-> x.status = "PENDING", stop |-> x.stop,
     left |-> {n \in Numbers : x.hitAt[n] = Never},
     calls |-> <<>>, last |-> Never, close |-> Never, over |-> FALSE]

Adds(w, calls) == [w EXCEPT !.calls = @ \o calls]
Over(w) == [w EXCEPT !.over = TRUE]

Withdrawal(w) ==
    <<Ask("CANCELLED", 0, Never, IF w.last = Never THEN Deadline ELSE w.last)>>

\* HitsUpTo(S, at)[n]: the first n targets, those of S, in ladder order
HitsUpTo(S, at) ==
    LET hits[n \in 0..LastTarget] ==
            IF n = 0 THEN <<>>
            ELSE IF n \notin S THEN hits[n - 1]
            ELSE Append(hits[n - 1], Ask("TARGET_HIT", n, Ladder[n], at))
    IN  hits

Hits(S, at) == HitsUpTo(S, at)[LastTarget]

Judge_Optimist(w, c, at) ==
    LET hits == {n \in w.left : Reached(Ladder[n], c)}
        after == [Adds(w, Hits(hits, at)) EXCEPT !.left = @ \ hits]
    IN IF hits = {} /\ Stopped(w.stop, c)
         THEN Over(Adds(w, <<Ask("STOP_LOSS_HIT", 0, w.stop, at)>>))
       ELSE IF after.left = {} /\ after.calls # <<>> THEN Over(after)
       ELSE IF hits # {} /\ w.stop # Entry
         THEN [Adds(after, <<Ask("STOP_MOVED", 0, Entry, at)>>) EXCEPT !.stop = Entry]
       ELSE after

\* a candle of a filled trade: the stop wins over every target in the same candle
Judge(w, c, at) ==
    LET hits == {n \in w.left : Reached(Ladder[n], c)}
        after == [Adds(w, Hits(hits, at)) EXCEPT !.left = @ \ hits]
    IN IF Stopped(w.stop, c)
         THEN Over(Adds(w, <<Ask("STOP_LOSS_HIT", 0, w.stop, at)>>))
       ELSE IF after.left = {} /\ after.calls # <<>> THEN Over(after)
       ELSE IF hits # {} /\ w.stop # Entry
         THEN [Adds(after, <<Ask("STOP_MOVED", 0, Entry, at)>>) EXCEPT !.stop = Entry]
       ELSE after

\* the fill deadline is only looked at when the candles have run out
Walk_LateFills(w, c, at) ==
    IF w.over THEN w
    ELSE LET v == [w EXCEPT !.last = at, !.close = Close(c)]
         IN IF ~w.waiting THEN Judge(v, c, at)
            ELSE IF ~Touched(Entry, c) THEN v
            ELSE Judge([Adds(v, <<Ask("ENTRY_FILLED", 0, Entry, at)>>) EXCEPT !.waiting = FALSE], c, at)

\* one candle that opened at time at
Walk(w, c, at) ==
    IF w.over THEN w
    ELSE IF w.waiting /\ at >= Deadline THEN Over([w EXCEPT !.calls = Withdrawal(w)])
    ELSE LET v == [w EXCEPT !.last = at, !.close = Close(c)]
         IN IF ~w.waiting THEN Judge(v, c, at)
            ELSE IF ~Touched(Entry, c) THEN v
            ELSE Judge([Adds(v, <<Ask("ENTRY_FILLED", 0, Entry, at)>>) EXCEPT !.waiting = FALSE], c, at)

\* Walked(x)[n]: the walk for row x after n candles
Walked(x) ==
    LET walk[n \in 0..Len(market)] ==
            IF n = 0 THEN Start(x) ELSE Walk(walk[n - 1], market[n], OpenTime(n))
    IN  walk

\* the calls for a row x, the first n candles and the time now
Evaluate(x, n, now) ==
    LET end == Walked(x)[n]
    IN IF x.status \notin Working THEN <<>>
       ELSE IF end.over THEN end.calls
       ELSE IF end.waiting THEN IF now >= Deadline THEN Withdrawal(end) ELSE <<>>
       ELSE IF now - Generated >= MaxAge
         THEN Append(end.calls, Ask("EXPIRED", 0, end.close,
                                    IF end.last = Never THEN Generated + MaxAge ELSE end.last))
       ELSE end.calls

\* when the trade of row x was filled, as the row or this run's calls know it
FillTime(x, calls) ==
    IF x.filledAt # Never \/ calls = <<>> \/ Head(calls).kind # "ENTRY_FILLED" THEN x.filledAt
    ELSE Head(calls).at

\* the candles a measurement covers: all from the fill on
Measured(fill, n) == {i \in 1..n : fill # Never /\ OpenTime(i) >= fill}

\* does the measurement exceed what the row already says?
Wider(x, S) == \E i \in S : Low(market[i]) < x.low \/ High(market[i]) > x.high

-----------------------------------------------------------------------------
(* A run.                                                                  *)

Goto(r, step) == pc' = [pc EXCEPT ![r] = step]

Ended(r) ==
    /\ Goto(r, "idle")
    /\ plan' = [plan EXCEPT ![r] = <<>>]
    /\ snap' = [snap EXCEPT ![r] = Published]
    /\ fetched' = [fetched EXCEPT ![r] = 0]

\* a working order is not listed
List_SkipsPending(r) ==
    /\ pc[r] = "idle" /\ row.status \in Working \ {"PENDING"}
    /\ snap' = [snap EXCEPT ![r] = row]
    /\ Goto(r, "listed")
    /\ UNCHANGED <<clock, market, row, voided, fetched, plan, lock, work>>

\* list_active_signals
List(r) ==
    /\ pc[r] = "idle" /\ row.status \in Working
    /\ snap' = [snap EXCEPT ![r] = row]
    /\ Goto(r, "listed")
    /\ UNCHANGED <<clock, market, row, voided, fetched, plan, lock, work>>

\* attach_targets: a second query, which sees what was committed since
AttachTargets(r) ==
    /\ pc[r] = "listed"
    /\ snap' = [snap EXCEPT ![r].hitAt = row.hitAt]
    /\ Goto(r, "ladder")
    /\ UNCHANGED <<clock, market, row, voided, fetched, plan, lock, work>>

Fetch(r) ==
    /\ pc[r] = "ladder"
    /\ fetched' = [fetched EXCEPT ![r] = Len(market)]
    /\ Goto(r, "fetched")
    /\ UNCHANGED <<clock, market, row, voided, snap, plan, lock, work>>

\* evaluate, with the clock read at that moment; a quiet signal ends the run
Decide(r) ==
    /\ pc[r] = "fetched"
    /\ LET calls == Evaluate(snap[r], fetched[r], clock)
           S == Measured(FillTime(snap[r], calls), fetched[r])
       IN IF calls = <<>> /\ ~Wider(snap[r], S) THEN Ended(r)
          ELSE /\ plan' = [plan EXCEPT ![r] = calls]
               /\ Goto(r, "decided")
               /\ UNCHANGED <<snap, fetched>>
    /\ UNCHANGED <<clock, market, row, voided, lock, work>>

\* writes over what it listed instead of the row it has locked
Begin_Stale(r) ==
    /\ pc[r] = "decided" /\ lock = NoRun
    /\ work' = snap[r]
    /\ lock' = r
    /\ Goto(r, "applying")
    /\ UNCHANGED <<clock, market, row, voided, snap, fetched, plan>>

\* the first write of the transaction takes the row lock; the measurement comes first
Begin(r) ==
    /\ pc[r] = "decided" /\ lock = NoRun
    /\ LET S == Measured(FillTime(snap[r], plan[r]), fetched[r])
           ends == {Low(market[i]) : i \in S} \union {High(market[i]) : i \in S}
       IN work' = IF Wider(snap[r], S) THEN Widen(row, Min(ends), Max(ends)) ELSE row
    /\ lock' = r
    /\ Goto(r, "applying")
    /\ UNCHANGED <<clock, market, row, voided, snap, fetched, plan>>

\* apply_actions: the next call; the first refused one ends the list
Apply(r) ==
    /\ pc[r] = "applying" /\ plan[r] # <<>>
    /\ LET a == Head(plan[r])
       IN IF Refused(work, a)
            THEN plan' = [plan EXCEPT ![r] = <<>>] /\ UNCHANGED work
            ELSE plan' = [plan EXCEPT ![r] = Tail(@)] /\ work' = Record(work, a)
    /\ UNCHANGED <<clock, market, row, voided, pc, snap, fetched, lock>>

Commit(r) ==
    /\ pc[r] = "applying" /\ plan[r] = <<>>
    /\ row' = work /\ lock' = NoRun /\ work' = Published
    /\ Ended(r)
    /\ UNCHANGED <<clock, market, voided>>

\* no candles, a database error, the budget or the platform's limit: nothing is kept
CutOff(r) ==
    /\ pc[r] # "idle"
    /\ IF lock = r THEN lock' = NoRun /\ work' = Published ELSE UNCHANGED <<lock, work>>
    /\ Ended(r)
    /\ UNCHANGED <<clock, market, row, voided>>

-----------------------------------------------------------------------------
(* The owner: /api/signals/<id>/archive and /void.                         *)

Archive ==
    /\ lock = NoRun /\ row.status \in Terminal /\ ~row.archived
    /\ row' = [row EXCEPT !.archived = TRUE, !.events = @ \union {<<"ARCHIVED", 0, Never>>}]
    /\ UNCHANGED <<clock, market, voided, runvars, lock, work>>

\* reads the status without a lock
Void ==
    /\ row.status \in Terminal /\ ~voided
    /\ voided' = TRUE
    /\ UNCHANGED <<clock, market, row, runvars, lock, work>>

\* time passes; at the end of a candle's time it closes
Tick ==
    /\ clock < MaxClock
    /\ clock' = clock + 1
    /\ IF (clock + 1) % CandleTicks = 0
         THEN \E c \in Candles : market' = Append(market, c)
         ELSE UNCHANGED market
    /\ UNCHANGED <<row, voided, runvars, lock, work>>

Step(r) ==
    \/ List(r) \/ AttachTargets(r) \/ Fetch(r) \/ Decide(r)
    \/ Begin(r) \/ Apply(r) \/ Commit(r)

Next ==
    \/ Tick \/ Archive \/ Void
    \/ \E r \in Runs : Step(r) \/ CutOff(r)

Spec == Init /\ [][Next]_vars

\* time passes, the scheduler keeps calling, and some day a run ends by its own
\* steps only (a quiet Decide leaves the same state as being cut off)
Fairness ==
    /\ WF_vars(Tick)
    /\ \A r \in Runs : WF_vars(Step(r))
    /\ <>[][\A r \in Runs : CutOff(r) => Step(r)]_vars

FairSpec == Spec /\ Fairness

-----------------------------------------------------------------------------
(* Properties.                                                             *)

Kinds == {"ENTRY_FILLED", "TARGET_HIT", "STOP_MOVED", "STOP_LOSS_HIT", "EXPIRED",
          "CANCELLED", "ARCHIVED"}
Times == 0..(MaxClock + FillWindow + MaxAge)
Levels == {Entry, StopLoss} \union {Ladder[n] : n \in Numbers} \union UNION {{c[1], c[2]} : c \in Candles}

Rows ==
    [status : Statuses, filledAt : Times \union {Never}, hitAt : [Numbers -> Times \union {Never}],
     stop : {StopLoss, Entry}, events : SUBSET (Kinds \X (Numbers \union {0}) \X (Times \union {Never})),
     low : Levels, high : Levels, result : SUBSET Int, archived : BOOLEAN]

\* Every variable keeps its type; an event that a run records has a time.
TypeOK ==
    /\ clock \in Generated..MaxClock
    /\ market \in Seq(Candles) /\ Len(market) = clock \div CandleTicks
    /\ {row, work} \subseteq Rows /\ \A r \in Runs : snap[r] \in Rows
    /\ \A e \in row.events : e[1] = "ARCHIVED" \/ e[3] \in Times
    /\ voided \in BOOLEAN
    /\ pc \in [Runs -> {"idle", "listed", "ladder", "fetched", "decided", "applying"}]
    /\ \A r \in Runs : fetched[r] \in 0..Len(market) /\ Len(plan[r]) <= 2 * LastTarget + 3
    /\ lock \in Runs \union {NoRun}

Endings(x) == {e \in x.events : Ends(e)}

\* A signal has at most one ending, and it has one exactly when its status is
\* terminal, however many runs overlap: no trade is recorded as won and lost.
OneVerdict ==
    /\ \A d, e \in Endings(row) : d = e
    /\ row.status \in Terminal <=> Endings(row) # {}
    /\ voided \/ row.archived => row.status \in Terminal

\* A committed ending is never rewritten: a late run, an archive or a void
\* leaves the status, the fill, the targets, the stop, the return and the story.
VerdictIsFinal ==
    [][row.status \in Terminal =>
         /\ row'.status = row.status /\ row'.filledAt = row.filledAt
         /\ row'.hitAt = row.hitAt /\ row'.stop = row.stop /\ row'.result = row.result
         /\ Endings(row') = Endings(row)]_vars

\* Candle i opened while the order was working and traded at the entry.
Fillable(i) == OpenTime(i) < Deadline /\ Touched(Entry, market[i])

\* The fill is the first touch of the entry inside the window, whichever run
\* records it and however late it runs.
FillIsFirstTouch ==
    row.filledAt # Never =>
        \E i \in DOMAIN market :
            /\ OpenTime(i) = row.filledAt /\ Fillable(i)
            /\ \A j \in 1..(i - 1) : ~Fillable(j)

\* No target counts in or after a candle that took the published stop, seen
\* from the fill: the stored history cannot flatter the strategy.
NoWinAfterStop ==
    \A e \in row.events : e[1] = "TARGET_HIT" =>
        ~ \E i \in DOMAIN market :
            /\ row.filledAt <= OpenTime(i) /\ OpenTime(i) <= e[3]
            /\ Stopped(StopLoss, market[i])

\* The return of an ended trade follows from its own row: each target that was
\* taken pays its share at its price, and what was left paid at the stop as it
\* stood then, at the last close of the candles, or nothing was left ("whatever
\* was already banked at a target stays banked", "where the stop actually sits").
ReturnFollowsRow ==
    LET hit == {n \in Numbers : row.hitAt[n] # Never}
        paid == SumFunctionOnSet([n \in Numbers |-> Share(n) * Leg(Ladder[n])], hit)
        left == Whole - SumFunctionOnSet([n \in Numbers |-> Share(n)], hit)
        closes == {Close(market[i]) : i \in DOMAIN market}
    IN CASE row.status = "TP_HIT" -> row.result = {paid} /\ left = 0
         [] row.status = "SL_HIT" -> row.result = {paid + left * Leg(row.stop)}
         [] row.status = "EXPIRED" /\ row.filledAt # Never ->
              \E price \in closes : row.result = {paid + left * Leg(price)}
         [] OTHER -> row.result = {}

\* A signal withdrawn as never filled has not been filled.  The code does less
\* once runs overlap (README.md, "Further disagreements").
CancelledNeverFilled == row.status = "CANCELLED" => row.filledAt = Never

\* A signal is filled or withdrawn by its candles, not by when they arrive.
\* The code does less: it does not hold for a candle that closes after the
\* deadline (README.md, "Further disagreements").
WithdrawnUntouched == row.status = "CANCELLED" => ~ \E i \in DOMAIN market : Fillable(i)

\* Nothing happens to a trade before it is filled.
NoOutcomeBeforeFill ==
    \A e \in row.events : e[1] \in {"TARGET_HIT", "STOP_LOSS_HIT"} => e[3] >= row.filledAt

\* A run over the candles the row was just decided on decides nothing new.
RerunDecidesNothing ==
    \A r \in Runs : pc[r] = "applying" /\ plan[r] = <<>> =>
        LET again == Evaluate(work, fetched[r], clock)
        IN \A k \in DOMAIN again : again[k].kind \in {"EXPIRED", "CANCELLED"}

\* The measured extremes are those of the trade, from the fill to its end.
\* The code does less: a late run measures on past the end (README.md, same
\* section).
MeasuredWhileOpen ==
    \A e \in Endings(row) : row.filledAt # Never =>
        \A price \in {row.low, row.high} \ {Entry} :
            \E i \in DOMAIN market :
                /\ row.filledAt <= OpenTime(i) /\ OpenTime(i) <= e[3]
                /\ price \in {Low(market[i]), High(market[i])}

\* Every published signal gets an outcome.
EverySignalEnds == <>(row.status \in Terminal)
=============================================================================
