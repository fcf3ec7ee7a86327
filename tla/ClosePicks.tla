------------------------------ MODULE ClosePicks ----------------------------
(***************************************************************************)
(* The pure part of backend/close_publish.py and rec_policy.py that        *)
(* decides what a close post holds: which closes are due, which of the     *)
(* ranked candidates are published, how the picks of several closes are    *)
(* grouped.  A candidate is a record with the fields coin, venue,          *)
(* direction and corr (its correlation with BTC reaches HIGH_CORR).        *)
(***************************************************************************)
EXTENDS Naturals, Sequences, SequencesExt, FiniteSetsExt

\* due: weekday 0 is Monday; the closes that end at that day's 00:00 UTC
DueOn(weekday) ==
    <<"1D">> \o (IF weekday = 5 THEN <<"BW">> ELSE <<>>)
             \o (IF weekday = 0 THEN <<"1W">> ELSE <<>>)

\* business_weeks: Monday to Friday folded into one candle per week, in the
\* order of the weeks.  A candle is a record with the fields day (a Monday is
\* a multiple of 7), open, high, low, close and volume.
BusinessWeeks(daily) ==
    LET days == SelectSeq(daily, LAMBDA c : c.day % 7 < 5)
        Monday(c) == c.day - (c.day % 7)
        mondays == {Monday(days[i]) : i \in DOMAIN days}
        Week(m) == SortSeq(SelectSeq(days, LAMBDA c : Monday(c) = m), LAMBDA c, d : c.day < d.day)
        Kept(m) == Len(Week(m)) >= 5 \/ \A n \in mondays : n <= m
        Candle(m) ==
            LET week == Week(m) IN
            [day |-> m, open |-> Head(week).open, close |-> Last(week).close,
             high |-> Max({week[i].high : i \in DOMAIN week}),
             low |-> Min({week[i].low : i \in DOMAIN week}),
             volume |-> FoldLeft(LAMBDA sum, c : sum + c.volume, 0, week)]
        order == SetToSortSeq({m \in mondays : Kept(m)}, <)
    IN  [i \in DOMAIN order |-> Candle(order[i])]

\* c would be the third highly correlated pick of its direction
ThirdOfAKind(picked, c) ==
    c.corr /\ Cardinality({i \in DOMAIN picked :
                  picked[i].corr /\ picked[i].direction = c.direction}) >= 2

\* select_publishable: one candidate of the ranked list is taken until the post
\* is full, but a third of a kind waits
Take(acc, c, topN) ==
    IF Len(acc.top) >= topN THEN acc
    ELSE IF ThirdOfAKind(acc.top, c)
         THEN [acc EXCEPT !.deferred = Append(@, c)]
         ELSE [acc EXCEPT !.top = Append(@, c)]

Greedy(ranked, topN) ==
    LET after[i \in 0..Len(ranked)] ==
            IF i = 0 THEN [top |-> <<>>, deferred |-> <<>>]
            ELSE Take(after[i - 1], ranked[i], topN)
    IN  after

\* ... and what is still free is filled with those that waited
SelectPublishable(ranked, topN) ==
    LET filled == Greedy(ranked, topN)[Len(ranked)]
        backfill == filled.top \o filled.deferred
    IN  SubSeq(backfill, 1, IF Len(backfill) < topN THEN Len(backfill) ELSE topN)

\* group: one entry per coin and direction over the sets of the closes, the
\* entries of more closes first, otherwise in the order of the closes
Group(sets) ==
    LET All == FoldLeft(LAMBDA acc, s : acc \o s, <<>>, sets)
        Key(r) == <<r.coin, r.direction>>
        Add(acc, r) == IF \E i \in DOMAIN acc : acc[i] = Key(r) THEN acc ELSE Append(acc, Key(r))
        order == FoldLeft(Add, <<>>, All)
        Tfs(key) == {i \in DOMAIN sets : \E j \in DOMAIN sets[i] : Key(sets[i][j]) = key}
        entries == [i \in DOMAIN order |-> [key |-> order[i], tfs |-> Tfs(order[i])]]
        OfSize(n) == SelectSeq(entries, LAMBDA e : Cardinality(e.tfs) = n)
    IN  FoldLeft(LAMBDA acc, n : OfSize(n) \o acc, <<>>, [n \in 1..Len(sets) |-> n])

-----------------------------------------------------------------------------
(* Reference definitions: what a published list must be, whatever walks    *)
(* the candidates.                                                         *)

\* The weekly candles tell the truth about the days they cover: each one holds
\* every weekday of its week, opens with the first and closes with the last of
\* them, and only the newest may hold fewer than five days.
WellFolded(daily, weeks) ==
    LET Of(w) == {i \in DOMAIN daily : daily[i].day \in w.day .. w.day + 4} IN
    /\ \A i, j \in DOMAIN weeks : i < j => weeks[i].day < weeks[j].day
    /\ \A i \in DOMAIN weeks :
          LET w == weeks[i] IN
          /\ Cardinality(Of(w)) = 5 \/ (i = Len(weeks) /\ Of(w) # {})
          /\ \A d \in Of(w) :
                /\ daily[d].high <= w.high /\ daily[d].low >= w.low
                /\ (\A e \in Of(w) : daily[d].day <= daily[e].day) => w.open = daily[d].open
                /\ (\A e \in Of(w) : daily[d].day >= daily[e].day) => w.close = daily[d].close
          /\ \E d \in Of(w) : daily[d].high = w.high
          /\ \E d \in Of(w) : daily[d].low = w.low
          /\ w.volume = MapThenSumSet(LAMBDA d : daily[d].volume, Of(w))
    /\ \A d \in DOMAIN daily :
          (daily[d].day % 7 < 5 /\ \A k \in 0..4 : \E e \in DOMAIN daily :
                daily[e].day = daily[d].day - (daily[d].day % 7) + k)
          => \E i \in DOMAIN weeks : d \in Of(weeks[i])

\* the positions of the candidates that are not a third of a kind among the
\* better ranked ones that are not one themselves
GoodRanks(ranked) ==
    LET good[i \in 0..Len(ranked)] ==
            IF i = 0 THEN {}
            ELSE LET before == good[i - 1] IN
                 IF ThirdOfAKind(SelectSeq(SubSeq(ranked, 1, i - 1),
                        LAMBDA c : \E j \in before : ranked[j] = c), ranked[i])
                 THEN before ELSE before \union {i}
    IN  good[Len(ranked)]

\* A list of distinct ranked candidates is published right when it is as long
\* as it can be, keeps the rank among those of a sort, and takes a third of a
\* kind only when no other candidate is left.
WellSelected(ranked, topN, picks) ==
    LET n == IF Len(ranked) < topN THEN Len(ranked) ELSE topN
        good == GoodRanks(ranked)
        Taken == {i \in DOMAIN ranked : \E j \in DOMAIN picks : picks[j] = ranked[i]}
        BestOf(S) == \A i \in S \intersect Taken, j \in S \ Taken : i < j
    IN  /\ Len(picks) = n /\ Cardinality(Taken) = n
        /\ BestOf(good) /\ BestOf(DOMAIN ranked \ good)
        /\ Taken \ good # {} => good \subseteq Taken

\* The entries of a post show every pick of every close exactly once, and no
\* entry of fewer closes stands before one of more.
WellGrouped(sets, entries) ==
    /\ \A i \in DOMAIN sets : \A j \in DOMAIN sets[i] :
          Cardinality({e \in DOMAIN entries :
              /\ entries[e].key = <<sets[i][j].coin, sets[i][j].direction>>
              /\ i \in entries[e].tfs}) = 1
    /\ \A d, e \in DOMAIN entries :
          d < e => Cardinality(entries[d].tfs) >= Cardinality(entries[e].tfs)
    /\ \A e \in DOMAIN entries : \A i \in entries[e].tfs :
          \E j \in DOMAIN sets[i] : <<sets[i][j].coin, sets[i][j].direction>> = entries[e].key
=============================================================================
