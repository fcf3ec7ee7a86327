--------------------------- MODULE MCClosePublish ---------------------------
(* A Saturday: the day and the business week close together.  The lists    *)
(* are ranked; b and e are highly correlated, the venue is the exchange    *)
(* that served the candle.                                                 *)
EXTENDS ClosePublish, SignalChecks

CONSTANTS b, e, v1, v2, c1, c2

Instances == {c1, c2}
CallSymmetry == Permutations(Instances)

Saturday == DueOn(5)

Cand(coin, venue, dir) == [coin |-> coin, venue |-> venue, direction |-> dir, corr |-> TRUE]

\* the second scan reads b the other way and finds e on another exchange
ScanLists == {<<Cand(b, v1, "LONG")>>, <<Cand(e, v2, "SHORT"), Cand(b, v1, "SHORT")>>}

-----------------------------------------------------------------------------
(* The algorithms of ClosePicks against their reference definitions.       *)

Kinds == [direction : {"LONG", "SHORT"}, corr : BOOLEAN]
Ranked == UNION {[1..n -> Kinds] : n \in 0..4}
Named(list) == [i \in DOMAIN list |-> [coin |-> i, venue |-> v1,
                    direction |-> list[i].direction, corr |-> list[i].corr]]

\* select_publishable publishes what WellSelected asks for
ASSUME SelectionIsRight ==
    \A list \in Ranked, n \in 1..3 :
        WellSelected(Named(list), n, SelectPublishable(Named(list), n))

\* group shows every pick of every close once, the agreeing ones first
ASSUME GroupingIsRight ==
    LET One == {<<>>} \union {<<Cand(x, v1, d)>> : x \in {b, e}, d \in {"LONG", "SHORT"}}
               \union {<<Cand(b, v1, d), Cand(e, v1, f)>> : d, f \in {"LONG", "SHORT"}}
    IN  \A s, t, u \in One : WellGrouped(<<s, t, u>>, Group(<<s, t, u>>))

\* business_weeks folds the days it is given into true weekly candles,
\* whatever days of three weeks are missing and in whatever order they come
ASSUME WeeksAreRight ==
    LET Day(d) == [day |-> d, open |-> (3 * d) % 5, close |-> (2 * d) % 7,
                   high |-> 5 + ((d * d) % 4), low |-> (d * d) % 3, volume |-> d]
        Given(gone, back) ==
            LET days == SelectSeq([i \in 1..19 |-> Day(i - 1)], LAMBDA c : c.day \notin gone)
            IN  IF back THEN Reverse(days) ELSE days
    IN  \A gone \in UNION {kSubset(n, 0..18) : n \in 0..2}, back \in BOOLEAN :
            WellFolded(Given(gone, back), BusinessWeeks(Given(gone, back)))

\* a day has its own close, and no day has both weeks
ASSUME DueIsRight ==
    \A d \in 0..6 : DueOn(d)[1] = "1D" /\ Len(DueOn(d)) = (IF d \in {0, 5} THEN 2 ELSE 1)
=============================================================================
