-------------------------- MODULE Monitor_proofs ----------------------------
(***************************************************************************)
(* Proofs about the outcome monitor. A signal has one ending and keeps it: *)
(* for any number of overlapping runs, any market, ladder and clock, and   *)
(* whatever a run decides. The argument uses nothing of the decision: the  *)
(* row lock and the status machine of the store alone carry it.            *)
(*                                                                         *)
(* What a run decides is good, however stale what it listed: a fill is the *)
(* first touch of the window, a target lies before any candle at the       *)
(* published stop. The store keeps that of every row, and the candles that *)
(* close later change nothing of it.                                       *)
(*                                                                         *)
(* A run that is alone decides what fits the row it writes to: the return  *)
(* it books is that of the targets and the stop on the row.                *)
(*                                                                         *)
(* And what a run over many signals reports as finished is committed: the  *)
(* order of the list repeats no signal, so nothing a run holds back is     *)
(* what it has finished.                                                   *)
(***************************************************************************)
EXTENDS SignalMonitor, MonitorRotation, SequenceTheorems, FiniteSetTheorems, TLAPS

Rules == INSTANCE Rules_proofs

\* x is a signal row
IsRow(x) ==
    x \in [status : {x.status}, filledAt : {x.filledAt}, hitAt : {x.hitAt}, stop : {x.stop},
           events : {x.events}, low : {x.low}, high : {x.high}, result : {x.result},
           archived : {x.archived}]

\* x has at most one ending, and one exactly when its status is terminal
Sound(x) ==
    /\ IsRow(x)
    /\ \A d, e \in Endings(x) : d = e
    /\ x.status \in Terminal <=> Endings(x) # {}

\* y tells the same final story as x
SameStory(x, y) ==
    /\ y.status = x.status /\ y.filledAt = x.filledAt
    /\ y.hitAt = x.hitAt /\ y.stop = x.stop /\ y.result = x.result
    /\ Endings(y) = Endings(x)

Steps == {"idle", "listed", "ladder", "fetched", "decided", "applying"}

\* A run that applies holds the lock, and its transaction is a continuation of
\* the committed row.
IInv ==
    /\ Sound(row) /\ Sound(work)
    /\ voided \/ row.archived => row.status \in Terminal
    /\ lock # NoRun =>
         /\ work.archived = row.archived
         /\ row.status \in Terminal => SameStory(row, work)
    /\ pc \in [Runs -> Steps]
    /\ \A r \in Runs : pc[r] = "applying" => lock = r

-----------------------------------------------------------------------------

\* A newly published signal has no ending and needs none.
LEMMA PublishedSound == Sound(Published)
BY DEF Sound, IsRow, Published, Endings, Terminal

\* Measuring changes nothing but the extremes.
LEMMA WidenSame ==
    ASSUME NEW x, NEW low, NEW high, Sound(x)
    PROVE  /\ Sound(Widen(x, low, high))
           /\ SameStory(x, Widen(x, low, high))
           /\ Widen(x, low, high).archived = x.archived
<1> DEFINE y == Widen(x, low, high)
<1>1. /\ y.status = x.status /\ y.filledAt = x.filledAt /\ y.hitAt = x.hitAt
      /\ y.stop = x.stop /\ y.result = x.result /\ y.events = x.events /\ y.archived = x.archived
      /\ IsRow(y)
  BY DEF Sound, IsRow, Widen, y
<1>2. Endings(y) = Endings(x)
  BY <1>1 DEF Endings
<1> QED
  BY <1>1, <1>2 DEF Sound, SameStory

\* Every call on a finished signal is refused or a duplicate.
LEMMA FinishedIsClosed ==
    ASSUME NEW x, NEW a, x.status \in Terminal
    PROVE  Refused(x, a) \/ Record(x, a) = x
<1>1. x.status \notin Working /\ Allowed(x.status) = {}
  BY DEF Terminal, Working, Allowed
<1> QED
  BY <1>1 DEF Refused, Record, Duplicate

\* The event of a call ends the signal exactly when its next status is terminal.
LEMMA KeyEnds ==
    ASSUME NEW a, a.kind # "STOP_MOVED", NextStatus(a) \in Statuses
    PROVE  Ends(Key(a)) <=> NextStatus(a) \in Terminal
<1>1. CASE a.kind = "TARGET_HIT"
  BY <1>1 DEF Ends, Key, NextStatus, Terminal
<1>2. CASE a.kind = "ENTRY_FILLED"
  BY <1>2 DEF Ends, Key, NextStatus, Terminal
<1>3. CASE a.kind = "STOP_LOSS_HIT"
  BY <1>3 DEF Ends, Key, NextStatus, Terminal
<1>4. CASE a.kind \notin {"TARGET_HIT", "ENTRY_FILLED", "STOP_LOSS_HIT"}
  BY <1>4 DEF Ends, Key, NextStatus, Terminal
<1> QED
  BY <1>1, <1>2, <1>3, <1>4

\* A call that is not refused keeps a row sound.
LEMMA RecordSound ==
    ASSUME NEW x, NEW a, Sound(x), ~Refused(x, a)
    PROVE  Sound(Record(x, a)) /\ Record(x, a).archived = x.archived
<1>1. CASE Duplicate(x, a)
  BY <1>1 DEF Record
<1>2. CASE ~Duplicate(x, a)
  <2> DEFINE y == Written(x, a)
  <2>1. /\ y.status = IF a.kind = "STOP_MOVED" THEN x.status ELSE NextStatus(a)
        /\ y.events = x.events \union {Key(a)}
        /\ y.archived = x.archived
        /\ IsRow(y)
    BY DEF Sound, IsRow, Written, y
  <2>2. Endings(y) = Endings(x) \union {e \in {Key(a)} : Ends(e)}
    BY <2>1 DEF Endings
  <2>3. CASE a.kind = "STOP_MOVED"
    <3>1. ~Ends(Key(a))
      BY <2>3 DEF Ends, Key, Terminal
    <3> QED
      BY <1>2, <2>1, <2>2, <2>3, <3>1 DEF Sound, Record
  <2>4. CASE a.kind # "STOP_MOVED"
    <3>1. NextStatus(a) \in Allowed(x.status)
      BY <1>2, <2>4 DEF Refused, Duplicate
    <3>2. x.status \notin Terminal /\ NextStatus(a) \in Statuses
      BY <3>1 DEF Allowed, Statuses, Working, Terminal
    <3>3. Endings(x) = {}
      BY <3>2 DEF Sound
    <3>4. Ends(Key(a)) <=> NextStatus(a) \in Terminal
      BY <2>4, <3>2, KeyEnds
    <3> QED
      BY <1>2, <2>1, <2>2, <2>4, <3>3, <3>4 DEF Sound, Record
  <2> QED
    BY <2>3, <2>4
<1> QED
  BY <1>1, <1>2

-----------------------------------------------------------------------------

\* The invariant holds of a signal that is newly published.
LEMMA InitIInv == Init => IInv
BY PublishedSound, MonitorAssumption DEF Init, IInv, Steps, Published

\* Every step keeps IInv and never rewrites a committed ending.
LEMMA NextIInv ==
    IInv /\ [Next]_vars => IInv' /\ (row.status \in Terminal => SameStory(row, row'))
<1> SUFFICES ASSUME IInv, [Next]_vars
             PROVE  IInv' /\ (row.status \in Terminal => SameStory(row, row'))
  OBVIOUS
<1> USE MonitorAssumption
<1>1. ASSUME UNCHANGED <<row, voided, lock, work, pc>> PROVE IInv' /\ SameStory(row, row')
  BY <1>1 DEF IInv, SameStory, Sound, IsRow, Endings
<1>2. CASE UNCHANGED vars
  BY <1>1, <1>2 DEF vars, runvars
<1>3. CASE Tick
  BY <1>1, <1>3 DEF Tick, runvars
<1>4. CASE Void
  BY <1>4 DEF Void, runvars, IInv, SameStory, Sound, IsRow, Endings
<1>5. CASE Archive
  <2>1. /\ row'.status = row.status /\ row'.filledAt = row.filledAt
        /\ row'.hitAt = row.hitAt /\ row'.stop = row.stop /\ row'.result = row.result
        /\ row'.events = row.events \union {<<"ARCHIVED", 0, Never>>}
        /\ IsRow(row')
    BY <1>5 DEF Archive, IInv, Sound, IsRow
  <2>2. ~Ends(<<"ARCHIVED", 0, Never>>)
    BY DEF Ends, Terminal
  <2>3. Endings(row') = Endings(row)
    BY <2>1, <2>2 DEF Endings
  <2>4. Sound(row') /\ SameStory(row, row')
    BY <2>1, <2>3 DEF IInv, Sound, SameStory
  <2> QED
    BY <1>5, <2>1, <2>4 DEF Archive, runvars, IInv, Sound, IsRow, Endings
<1>6. ASSUME NEW r \in Runs, Step(r) \/ CutOff(r)
      PROVE  IInv' /\ (row.status \in Terminal => SameStory(row, row'))
  <2>1. CASE List(r) \/ AttachTargets(r) \/ Fetch(r) \/ Decide(r)
    <3>1. UNCHANGED <<row, voided, lock, work>>
      BY <2>1 DEF List, AttachTargets, Fetch, Decide
    <3>2. /\ pc' \in [Runs -> Steps]
          /\ \A q \in Runs : pc'[q] = "applying" => pc[q] = "applying"
      BY <2>1 DEF List, AttachTargets, Fetch, Decide, Ended, Goto, IInv, Steps
    <3> QED
      BY <3>1, <3>2 DEF IInv, SameStory, Sound, IsRow, Endings
  <2>2. CASE Begin(r)
    <3>1. UNCHANGED <<row, voided>> /\ lock = NoRun /\ lock' = r
      BY <2>2 DEF Begin
    <3>2. Sound(work') /\ SameStory(row, work') /\ work'.archived = row.archived
      <4>1. \/ work' = row
            \/ \E low, high : work' = Widen(row, low, high)
        BY <2>2 DEF Begin
      <4>2. SameStory(row, row)
        BY DEF SameStory
      <4> QED
        BY <4>1, <4>2, WidenSame DEF IInv
    <3>3. pc' \in [Runs -> Steps] /\ \A q \in Runs : pc'[q] = "applying" => q = r
      BY <2>2, <3>1 DEF Begin, Goto, IInv, Steps
    <3> QED
      BY <3>1, <3>2, <3>3 DEF IInv, SameStory, Sound, IsRow, Endings
  <2>3. CASE Apply(r)
    <3>1. UNCHANGED <<row, voided, pc, lock>> /\ lock = r /\ lock # NoRun
      BY <2>3 DEF Apply, IInv
    <3>2. /\ Sound(work') /\ work'.archived = work.archived
          /\ work.status \in Terminal => work' = work
      <4>1. PICK a : \/ work' = work
                     \/ ~Refused(work, a) /\ work' = Record(work, a)
        BY <2>3 DEF Apply
      <4> QED
        BY <4>1, RecordSound, FinishedIsClosed DEF IInv
    <3>3. row.status \in Terminal => work' = work
      BY <3>1, <3>2 DEF IInv, SameStory
    <3> QED
      BY <3>1, <3>2, <3>3 DEF IInv, SameStory, Sound, IsRow, Endings
  <2>4. CASE Commit(r)
    <3>1. /\ lock # NoRun /\ lock' = NoRun
          /\ row' = work /\ work' = Published /\ UNCHANGED voided
      BY <2>4 DEF Commit, IInv
    <3>2. pc' \in [Runs -> Steps] /\ \A q \in Runs : pc'[q] # "applying"
      BY <2>4 DEF Commit, Ended, Goto, IInv, Steps
    <3>3. row.status \in Terminal => SameStory(row, work)
      BY <3>1 DEF IInv
    <3> QED
      BY <3>1, <3>2, <3>3, PublishedSound DEF IInv, SameStory, Sound, IsRow, Endings
  <2>5. CASE CutOff(r)
    <3>1. /\ UNCHANGED <<row, voided>>
          /\ \/ lock = r /\ lock' = NoRun /\ work' = Published
             \/ lock # r /\ UNCHANGED <<lock, work>>
      BY <2>5 DEF CutOff
    <3>2. /\ pc' \in [Runs -> Steps]
          /\ \A q \in Runs : pc'[q] = "applying" => q # r /\ pc[q] = "applying"
      BY <2>5 DEF CutOff, Ended, Goto, IInv, Steps
    <3> QED
      BY <3>1, <3>2, PublishedSound DEF IInv, SameStory, Sound, IsRow, Endings
  <2> QED
    BY <1>6, <2>1, <2>2, <2>3, <2>4, <2>5 DEF Step
<1> QED
  BY <1>2, <1>3, <1>4, <1>5, <1>6 DEF Next

-----------------------------------------------------------------------------

\* However many monitor runs overlap, a signal is never recorded with two
\* endings, and its status is terminal exactly when it has one.
THEOREM OneEnding == Spec => []OneVerdict
<1>1. IInv => OneVerdict
  BY DEF IInv, OneVerdict, Sound
<1> QED
  BY InitIInv, NextIInv, <1>1, PTL DEF Spec

\* Once committed, an ending is never rewritten by a late run or by the owner.
THEOREM EndingIsFinal == Spec => VerdictIsFinal
<1>1. IInv /\ [Next]_vars =>
        [row.status \in Terminal =>
           /\ row'.status = row.status /\ row'.filledAt = row.filledAt
           /\ row'.hitAt = row.hitAt /\ row'.stop = row.stop /\ row'.result = row.result
           /\ Endings(row') = Endings(row)]_vars
  BY NextIInv DEF SameStory
<1> QED
  BY InitIInv, NextIInv, <1>1, PTL DEF Spec, VerdictIsFinal

-----------------------------------------------------------------------------
(* What a run decides. The walk over the candles is described by what it   *)
(* knows after each of them: an order that still waits has not been        *)
(* touched in its window, and a trade that still runs has met no candle    *)
(* at the published stop since it could be filled.                         *)

\* the time t is that of the first candle that fills the order
FirstFill(t) ==
    \E i \in DOMAIN market :
        /\ OpenTime(i) = t /\ Fillable(i)
        /\ \A j \in 1..(i - 1) : ~Fillable(j)

\* none of the first i candles took the published stop once one had filled
CleanUpTo(i) ==
    \A j \in 1..i : (\E m \in 1..j : Fillable(m)) => ~Stopped(StopLoss, market[j])

CleanAt(t) == \E i \in DOMAIN market : OpenTime(i) = t /\ CleanUpTo(i)

RunKinds == {"ENTRY_FILLED", "TARGET_HIT", "STOP_MOVED", "STOP_LOSS_HIT", "EXPIRED", "CANCELLED"}

Calls == [kind : RunKinds, number : Nat, price : Int, at : Int]

GoodCalls ==
    {a \in Calls : /\ a.kind = "ENTRY_FILLED" => FirstFill(a.at)
                   /\ a.kind = "TARGET_HIT" => CleanAt(a.at)
                   /\ a.kind = "STOP_MOVED" => a.price = Entry}

Walks ==
    [waiting : BOOLEAN, stop : {StopLoss, Entry}, left : SUBSET Numbers,
     calls : Seq(GoodCalls), last : Int, close : Int, over : BOOLEAN]

\* what the walk w knows after i candles
GoodWalk(w, i) ==
    /\ w \in Walks
    /\ ~w.over => IF w.waiting THEN \A j \in 1..i : ~Fillable(j) ELSE CleanUpTo(i)

\* The clock of the candles runs forward.
LEMMA OpenOrder ==
    ASSUME NEW i \in Nat, NEW j \in Nat
    PROVE  /\ OpenTime(i) \in Int /\ OpenTime(j) \in Int
           /\ i < j => OpenTime(i) < OpenTime(j)
           /\ OpenTime(i) <= OpenTime(j) => i <= j
           /\ OpenTime(i) = OpenTime(j) => i = j
<1>1. CandleTicks \in Nat \ {0}
  BY MonitorAssumption
<1>2. ASSUME NEW a \in Nat, NEW b \in Nat, a < b PROVE OpenTime(a) < OpenTime(b)
  <2>1. a - 1 \in Int /\ b - 1 \in Int /\ b - 1 > a - 1
    BY <1>2
  <2> QED
    BY <1>1, <2>1, Rules!ProductOrder DEF OpenTime
<1>3. OpenTime(i) \in Int /\ OpenTime(j) \in Int
  BY <1>1 DEF OpenTime
<1> HIDE DEF OpenTime
<1>4. (i < j => OpenTime(i) < OpenTime(j)) /\ (j < i => OpenTime(j) < OpenTime(i))
  BY <1>2
<1> QED
  BY <1>3, <1>4

\* A candle's time is not that of an unset column.
LEMMA TimesAreReal ==
    ASSUME market \in Seq(Candles), NEW i \in DOMAIN market
    PROVE  i \in Nat /\ OpenTime(i) # Never
<1>1. CandleTicks \in Nat \ {0} /\ i \in Nat /\ i - 1 \in Nat
  BY MonitorAssumption
<1>2. CandleTicks * (i - 1) \in Nat
  BY <1>1
<1> QED
  BY <1>1, <1>2 DEF OpenTime, Never

\* A candle at the published stop is one at the entry stop.
LEMMA TighterStop ==
    ASSUME NEW c \in Candles, NEW stop \in {StopLoss, Entry}, ~Stopped(stop, c)
    PROVE  ~Stopped(StopLoss, c)
<1>1. c[1] \in Nat /\ c[2] \in Nat
  BY MonitorAssumption
<1> QED
  BY <1>1, SignalAssumption DEF Stopped, Low, High, PriceStructure

\* The hits of the first n targets are the function their recursion describes.
LEMMA HitsDef ==
    ASSUME NEW S, NEW at
    PROVE  /\ HitsUpTo(S, at)[0] = <<>>
           /\ \A i \in 1..LastTarget :
                 HitsUpTo(S, at)[i] =
                    IF i \notin S THEN HitsUpTo(S, at)[i - 1]
                    ELSE Append(HitsUpTo(S, at)[i - 1], Ask("TARGET_HIT", i, Ladder[i], at))
<1> DEFINE F(g, n) == g = [i \in 0..n |-> IF i = 0 THEN <<>> ELSE IF i \notin S THEN g[i - 1]
                                          ELSE Append(g[i - 1], Ask("TARGET_HIT", i, Ladder[i], at))]
<1>1. HitsUpTo(S, at) = CHOOSE g : F(g, LastTarget)
  BY DEF HitsUpTo
<1>2. \E g : F(g, 0)
  <2>1. F([i \in 0..0 |-> <<>>], 0)
    OBVIOUS
  <2> QED
    BY <2>1
<1>3. PICK n \in Nat : n = LastTarget
  BY SignalAssumption DEF LastTarget
<1>4. ASSUME NEW m \in 0..(n - 1), NEW g, F(g, m) PROVE \E h : F(h, m + 1)
  <2> DEFINE next == IF m + 1 \notin S THEN g[m]
                     ELSE Append(g[m], Ask("TARGET_HIT", m + 1, Ladder[m + 1], at))
             h == [i \in 0..(m+1) |-> IF i = m + 1 THEN next ELSE g[i]]
  <2>0. m \in Nat /\ (m + 1) - 1 = m
    OBVIOUS
  <2>1. ASSUME NEW i \in 0..(m + 1)
        PROVE  h[i] = IF i = 0 THEN <<>> ELSE IF i \notin S THEN h[i - 1]
                      ELSE Append(h[i - 1], Ask("TARGET_HIT", i, Ladder[i], at))
    <3>1. CASE i = m + 1
      <4>1. h[i] = next /\ h[i - 1] = g[m]
        BY <2>0, <3>1
      <4> QED
        BY <2>0, <3>1, <4>1
    <3>2. CASE i # m + 1
      <4>1. h[i] = g[i] /\ i \in 0..m /\ (i # 0 => h[i - 1] = g[i - 1])
        BY <2>0, <3>2
      <4> QED
        BY <1>4, <4>1
    <3> QED
      BY <3>1, <3>2
  <2>2. h = [i \in 0..(m+1) |-> h[i]]
    OBVIOUS
  <2> HIDE DEF h
  <2>3. F(h, m + 1)
    BY <2>1, <2>2
  <2> QED
    BY <2>3
<1>5. \E g : F(g, n)
  <2> DEFINE X == {k \in 0..n : \E g : F(g, k)}
  <2>1. \A m \in 0..(n - 1) : (\E g : F(g, m)) => \E h : F(h, m + 1)
    BY <1>4
  <2> HIDE DEF F
  <2>2. 0 \in X /\ \A m \in 0..(n - 1) : m \in X => m + 1 \in X
    BY <1>2, <2>1
  <2> HIDE DEF X
  <2>3. n \in X
    BY <2>2, Rules!UpTo
  <2> QED
    BY <2>3 DEF X
<1>6. F(HitsUpTo(S, at), n)
  <2> HIDE DEF F
  <2> QED
    BY <1>1, <1>3, <1>5
<1>7. 0 \in 0..n /\ \A i \in 1..n : i \in 0..n /\ i # 0
  OBVIOUS
<1> DEFINE g == HitsUpTo(S, at)
<1>8. \A i \in 0..n : g[i] = IF i = 0 THEN <<>> ELSE IF i \notin S THEN g[i - 1]
                             ELSE Append(g[i - 1], Ask("TARGET_HIT", i, Ladder[i], at))
  <2> HIDE DEF g
  <2>1. g = [i \in 0..n |-> IF i = 0 THEN <<>> ELSE IF i \notin S THEN g[i - 1]
                             ELSE Append(g[i - 1], Ask("TARGET_HIT", i, Ladder[i], at))]
    BY <1>6 DEF g
  <2> QED
    BY <2>1
<1> QED
  BY <1>3, <1>7, <1>8

\* The hits of a candle are good when none of the candles so far stopped.
LEMMA HitsGood ==
    ASSUME NEW S, NEW i \in DOMAIN market, i \in Nat, CleanUpTo(i)
    PROVE  Hits(S, OpenTime(i)) \in Seq(GoodCalls)
<1> DEFINE at == OpenTime(i)
<1>1. at \in Int /\ CleanAt(at)
  BY OpenOrder DEF CleanAt
<1> HIDE DEF at
<1>2. PICK n \in Nat : n = LastTarget
  BY SignalAssumption DEF LastTarget
<1>3. \A k \in 1..n : Ask("TARGET_HIT", k, Ladder[k], at) \in GoodCalls
  <2> TAKE k \in 1..n
  <2>1. Ladder[k] \in Nat /\ k \in Nat
    BY <1>2, SignalAssumption DEF LastTarget
  <2> QED
    BY <1>1, <2>1 DEF Ask, GoodCalls, Calls, RunKinds
<1> DEFINE g == HitsUpTo(S, at)
           X == {m \in 0..n : g[m] \in Seq(GoodCalls)}
<1>4. g[0] = <<>> /\ \A k \in 1..n : g[k] = IF k \notin S THEN g[k - 1]
                                           ELSE Append(g[k - 1], Ask("TARGET_HIT", k, Ladder[k], at))
  BY <1>2, HitsDef
<1> HIDE DEF g
<1>5. ASSUME NEW m \in 0..(n - 1), m \in X PROVE m + 1 \in X
  <2>1. m + 1 \in 1..n /\ (m + 1) - 1 = m /\ m + 1 \in 0..n
    OBVIOUS
  <2>2. g[m] \in Seq(GoodCalls)
    BY <1>5
  <2>3. Ask("TARGET_HIT", m + 1, Ladder[m + 1], at) \in GoodCalls
    BY <1>3, <2>1
  <2>4. Append(g[m], Ask("TARGET_HIT", m + 1, Ladder[m + 1], at)) \in Seq(GoodCalls)
    BY <2>2, <2>3
  <2> QED
    BY <1>4, <2>1, <2>2, <2>4
<1>6. 0 \in X
  <2>1. 0 \in 0..n /\ <<>> \in Seq(GoodCalls)
    OBVIOUS
  <2> QED
    BY <1>4, <2>1
<1>7. n \in X
  <2> HIDE DEF X
  <2> QED
    BY <1>5, <1>6, Rules!UpTo
<1> QED
  BY <1>2, <1>7 DEF Hits, g, at

\* One good call is a good list.
LEMMA OneCall == ASSUME NEW a \in GoodCalls PROVE <<a>> \in Seq(GoodCalls)
OBVIOUS

\* A candle of a filled trade.
LEMMA JudgeGood ==
    ASSUME NEW i \in DOMAIN market, i \in Nat, i > 0, market[i] \in Candles,
           NEW w \in Walks, ~w.waiting, ~w.over, CleanUpTo(i - 1)
    PROVE  LET v == Judge(w, market[i], OpenTime(i))
           IN  v \in Walks /\ ~v.waiting /\ (~v.over => CleanUpTo(i))
<1> DEFINE c == market[i]
           at == OpenTime(i)
           hits == {n \in w.left : Reached(Ladder[n], c)}
           after == [Adds(w, Hits(hits, at)) EXCEPT !.left = @ \ hits]
           v == Judge(w, c, at)
<1>0. at \in Int /\ Entry \in Int /\ StopLoss \in Int
  BY OpenOrder, SignalAssumption
<1>1. CASE Stopped(w.stop, c)
  <2>1. Ask("STOP_LOSS_HIT", 0, w.stop, at) \in GoodCalls
    BY <1>0 DEF Ask, GoodCalls, Calls, RunKinds, Walks
  <2>2. w.calls \o <<Ask("STOP_LOSS_HIT", 0, w.stop, at)>> \in Seq(GoodCalls)
    BY <2>1, OneCall DEF Walks
  <2>3. v = Over(Adds(w, <<Ask("STOP_LOSS_HIT", 0, w.stop, at)>>))
    BY <1>1 DEF Judge
  <2>4. v = [[w EXCEPT !.calls = @ \o <<Ask("STOP_LOSS_HIT", 0, w.stop, at)>>] EXCEPT !.over = TRUE]
    BY <2>3 DEF Over, Adds
  <2> QED
    BY <2>2, <2>4 DEF Walks
<1>2. CASE ~Stopped(w.stop, c)
  <2>1. CleanUpTo(i)
    <3>1. ~Stopped(StopLoss, c)
      BY <1>2, TighterStop DEF Walks
    <3>2. \A j \in 1..i : j = i \/ j \in 1..(i - 1)
      OBVIOUS
    <3> QED
      BY <3>1, <3>2 DEF CleanUpTo
  <2>2. Hits(hits, at) \in Seq(GoodCalls)
    BY <2>1, HitsGood
  <2>3. w.calls \o Hits(hits, at) \in Seq(GoodCalls)
    BY <2>2 DEF Walks
  <2>4. after = [[w EXCEPT !.calls = @ \o Hits(hits, at)] EXCEPT !.left = @ \ hits]
    BY DEF Adds
  <2>5. after \in Walks /\ after.waiting = w.waiting /\ after.over = w.over
    BY <2>3, <2>4 DEF Walks
  <2> HIDE DEF after, hits
  <2>6. \/ v = Over(after) \/ v = after
        \/ v = [Adds(after, <<Ask("STOP_MOVED", 0, Entry, at)>>) EXCEPT !.stop = Entry]
    BY <1>2 DEF Judge, after, hits
  <2>7. Ask("STOP_MOVED", 0, Entry, at) \in GoodCalls
    BY <1>0 DEF Ask, GoodCalls, Calls, RunKinds
  <2>8. after.calls \o <<Ask("STOP_MOVED", 0, Entry, at)>> \in Seq(GoodCalls)
    BY <2>5, <2>7, OneCall DEF Walks
  <2>9. Over(after) \in Walks /\ ~Over(after).waiting /\ Over(after).over
    BY <2>5 DEF Over, Walks
  <2>10. CASE v = [Adds(after, <<Ask("STOP_MOVED", 0, Entry, at)>>) EXCEPT !.stop = Entry]
    <3>1. v = [[after EXCEPT !.calls = @ \o <<Ask("STOP_MOVED", 0, Entry, at)>>] EXCEPT !.stop = Entry]
      BY <2>10 DEF Adds
    <3>2. v \in Walks /\ v.waiting = after.waiting
      BY <2>5, <2>8, <3>1 DEF Walks
    <3> QED
      BY <2>1, <2>5, <3>2
  <2> QED
    BY <2>1, <2>5, <2>6, <2>9, <2>10
<1> QED
  BY <1>1, <1>2

\* A candle of the walk.
LEMMA WalkGood ==
    ASSUME NEW i \in DOMAIN market, i \in Nat, i > 0, market[i] \in Candles,
           NEW w, GoodWalk(w, i - 1)
    PROVE  GoodWalk(Walk(w, market[i], OpenTime(i)), i)
<1> DEFINE c == market[i]
           at == OpenTime(i)
           v == [w EXCEPT !.last = at, !.close = Close(c)]
           fill == Ask("ENTRY_FILLED", 0, Entry, at)
           u == [Adds(v, <<fill>>) EXCEPT !.waiting = FALSE]
<1>0. at \in Int /\ Entry \in Int /\ StopLoss \in Int /\ Deadline \in Int /\ w \in Walks /\ Close(c) \in Int
  BY OpenOrder, SignalAssumption, MonitorAssumption DEF Deadline, GoodWalk, Close
<1>1. CASE w.over
  BY <1>1 DEF Walk, GoodWalk
<1>2. CASE ~w.over /\ w.waiting /\ at >= Deadline
  <2>1. Ask("CANCELLED", 0, Never, IF w.last = Never THEN Deadline ELSE w.last) \in GoodCalls
    BY <1>0 DEF Ask, GoodCalls, Calls, RunKinds, Walks, Never
  <2>2. Withdrawal(w) \in Seq(GoodCalls)
    BY <2>1, OneCall DEF Withdrawal
  <2>3. Walk(w, c, at) = [[w EXCEPT !.calls = Withdrawal(w)] EXCEPT !.over = TRUE]
    BY <1>2 DEF Walk, Over
  <2>4. [[w EXCEPT !.calls = Withdrawal(w)] EXCEPT !.over = TRUE] \in Walks
    BY <1>0, <2>2 DEF Walks
  <2>5. Walk(w, c, at).over
    BY <1>0, <2>3 DEF Walks
  <2> QED
    BY <2>3, <2>4, <2>5 DEF GoodWalk
<1>3. v \in Walks /\ v.waiting = w.waiting /\ v.over = w.over
  BY <1>0 DEF Walks
<1>4. CASE ~w.over /\ ~w.waiting
  <2>1. CleanUpTo(i - 1)
    BY <1>4 DEF GoodWalk
  <2>2. Walk(w, c, at) = Judge(v, c, at)
    BY <1>4 DEF Walk
  <2>3. /\ Judge(v, c, at) \in Walks /\ ~Judge(v, c, at).waiting
        /\ ~Judge(v, c, at).over => CleanUpTo(i)
    BY <1>3, <1>4, <2>1, JudgeGood
  <2> QED
    BY <2>2, <2>3 DEF GoodWalk
<1>5. CASE ~w.over /\ w.waiting /\ at < Deadline
  <2>1. \A j \in 1..(i - 1) : ~Fillable(j)
    BY <1>5 DEF GoodWalk
  <2>2. CASE ~Touched(Entry, c)
    <3>1. Walk(w, c, at) = v
      BY <1>0, <1>5, <2>2 DEF Walk
    <3>2. \A j \in 1..i : j = i \/ j \in 1..(i - 1)
      OBVIOUS
    <3>3. ~Fillable(i)
      BY <2>2 DEF Fillable
    <3>4. \A j \in 1..i : ~Fillable(j)
      BY <2>1, <3>2, <3>3
    <3> QED
      BY <1>3, <1>5, <3>1, <3>4 DEF GoodWalk
  <2>3. CASE Touched(Entry, c)
    <3>1. Walk(w, c, at) = Judge(u, c, at)
      BY <1>0, <1>5, <2>3 DEF Walk
    <3>2. FirstFill(at)
      BY <1>5, <2>1, <2>3 DEF FirstFill, Fillable
    <3>3. fill \in GoodCalls
      BY <1>0, <3>2 DEF Ask, GoodCalls, Calls, RunKinds
    <3>4. v.calls \o <<fill>> \in Seq(GoodCalls)
      <4> HIDE DEF fill, v
      <4>1. v.calls \in Seq(GoodCalls)
        BY <1>3 DEF Walks
      <4>2. <<fill>> \in Seq(GoodCalls)
        BY <3>3, OneCall
      <4> QED
        BY <4>1, <4>2
    <3>5. u = [[v EXCEPT !.calls = @ \o <<fill>>] EXCEPT !.waiting = FALSE]
      BY DEF Adds
    <3>6. u \in Walks /\ ~u.waiting /\ u.over = v.over
      <4> HIDE DEF v, fill, u
      <4> QED
        BY <1>3, <3>4, <3>5 DEF Walks
    <3>7. CleanUpTo(i - 1)
      <4>1. \A j \in 1..(i - 1) : \A m \in 1..j : m \in 1..(i - 1)
        OBVIOUS
      <4> QED
        BY <2>1, <4>1 DEF CleanUpTo
    <3>8. /\ Judge(u, c, at) \in Walks /\ ~Judge(u, c, at).waiting
          /\ ~Judge(u, c, at).over => CleanUpTo(i)
      <4> HIDE DEF u
      <4> QED
        BY <1>3, <1>5, <3>6, <3>7, JudgeGood
    <3> QED
      BY <3>1, <3>8 DEF GoodWalk
  <2> QED
    BY <2>2, <2>3
<1> QED
  BY <1>0, <1>1, <1>2, <1>4, <1>5

\* The walk over the candles is the function its recursion describes.
LEMMA WalkedDef ==
    ASSUME Len(market) \in Nat, NEW x
    PROVE  /\ Walked(x)[0] = Start(x)
           /\ \A i \in 1..Len(market) : Walked(x)[i] = Walk(Walked(x)[i - 1], market[i], OpenTime(i))
<1> DEFINE F(g, n) == g = [i \in 0..n |-> IF i = 0 THEN Start(x) ELSE Walk(g[i - 1], market[i], OpenTime(i))]
<1>1. Walked(x) = CHOOSE g : F(g, Len(market))
  BY DEF Walked
<1>2. \E g : F(g, 0)
  <2>1. F([i \in 0..0 |-> Start(x)], 0)
    OBVIOUS
  <2> QED
    BY <2>1
<1>3. PICK n \in Nat : n = Len(market)
  OBVIOUS
<1>4. ASSUME NEW m \in 0..(n - 1), NEW g, F(g, m) PROVE \E h : F(h, m + 1)
  <2> DEFINE next == Walk(g[m], market[m + 1], OpenTime(m + 1))
             h == [i \in 0..(m+1) |-> IF i = m + 1 THEN next ELSE g[i]]
  <2>0. m \in Nat /\ (m + 1) - 1 = m
    OBVIOUS
  <2>1. ASSUME NEW i \in 0..(m + 1)
        PROVE  h[i] = IF i = 0 THEN Start(x) ELSE Walk(h[i - 1], market[i], OpenTime(i))
    <3>1. CASE i = m + 1
      <4>1. h[i] = next /\ h[i - 1] = g[m]
        BY <2>0, <3>1
      <4> QED
        BY <2>0, <3>1, <4>1
    <3>2. CASE i # m + 1
      <4>1. h[i] = g[i] /\ i \in 0..m /\ (i # 0 => h[i - 1] = g[i - 1])
        BY <2>0, <3>2
      <4> QED
        BY <1>4, <4>1
    <3> QED
      BY <3>1, <3>2
  <2>2. h = [i \in 0..(m+1) |-> h[i]]
    OBVIOUS
  <2> HIDE DEF h
  <2>3. F(h, m + 1)
    BY <2>1, <2>2
  <2> QED
    BY <2>3
<1>5. \E g : F(g, n)
  <2> DEFINE X == {k \in 0..n : \E g : F(g, k)}
  <2>1. \A m \in 0..(n - 1) : (\E g : F(g, m)) => \E h : F(h, m + 1)
    BY <1>4
  <2> HIDE DEF F
  <2>2. 0 \in X /\ \A m \in 0..(n - 1) : m \in X => m + 1 \in X
    BY <1>2, <2>1
  <2> HIDE DEF X
  <2>3. n \in X
    BY <2>2, Rules!UpTo
  <2> QED
    BY <2>3 DEF X
<1>6. F(Walked(x), n)
  <2> HIDE DEF F
  <2> QED
    BY <1>1, <1>3, <1>5
<1>7. 0 \in 0..n /\ \A i \in 1..n : i \in 0..n /\ i # 0
  OBVIOUS
<1> DEFINE g == Walked(x)
<1>8. \A i \in 0..n : g[i] = IF i = 0 THEN Start(x) ELSE Walk(g[i - 1], market[i], OpenTime(i))
  <2> HIDE DEF g
  <2>1. g = [i \in 0..n |-> IF i = 0 THEN Start(x) ELSE Walk(g[i - 1], market[i], OpenTime(i))]
    BY <1>6 DEF g
  <2> QED
    BY <2>1
<1> QED
  BY <1>3, <1>7, <1>8

\* Whatever row a run listed, however many candles it fetched and whenever it
\* decides, what it decides is good.
LEMMA EvaluateGood ==
    ASSUME market \in Seq(Candles), NEW x, x.stop \in {StopLoss, Entry},
           NEW n \in 0..Len(market), NEW now \in Nat
    PROVE  Evaluate(x, n, now) \in Seq(GoodCalls)
<1>1. PICK N \in Nat : N = Len(market)
  OBVIOUS
<1> DEFINE g == Walked(x)
           X == {i \in 0..N : GoodWalk(g[i], i)}
<1>2. g[0] = Start(x) /\ \A i \in 1..N : g[i] = Walk(g[i - 1], market[i], OpenTime(i))
  BY <1>1, WalkedDef
<1>3. GoodWalk(Start(x), 0)
  <2>1. <<>> \in Seq(GoodCalls) /\ Never \in Int
    BY DEF Never
  <2>2. Start(x) \in Walks
    BY <2>1 DEF Start, Walks
  <2>3. CleanUpTo(0) /\ \A j \in 1..0 : ~Fillable(j)
    BY DEF CleanUpTo
  <2> QED
    BY <2>2, <2>3 DEF GoodWalk
<1>4. ASSUME NEW m \in 0..(N - 1), m \in X PROVE m + 1 \in X
  <2>1. m + 1 \in 1..N /\ (m + 1) - 1 = m /\ m + 1 \in 0..N /\ m + 1 \in Nat /\ m + 1 > 0
    OBVIOUS
  <2>2. m + 1 \in DOMAIN market /\ market[m + 1] \in Candles
    BY <1>1, <2>1
  <2>3. GoodWalk(g[m], m)
    BY <1>4
  <2> HIDE DEF g
  <2>4. GoodWalk(Walk(g[m], market[m + 1], OpenTime(m + 1)), m + 1)
    BY <2>1, <2>2, <2>3, WalkGood
  <2> QED
    BY <1>2, <2>1, <2>4
<1> HIDE DEF g
<1>5. 0 \in X
  BY <1>2, <1>3
<1>6. GoodWalk(g[n], n)
  <2> HIDE DEF X
  <2>1. \A i \in 0..N : i \in X
    BY <1>4, <1>5, Rules!UpTo
  <2> QED
    BY <1>1, <2>1 DEF X
<1> DEFINE end == g[n]
<1>7. end \in Walks /\ end.calls \in Seq(GoodCalls)
  BY <1>6 DEF GoodWalk, Walks
<1>8. Deadline \in Int /\ Generated + MaxAge \in Int
  BY MonitorAssumption DEF Deadline
<1>9. Withdrawal(end) \in Seq(GoodCalls)
  <2>1. Ask("CANCELLED", 0, Never, IF end.last = Never THEN Deadline ELSE end.last) \in GoodCalls
    BY <1>7, <1>8 DEF Ask, GoodCalls, Calls, RunKinds, Walks, Never
  <2> QED
    BY <2>1, OneCall DEF Withdrawal
<1>10. Append(end.calls, Ask("EXPIRED", 0, end.close, IF end.last = Never THEN Generated + MaxAge ELSE end.last))
          \in Seq(GoodCalls)
  <2>1. Ask("EXPIRED", 0, end.close, IF end.last = Never THEN Generated + MaxAge ELSE end.last) \in GoodCalls
    BY <1>7, <1>8 DEF Ask, GoodCalls, Calls, RunKinds, Walks
  <2> HIDE DEF end
  <2> QED
    BY <1>7, <2>1
<1>11. <<>> \in Seq(GoodCalls)
  OBVIOUS
<1>12. end = Walked(x)[n]
  BY DEF g
<1> HIDE DEF end
<1> QED
  BY <1>7, <1>9, <1>10, <1>11, <1>12 DEF Evaluate


-----------------------------------------------------------------------------
(* What a row tells. A fill on it is the first touch, a target on it lies  *)
(* before any candle at the published stop, and its stop is the published  *)
(* one or the entry.                                                       *)

GoodRow(x) ==
    /\ x.filledAt # Never => FirstFill(x.filledAt)
    /\ x.stop \in {StopLoss, Entry}
    /\ x.status \in Working \ {"PENDING"} => x.filledAt # Never
    /\ \A e \in x.events : e[1] = "TARGET_HIT" => (x.filledAt # Never /\ CleanAt(e[3]))

StoryInv ==
    /\ clock \in Nat /\ market \in Seq(Candles)
    /\ GoodRow(row) /\ GoodRow(work)
    /\ \A r \in Runs : /\ IsRow(snap[r]) /\ snap[r].stop \in {StopLoss, Entry}
                       /\ fetched[r] \in 0..Len(market)
                       /\ plan[r] \in Seq(GoodCalls)
    /\ snap = [r \in Runs |-> snap[r]] /\ fetched = [r \in Runs |-> fetched[r]]
    /\ plan = [r \in Runs |-> plan[r]]

\* A published signal tells nothing yet.
LEMMA PublishedGood == GoodRow(Published) /\ IsRow(Published)
BY DEF GoodRow, Published, Working, Never, IsRow

\* Measuring leaves the story as it was.
LEMMA WidenGood ==
    ASSUME NEW x, NEW low, NEW high, IsRow(x), GoodRow(x)
    PROVE  GoodRow(Widen(x, low, high))
<1>1. /\ Widen(x, low, high).status = x.status /\ Widen(x, low, high).filledAt = x.filledAt
      /\ Widen(x, low, high).stop = x.stop /\ Widen(x, low, high).events = x.events
  BY DEF IsRow, Widen
<1> HIDE DEF Widen
<1> QED
  BY <1>1 DEF GoodRow

\* A good call that the store records keeps the row good: a fill is recorded
\* on a working order, a target on a filled trade.
LEMMA RecordGood ==
    ASSUME market \in Seq(Candles), NEW x, IsRow(x), GoodRow(x),
           NEW a \in GoodCalls, ~Refused(x, a)
    PROVE  GoodRow(Record(x, a))
<1>1. CASE Duplicate(x, a)
  BY <1>1 DEF Record
<1>2. CASE ~Duplicate(x, a)
  <2> DEFINE y == Written(x, a)
  <2>0. a \in Calls /\ a.at \in Int /\ a.kind \in RunKinds
    BY DEF GoodCalls, Calls
  <2>1. /\ y.status = IF a.kind = "STOP_MOVED" THEN x.status ELSE NextStatus(a)
        /\ y.events = x.events \union {Key(a)}
        /\ y.filledAt = IF a.kind = "ENTRY_FILLED" THEN a.at ELSE x.filledAt
        /\ y.stop = IF a.kind = "STOP_MOVED" THEN a.price ELSE x.stop
    BY DEF IsRow, Written, FilledAt
  <2>2. Key(a)[1] = a.kind /\ Key(a)[3] = a.at
    BY DEF Key
  <2>3. Record(x, a) = y
    BY <1>2 DEF Record
  <2> HIDE DEF y
  <2>4. CASE a.kind = "STOP_MOVED"
    <3>1. a.price = Entry
      BY <2>4 DEF GoodCalls
    <3> QED
      BY <2>1, <2>2, <2>3, <2>4, <3>1 DEF GoodRow
  <2>5. CASE a.kind # "STOP_MOVED"
    <3>1. NextStatus(a) \in Allowed(x.status)
      BY <1>2, <2>5 DEF Refused, Duplicate
    <3>2. CASE a.kind = "ENTRY_FILLED"
      <4>1. FirstFill(a.at)
        BY <3>2 DEF GoodCalls
      <4>2. a.at # Never
        <5>1. PICK i \in DOMAIN market : OpenTime(i) = a.at
          BY <4>1 DEF FirstFill
        <5> QED
          BY <5>1, TimesAreReal
      <4> QED
        BY <2>1, <2>2, <2>3, <3>2, <4>1, <4>2 DEF GoodRow
    <3>3. CASE a.kind = "TARGET_HIT"
      <4>1. CleanAt(a.at)
        BY <3>3 DEF GoodCalls
      <4>2. x.status \in Working \ {"PENDING"}
        BY <3>1, <3>3 DEF NextStatus, Allowed, Working, Terminal
      <4> QED
        BY <2>1, <2>2, <2>3, <3>3, <4>1, <4>2 DEF GoodRow
    <3>4. CASE a.kind \notin {"ENTRY_FILLED", "TARGET_HIT"}
      <4>1. NextStatus(a) \notin Working
        BY <2>0, <2>5, <3>4 DEF NextStatus, Working, RunKinds
      <4> QED
        BY <2>1, <2>2, <2>3, <2>5, <3>4, <4>1 DEF GoodRow
    <3> QED
      BY <3>2, <3>3, <3>4
  <2> QED
    BY <2>4, <2>5
<1> QED
  BY <1>1, <1>2

\* A candle that closes changes nothing of what the earlier ones told.
LEMMA CandlesStay ==
    ASSUME market \in Seq(Candles), market' = market \/ \E c \in Candles : market' = Append(market, c)
    PROVE  /\ market' \in Seq(Candles)
           /\ \A k \in 0..Len(market) : k \in 0..Len(market')
           /\ \A t : FirstFill(t) => FirstFill(t)'
           /\ \A t : CleanAt(t) => CleanAt(t)'
<1>0. /\ market' \in Seq(Candles) /\ Len(market') \in {Len(market), Len(market) + 1}
      /\ \A i \in 1..Len(market) : market'[i] = market[i]
  <2>1. ASSUME NEW c \in Candles, market' = Append(market, c)
        PROVE  /\ market' \in Seq(Candles) /\ Len(market') = Len(market) + 1
               /\ \A i \in 1..Len(market) : market'[i] = market[i]
    BY <2>1
  <2> QED
    BY <2>1
<1>a. PICK n \in Nat : n = Len(market)
  OBVIOUS
<1>b. PICK k \in {n, n + 1} : k = Len(market')
  BY <1>0, <1>a
<1>c. DOMAIN market = 1..n /\ DOMAIN market' = 1..k
  BY <1>0, <1>a, <1>b
<1>d. 1..n \subseteq 1..k /\ 0..n \subseteq 0..k
  OBVIOUS
<1>1. \A i \in DOMAIN market : i \in DOMAIN market' /\ market'[i] = market[i]
  BY <1>0, <1>a, <1>c, <1>d
<1>2. \A i \in DOMAIN market : Fillable(i)' <=> Fillable(i)
  BY <1>1 DEF Fillable
<1>3. ASSUME NEW i \in DOMAIN market, NEW j \in 1..i PROVE j \in DOMAIN market
  BY <1>c
<1>4. ASSUME NEW i \in DOMAIN market, NEW j \in 1..(i - 1) PROVE j \in DOMAIN market
  BY <1>c
<1>5. ASSUME NEW t, FirstFill(t) PROVE FirstFill(t)'
  <2>1. PICK i \in DOMAIN market : OpenTime(i) = t /\ Fillable(i) /\ \A j \in 1..(i - 1) : ~Fillable(j)
    BY <1>5 DEF FirstFill
  <2>2. OpenTime(i) = t /\ Fillable(i)' /\ \A j \in 1..(i - 1) : ~Fillable(j)'
    BY <1>2, <1>4, <2>1
  <2> QED
    BY <1>1, <2>2 DEF FirstFill
<1>6. ASSUME NEW t, CleanAt(t) PROVE CleanAt(t)'
  <2>1. PICK i \in DOMAIN market : OpenTime(i) = t /\ CleanUpTo(i)
    BY <1>6 DEF CleanAt
  <2>2. \A j \in 1..i : (\E m \in 1..j : Fillable(m)') => ~Stopped(StopLoss, market'[j])
    <3>1. ASSUME NEW j \in 1..i, NEW m \in 1..j PROVE m \in DOMAIN market
      BY <1>c
    <3> QED
      BY <1>1, <1>2, <1>3, <2>1, <3>1 DEF CleanUpTo
  <2>3. CleanUpTo(i)'
    BY <2>2 DEF CleanUpTo
  <2> QED
    BY <1>1, <2>1, <2>3 DEF CleanAt
<1> QED
  BY <1>0, <1>5, <1>6, <1>a, <1>b, <1>d

\* And nothing of what is decided or recorded.
LEMMA StoriesStay ==
    ASSUME market \in Seq(Candles), market' = market \/ \E c \in Candles : market' = Append(market, c)
    PROVE  /\ Seq(GoodCalls) \subseteq Seq(GoodCalls')
           /\ \A x : GoodRow(x) /\ row' = x => GoodRow(row)'
           /\ \A x : GoodRow(x) /\ work' = x => GoodRow(work)'
<1>1. (\A t : FirstFill(t) => FirstFill(t)') /\ (\A t : CleanAt(t) => CleanAt(t)')
  BY CandlesStay
<1>2. GoodCalls \subseteq GoodCalls'
  BY <1>1 DEF GoodCalls
<1>3. \A q \in Seq(GoodCalls) : q \in Seq(GoodCalls')
  BY <1>2, SeqMonotonic
<1>4. ASSUME NEW x, GoodRow(x), row' = x PROVE GoodRow(row)'
  BY <1>1, <1>4 DEF GoodRow
<1>5. ASSUME NEW x, GoodRow(x), work' = x PROVE GoodRow(work)'
  BY <1>1, <1>5 DEF GoodRow
<1> QED
  BY <1>3, <1>4, <1>5

\* what a step of run r leaves to the other runs
Others(r) ==
    /\ \E x : snap' = [snap EXCEPT ![r] = x]
    /\ \E k : fetched' = [fetched EXCEPT ![r] = k]
    /\ \E q : plan' = [plan EXCEPT ![r] = q]

\* A step of one run keeps the story when it keeps that run's part of it.
LEMMA RunStays ==
    ASSUME StoryInv, NEW r \in Runs, Others(r), UNCHANGED <<clock, market>>,
           GoodRow(row)', GoodRow(work)',
           IsRow(snap'[r]), snap'[r].stop \in {StopLoss, Entry},
           fetched'[r] \in 0..Len(market), plan'[r] \in Seq(GoodCalls)
    PROVE  StoryInv'
<1>1. /\ snap' = [q \in Runs |-> snap'[q]] /\ fetched' = [q \in Runs |-> fetched'[q]]
      /\ plan' = [q \in Runs |-> plan'[q]]
      /\ \A q \in Runs \ {r} : snap'[q] = snap[q] /\ fetched'[q] = fetched[q] /\ plan'[q] = plan[q]
  BY DEF Others, StoryInv
<1>2. Seq(GoodCalls) \subseteq Seq(GoodCalls')
  BY StoriesStay DEF StoryInv
<1>3. \A q \in Runs : plan'[q] \in Seq(GoodCalls')
  BY <1>1, <1>2 DEF StoryInv
<1>4. \A q \in Runs : /\ IsRow(snap'[q]) /\ snap'[q].stop \in {StopLoss, Entry}
                      /\ fetched'[q] \in 0..Len(market')
  BY <1>1 DEF StoryInv
<1> QED
  BY <1>1, <1>3, <1>4 DEF StoryInv, IsRow

\* A run that ends forgets what it knew.
LEMMA EndedStays ==
    ASSUME StoryInv, NEW r \in Runs, Ended(r), UNCHANGED <<clock, market>>,
           GoodRow(row)', GoodRow(work)'
    PROVE  StoryInv'
<1>1. Others(r)
  BY DEF Ended, Others
<1>2. snap'[r] = Published /\ fetched'[r] = 0 /\ plan'[r] = <<>>
  BY DEF Ended, StoryInv
<1>3. /\ IsRow(Published) /\ Published.stop = StopLoss
      /\ 0 \in 0..Len(market) /\ <<>> \in Seq(GoodCalls)
  BY PublishedGood DEF Published, StoryInv
<1> QED
  BY <1>1, <1>2, <1>3, RunStays

\* Every step keeps the story.
LEMMA NextStory ==
    ASSUME StoryInv, IInv, [Next]_vars
    PROVE  StoryInv'
<1> USE DEF StoryInv
<1>0. IsRow(row) /\ IsRow(work) /\ GoodRow(row) /\ GoodRow(work)
  BY DEF IInv, Sound
<1>b. ASSUME NEW r \in Runs
      PROVE  /\ snap = [snap EXCEPT ![r] = snap[r]] /\ fetched = [fetched EXCEPT ![r] = fetched[r]]
             /\ plan = [plan EXCEPT ![r] = plan[r]]
  OBVIOUS
<1>1. ASSUME UNCHANGED <<row, work, snap, fetched, plan>>, clock' \in Nat,
             market' = market \/ \E c \in Candles : market' = Append(market, c)
      PROVE  StoryInv'
  <2>1. GoodRow(row)' /\ GoodRow(work)' /\ Seq(GoodCalls) \subseteq Seq(GoodCalls')
    BY <1>0, <1>1, StoriesStay
  <2>2. market' \in Seq(Candles) /\ \A k \in 0..Len(market) : k \in 0..Len(market')
    BY <1>1, CandlesStay
  <2>3. \A r \in Runs : plan'[r] \in Seq(GoodCalls')
    BY <1>1, <2>1
  <2> QED
    BY <1>1, <2>1, <2>2, <2>3 DEF IsRow
<1>2. ASSUME market' = market, NEW x, GoodRow(x), row' = x PROVE GoodRow(row)'
  BY <1>2, StoriesStay
<1>3. ASSUME market' = market, NEW x, GoodRow(x), work' = x PROVE GoodRow(work)'
  BY <1>3, StoriesStay
<1>4. CASE UNCHANGED vars
  BY <1>1, <1>4 DEF vars, runvars
<1>5. CASE Tick
  <2>1. clock' \in Nat
    BY <1>5 DEF Tick
  <2> QED
    BY <1>1, <1>5, <2>1 DEF Tick, runvars
<1>6. CASE Void
  BY <1>1, <1>6 DEF Void, runvars
<1>7. CASE Archive
  <2> DEFINE x == [row EXCEPT !.archived = TRUE, !.events = @ \union {<<"ARCHIVED", 0, Never>>}]
  <2>1. /\ x.status = row.status /\ x.filledAt = row.filledAt /\ x.stop = row.stop
        /\ x.events = row.events \union {<<"ARCHIVED", 0, Never>>}
    BY <1>0 DEF IsRow
  <2>2. row' = x /\ UNCHANGED <<clock, market, work, snap, fetched, plan>>
    BY <1>7 DEF Archive, runvars
  <2> HIDE DEF x
  <2>3. GoodRow(x)
    BY <1>0, <2>1 DEF GoodRow
  <2>4. GoodRow(row)' /\ GoodRow(work)'
    BY <1>0, <1>2, <1>3, <2>2, <2>3
  <2>5. Seq(GoodCalls) \subseteq Seq(GoodCalls')
    BY <2>2, StoriesStay
  <2>6. \A r \in Runs : plan'[r] \in Seq(GoodCalls')
    BY <2>2, <2>5
  <2> QED
    BY <2>2, <2>4, <2>6 DEF IsRow
<1>8. ASSUME NEW r \in Runs, Step(r) \/ CutOff(r) PROVE StoryInv'
  <2>1. CASE List(r)
    <3>1. /\ snap' = [snap EXCEPT ![r] = row] /\ UNCHANGED <<clock, market, row, fetched, plan, work>>
      BY <2>1 DEF List
    <3>2. Others(r) /\ snap'[r] = row
      <4>1. snap'[r] = row
        BY <3>1
      <4> QED
        BY <1>b, <3>1, <4>1 DEF Others
    <3>3. GoodRow(row)' /\ GoodRow(work)'
      BY <1>0, <1>2, <1>3, <3>1
    <3> QED
      BY <1>0, <3>1, <3>2, <3>3, RunStays DEF GoodRow
  <2>2. CASE AttachTargets(r)
    <3>1. /\ snap' = [snap EXCEPT ![r].hitAt = row.hitAt] /\ UNCHANGED <<clock, market, row, fetched, plan, work>>
      BY <2>2 DEF AttachTargets
    <3>2. Others(r) /\ snap'[r] = [snap[r] EXCEPT !.hitAt = row.hitAt]
      <4>1. PICK x : x = [snap[r] EXCEPT !.hitAt = row.hitAt]
        OBVIOUS
      <4>2. snap' = [snap EXCEPT ![r] = x]
        BY <3>1, <4>1
      <4>3. snap'[r] = x
        BY <4>2
      <4> QED
        BY <1>b, <3>1, <4>1, <4>2, <4>3 DEF Others
    <3>3. GoodRow(row)' /\ GoodRow(work)'
      BY <1>0, <1>2, <1>3, <3>1
    <3>4. IsRow(snap'[r]) /\ snap'[r].stop = snap[r].stop
      BY <3>2 DEF IsRow
    <3> QED
      BY <3>1, <3>2, <3>3, <3>4, RunStays
  <2>3. CASE Fetch(r)
    <3>1. /\ fetched' = [fetched EXCEPT ![r] = Len(market)] /\ UNCHANGED <<clock, market, row, snap, plan, work>>
      BY <2>3 DEF Fetch
    <3>2. Others(r) /\ fetched'[r] = Len(market) /\ Len(market) \in Nat
      <4>1. fetched'[r] = Len(market) /\ Len(market) \in Nat
        BY <3>1
      <4> QED
        BY <1>b, <3>1, <4>1 DEF Others
    <3>3. GoodRow(row)' /\ GoodRow(work)'
      BY <1>0, <1>2, <1>3, <3>1
    <3>4. /\ fetched'[r] \in 0..Len(market) /\ IsRow(snap'[r]) /\ snap'[r].stop \in {StopLoss, Entry}
          /\ plan'[r] \in Seq(GoodCalls)
      <4>1. snap' = snap /\ plan' = plan
        BY <3>1
      <4>2. fetched'[r] \in 0..Len(market)
        BY <3>2
      <4> QED
        BY <4>1, <4>2
    <3> QED
      BY <3>1, <3>2, <3>3, <3>4, RunStays
  <2>4. CASE Decide(r)
    <3>0. UNCHANGED <<clock, market, row, work>>
      BY <2>4 DEF Decide
    <3>1. GoodRow(row)' /\ GoodRow(work)'
      BY <1>0, <1>2, <1>3, <3>0
    <3>2. CASE Ended(r)
      BY <3>0, <3>1, <3>2, EndedStays
    <3>3. CASE ~Ended(r)
      <4> DEFINE calls == Evaluate(snap[r], fetched[r], clock)
      <4>1. plan' = [plan EXCEPT ![r] = calls] /\ UNCHANGED <<snap, fetched>>
        BY <2>4, <3>3 DEF Decide
      <4>2. calls \in Seq(GoodCalls)
        BY EvaluateGood
      <4> HIDE DEF calls
      <4>3. Others(r) /\ plan'[r] = calls
        BY <1>b, <4>1 DEF Others
      <4> QED
        BY <3>0, <3>1, <4>1, <4>2, <4>3, RunStays
    <3> QED
      BY <3>2, <3>3
  <2>5. CASE Begin(r)
    <3>1. UNCHANGED <<clock, market, row, snap, fetched, plan>>
      BY <2>5 DEF Begin
    <3>2. PICK x : work' = x /\ (x = row \/ \E low, high : x = Widen(row, low, high))
      BY <2>5 DEF Begin
    <3>3. GoodRow(x)
      BY <1>0, <3>2, WidenGood
    <3>4. GoodRow(row)' /\ GoodRow(work)'
      BY <1>0, <1>2, <1>3, <3>1, <3>2, <3>3
    <3>5. Others(r)
      BY <1>b, <3>1 DEF Others
    <3> QED
      BY <3>1, <3>4, <3>5, RunStays
  <2>6. CASE Apply(r)
    <3>1. UNCHANGED <<clock, market, row, snap, fetched>> /\ plan[r] # <<>>
      BY <2>6 DEF Apply
    <3>2. Head(plan[r]) \in GoodCalls /\ Tail(plan[r]) \in Seq(GoodCalls) /\ <<>> \in Seq(GoodCalls)
      BY <3>1
    <3>3. PICK q \in Seq(GoodCalls) : plan' = [plan EXCEPT ![r] = q]
      BY <2>6, <3>2 DEF Apply
    <3>4. PICK x : work' = x /\ (x = work \/ (~Refused(work, Head(plan[r])) /\ x = Record(work, Head(plan[r]))))
      <4>1. work' = work \/ (~Refused(work, Head(plan[r])) /\ work' = Record(work, Head(plan[r])))
        <5>1. CASE Refused(work, Head(plan[r]))
          BY <2>6, <5>1, Zenon DEF Apply
        <5>2. CASE ~Refused(work, Head(plan[r]))
          BY <2>6, <5>2, Zenon DEF Apply
        <5> QED
          BY <5>1, <5>2
      <4> QED
        BY <4>1
    <3>5. GoodRow(x)
      BY <1>0, <3>2, <3>4, RecordGood
    <3>6. GoodRow(row)' /\ GoodRow(work)'
      BY <1>0, <1>2, <1>3, <3>1, <3>4, <3>5
    <3>7. Others(r) /\ plan'[r] = q
      BY <1>b, <3>1, <3>3 DEF Others
    <3> QED
      BY <3>1, <3>6, <3>7, RunStays
  <2>7. CASE Commit(r)
    <3>1. row' = work /\ work' = Published /\ Ended(r) /\ UNCHANGED <<clock, market>>
      BY <2>7 DEF Commit
    <3>2. GoodRow(row)' /\ GoodRow(work)'
      BY <1>0, <1>2, <1>3, <3>1, PublishedGood
    <3> QED
      BY <3>1, <3>2, EndedStays
  <2>8. CASE CutOff(r)
    <3>1. row' = row /\ work' \in {work, Published} /\ Ended(r) /\ UNCHANGED <<clock, market>>
      BY <2>8 DEF CutOff
    <3>2. GoodRow(row)' /\ GoodRow(work)'
      BY <1>0, <1>2, <1>3, <3>1, PublishedGood
    <3> QED
      BY <3>1, <3>2, EndedStays
  <2> QED
    BY <1>8, <2>1, <2>2, <2>3, <2>4, <2>5, <2>6, <2>7, <2>8 DEF Step
<1> QED
  BY <1>4, <1>5, <1>6, <1>7, <1>8 DEF Next

\* A newly published signal has told nothing.
LEMMA InitStory == Init => StoryInv
<1> SUFFICES ASSUME Init PROVE StoryInv
  OBVIOUS
<1>1. clock \in Nat
  BY MonitorAssumption DEF Init
<1>2. <<>> \in Seq(Candles) /\ Len(<<>>) = 0 /\ <<>> \in Seq(GoodCalls) /\ 0 \in 0..0
  OBVIOUS
<1>3. Published.stop = StopLoss
  BY DEF Published
<1> QED
  BY <1>1, <1>2, <1>3, PublishedGood DEF Init, StoryInv

\* Whichever run records the fill and however late it runs, it is the first
\* touch of the entry inside the window.
THEOREM FillsAtFirstTouch == Spec => []FillIsFirstTouch
<1>1. StoryInv => FillIsFirstTouch
  BY DEF StoryInv, GoodRow, FirstFill, FillIsFirstTouch
<1> QED
  BY InitIInv, NextIInv, InitStory, NextStory, <1>1, PTL DEF Spec

\* No run, however late, records a target in or after a candle that took the
\* published stop.
THEOREM NoWinsAfterStop == Spec => []NoWinAfterStop
<1>1. ASSUME StoryInv PROVE NoWinAfterStop
  <2> SUFFICES ASSUME NEW e \in row.events, e[1] = "TARGET_HIT", NEW i \in DOMAIN market,
                      row.filledAt <= OpenTime(i), OpenTime(i) <= e[3]
               PROVE  ~Stopped(StopLoss, market[i])
    BY DEF NoWinAfterStop
  <2>1. PICK k \in DOMAIN market : OpenTime(k) = e[3] /\ CleanUpTo(k)
    BY <1>1 DEF StoryInv, GoodRow, CleanAt
  <2>2. PICK m \in DOMAIN market : OpenTime(m) = row.filledAt /\ Fillable(m)
    BY <1>1 DEF StoryInv, GoodRow, FirstFill
  <2>3. DOMAIN market \subseteq Nat \ {0}
    BY <1>1 DEF StoryInv
  <2>4. m <= i /\ i <= k
    BY <2>1, <2>2, <2>3, OpenOrder
  <2>5. i \in 1..k /\ m \in 1..i
    BY <2>3, <2>4
  <2> QED
    BY <2>1, <2>2, <2>5 DEF CleanUpTo
<1> QED
  BY InitIInv, NextIInv, InitStory, NextStory, <1>1, PTL DEF Spec

-----------------------------------------------------------------------------
(* The return. What a call books is a walk over the ladder; what a run     *)
(* decides fits the row it decides on, call by call; a run alone writes to *)
(* the row it has decided on.                                              *)

\* the targets of row x that were taken, what they paid and what they left
HitsOf(x) == {n \in Numbers : x.hitAt[n] # Never}
Paid(hit) == SumFunctionOnSet([n \in Numbers |-> Share(n) * Leg(Ladder[n])], hit)
Left(hit) == Whole - SumFunctionOnSet([n \in Numbers |-> Share(n)], hit)

\* the position taken once the first n targets are
CapOf(n) == IF LastTarget = 3 THEN IF n = 0 THEN 0 ELSE <<15, 24, 30>>[n] ELSE 10 * n

\* The shares of the targets add up to the whole position.
LEMMA Shares ==
    /\ LastTarget \in Nat \ {0} /\ Numbers = 1..LastTarget /\ IsFiniteSet(Numbers)
    /\ CapOf(0) = 0 /\ CapOf(LastTarget) = Whole /\ Whole \in Nat \ {0}
    /\ \A n \in Numbers : /\ Share(n) \in Nat /\ Ladder[n] \in Nat /\ Leg(Ladder[n]) \in Int
                          /\ CapOf(n) \in Nat /\ CapOf(n - 1) \in Nat
                          /\ CapOf(n) = CapOf(n - 1) + Share(n)
                          /\ CapOf(n) <= Whole
<1>1. Ladder \in Seq(Nat) /\ Ladder # <<>> /\ Entry \in Nat
  BY SignalAssumption
<1>2. LastTarget \in Nat \ {0} /\ Numbers = 1..LastTarget /\ \A n \in Numbers : Ladder[n] \in Nat
  BY <1>1 DEF LastTarget, Numbers
<1>3. IsFiniteSet(Numbers)
  BY <1>2, FS_Interval
<1>4. \A n \in Numbers : Leg(Ladder[n]) \in Int
  BY <1>1, <1>2 DEF Leg
<1>5. CASE LastTarget = 3
  <2>1. Numbers = {1, 2, 3}
    BY <1>2, <1>5
  <2> QED
    BY <1>2, <1>3, <1>4, <1>5, <2>1 DEF CapOf, Share, Whole
<1>6. CASE LastTarget # 3
  BY <1>2, <1>3, <1>4, <1>6 DEF CapOf, Share, Whole
<1> QED
  BY <1>5, <1>6

\* The smaller of two numbers.
LEMMA MinOfTwo ==
    ASSUME NEW a \in Int, NEW b \in Int, a <= b
    PROVE  Min({a, b}) = a
<1>1. \E x \in {a, b} : \A y \in {a, b} : x <= y
  OBVIOUS
<1>2. Min({a, b}) \in {a, b} /\ \A y \in {a, b} : Min({a, b}) <= y
  BY <1>1 DEF Min
<1> QED
  BY <1>2

\* It is a number.
LEMMA MinIsInt ==
    ASSUME NEW a \in Int, NEW b \in Int
    PROVE  Min({a, b}) \in Int
<1>1. \E x \in {a, b} : \A y \in {a, b} : x <= y
  OBVIOUS
<1>2. Min({a, b}) \in {a, b}
  BY <1>1 DEF Min
<1> QED
  BY <1>2

\* The largest of the first numbers is the last of them.
LEMMA MaxOfFirst ==
    ASSUME NEW n \in Nat \ {0}
    PROVE  Max(1..n) = n
<1>1. n \in 1..n /\ \A y \in 1..n : n >= y
  OBVIOUS
<1>2. Max(1..n) \in 1..n /\ \A y \in 1..n : Max(1..n) >= y
  BY <1>1 DEF Max
<1> QED
  BY <1>1, <1>2

\* A nonempty finite set of numbers has a largest one.
LEMMA MaxOfSome ==
    ASSUME NEW S, IsFiniteSet(S), S # {}, \A n \in S : n \in Int
    PROVE  Max(S) \in S
<1> DEFINE X == {T \in SUBSET S : T = {} \/ \E m \in T : \A k \in T : m >= k}
<1>1. {} \in X
  OBVIOUS
<1>2. ASSUME NEW T \in SUBSET S, NEW e \in S, T \in X PROVE T \union {e} \in X
  <2>1. CASE T = {}
    BY <2>1
  <2>2. ASSUME NEW m \in T, \A k \in T : m >= k PROVE T \union {e} \in X
    <3>1. CASE m >= e
      BY <2>2, <3>1
    <3>2. CASE e >= m
      BY <2>2, <3>2
    <3> QED
      BY <3>1, <3>2
  <2> QED
    BY <1>2, <2>1, <2>2
<1>3. Rules!IsFiniteSet(S)
  BY DEF IsFiniteSet, Rules!IsFiniteSet
<1>4. S \in X
  <2> HIDE DEF X
  <2> QED
    BY <1>1, <1>2, <1>3, Rules!SetInduction
<1>5. \E m \in S : \A k \in S : m >= k
  BY <1>4
<1> QED
  BY <1>5 DEF Max

\* The sum of a function over a finite set, element by element.
LEMMA SumSteps ==
    ASSUME NEW S, IsFiniteSet(S), NEW f \in [S -> Int]
    PROVE  /\ SumFunctionOnSet(f, {}) = 0
           /\ \A T \in SUBSET S :
                 /\ SumFunctionOnSet(f, T) \in Int
                 /\ \A e \in T : SumFunctionOnSet(f, T) = f[e] + SumFunctionOnSet(f, T \ {e})
<1>1. \A T : SumFunctionOnSet(f, T) = Rules!SumFunctionOnSet(f, T)
  BY DEF SumFunctionOnSet, FoldFunctionOnSet, MapThenFoldSet,
         Rules!SumFunctionOnSet, Rules!FoldFunctionOnSet, Rules!MapThenFoldSet
<1>2. Rules!IsFiniteSet(S)
  BY DEF IsFiniteSet, Rules!IsFiniteSet
<1> QED
  BY <1>1, <1>2, Rules!SumDrop

\* The targets of hit that are among the first n.
FirstHits(hit, n) == hit \intersect (1..n)

\* What the targets of hit paid, target by target.
LEMMA PaidGrows ==
    ASSUME NEW hit \in SUBSET Numbers
    PROVE  /\ Paid(FirstHits(hit, 0)) = 0 /\ Left(FirstHits(hit, 0)) = Whole
           /\ FirstHits(hit, LastTarget) = hit
           /\ \A n \in Numbers : LET T == FirstHits(hit, n)
                                     U == FirstHits(hit, n - 1) IN
                 /\ Paid(U) \in Int /\ Left(U) \in Int
                 /\ n \in hit => /\ Paid(T) = Paid(U) + Share(n) * Leg(Ladder[n])
                                 /\ Left(T) = Left(U) - Share(n)
                 /\ n \notin hit => T = U
<1> DEFINE F == [n \in Numbers |-> Share(n) * Leg(Ladder[n])]
           G == [n \in Numbers |-> Share(n)]
<1>1. F \in [Numbers -> Int] /\ G \in [Numbers -> Int] /\ IsFiniteSet(Numbers)
  BY Shares
<1>2. /\ Numbers = 1..LastTarget /\ LastTarget \in Nat /\ Whole \in Int
      /\ \A n \in Numbers : F[n] = Share(n) * Leg(Ladder[n]) /\ G[n] = Share(n) /\ Share(n) \in Int
  BY Shares
<1> HIDE DEF F, G
<1>3. /\ SumFunctionOnSet(F, {}) = 0
      /\ \A T \in SUBSET Numbers :
           /\ SumFunctionOnSet(F, T) \in Int
           /\ \A e \in T : SumFunctionOnSet(F, T) = F[e] + SumFunctionOnSet(F, T \ {e})
  BY <1>1, SumSteps
<1>4. /\ SumFunctionOnSet(G, {}) = 0
      /\ \A T \in SUBSET Numbers :
           /\ SumFunctionOnSet(G, T) \in Int
           /\ \A e \in T : SumFunctionOnSet(G, T) = G[e] + SumFunctionOnSet(G, T \ {e})
  BY <1>1, SumSteps
<1>5. \A T : Paid(T) = SumFunctionOnSet(F, T) /\ Left(T) = Whole - SumFunctionOnSet(G, T)
  BY DEF Paid, Left, F, G
<1>6. FirstHits(hit, 0) = {} /\ FirstHits(hit, LastTarget) = hit
  <2>1. \A n \in hit : n \in 1..LastTarget
    BY <1>2
  <2>2. FirstHits(hit, LastTarget) = hit
    BY <2>1 DEF FirstHits
  <2>3. FirstHits(hit, 0) = {}
    BY DEF FirstHits
  <2> QED
    BY <2>2, <2>3
<1>7. ASSUME NEW n \in Numbers
      PROVE  LET T == FirstHits(hit, n)
                 U == FirstHits(hit, n - 1) IN
             /\ Paid(U) \in Int /\ Left(U) \in Int
             /\ n \in hit => /\ Paid(T) = Paid(U) + Share(n) * Leg(Ladder[n])
                             /\ Left(T) = Left(U) - Share(n)
             /\ n \notin hit => T = U
  <2> DEFINE T == FirstHits(hit, n)
             U == FirstHits(hit, n - 1)
  <2>1. T \in SUBSET Numbers /\ U \in SUBSET Numbers
    BY DEF FirstHits
  <2>2. n \in hit => n \in T /\ T \ {n} = U
    BY <1>2 DEF FirstHits
  <2>3. n \notin hit => T = U
    BY <1>2 DEF FirstHits
  <2> HIDE DEF T, U
  <2>4. /\ SumFunctionOnSet(F, U) \in Int /\ SumFunctionOnSet(G, U) \in Int
    BY <1>3, <1>4, <2>1
  <2>5. ASSUME n \in hit
        PROVE  /\ SumFunctionOnSet(F, T) = F[n] + SumFunctionOnSet(F, U)
               /\ SumFunctionOnSet(G, T) = G[n] + SumFunctionOnSet(G, U)
    BY <1>3, <1>4, <2>1, <2>2, <2>5
  <2>6. F[n] \in Int /\ G[n] \in Int
    BY <1>1
  <2>7. Paid(U) \in Int /\ Left(U) \in Int
    BY <1>2, <1>5, <2>4
  <2>8. n \in hit => Paid(T) = Paid(U) + Share(n) * Leg(Ladder[n]) /\ Left(T) = Left(U) - Share(n)
    BY <1>2, <1>5, <2>4, <2>5, <2>6
  <2> QED
    BY <2>3, <2>7, <2>8 DEF T, U
<1>8. Paid({}) = 0 /\ Left({}) = Whole
  BY <1>2, <1>3, <1>4, <1>5
<1> QED
  BY <1>6, <1>7, <1>8

\* A realised return is what the hit targets paid, and the rest at the price.
LEMMA RealisedIs ==
    ASSUME NEW hit \in SUBSET Numbers, NEW price \in Int
    PROVE  Realised(hit, {price}) = {Paid(hit) + Left(hit) * Leg(price)}
<1> DEFINE exits == [n \in Numbers |-> [share |-> IF n \in hit THEN Share(n) ELSE 0, price |-> Ladder[n]]]
           take(b, e) == LET share == Min({e.share, Whole - b.taken})
                         IN [total |-> b.total + share * Leg(e.price), taken |-> b.taken + share]
           zero == [total |-> 0, taken |-> 0]
           Folds(it) == it = [s \in SUBSET Numbers |->
                                IF s = {} THEN zero ELSE take(it[s \ {Max(s)}], exits[Max(s)])]
           all == CHOOSE it : Folds(it)
           banked == all[Numbers]
           V == [total : Int, taken : Int]
<1>1. Realised(hit, {price}) =
        IF Whole - banked.taken > 0 THEN {banked.total + (Whole - banked.taken) * Leg(price)}
        ELSE IF banked.taken > 0 THEN {banked.total} ELSE {}
  BY DEF Realised, WeightedReturn, FoldLeft, MapThenFoldSet
<1>2. /\ LastTarget \in Nat \ {0} /\ Numbers = 1..LastTarget /\ IsFiniteSet(Numbers)
      /\ Whole \in Nat \ {0}
      /\ \A n \in Numbers : Share(n) \in Nat /\ Leg(Ladder[n]) \in Int
  BY Shares
<1>3. /\ \A n \in Numbers : exits[n] \in [share : Nat, price : {Ladder[n]}]
      /\ \A n \in Numbers : exits[n].share = (IF n \in hit THEN Share(n) ELSE 0) /\ exits[n].price = Ladder[n]
  BY <1>2
<1> HIDE DEF exits
<1>4. ASSUME NEW b \in V, NEW n \in Numbers PROVE take(b, exits[n]) \in V
  <2>1. exits[n].share \in Int /\ Whole - b.taken \in Int
    BY <1>2, <1>3
  <2>2. Min({exits[n].share, Whole - b.taken}) \in Int
    BY <2>1, MinIsInt
  <2>3. Leg(exits[n].price) \in Int
    BY <1>2, <1>3
  <2> DEFINE m == Min({exits[n].share, Whole - b.taken})
             l == Leg(exits[n].price)
  <2>4. take(b, exits[n]) = [total |-> b.total + m * l, taken |-> b.taken + m]
    OBVIOUS
  <2>5. m \in Int /\ l \in Int
    BY <2>2, <2>3
  <2> HIDE DEF m, l, take
  <2> QED
    BY <2>4, <2>5
<1> HIDE DEF take
<1>5. Folds(all)
  <2> DEFINE p == [s \in SUBSET Numbers |-> IF s = {} THEN 0 ELSE Max(s)]
             H == [c \in (SUBSET Numbers) \X V |->
                     IF c[1] = {} THEN c[2] ELSE take(c[2], exits[Max(c[1])])]
  <2>1. ASSUME NEW s \in SUBSET Numbers, s # {} PROVE Max(s) \in s
    <3>1. IsFiniteSet(s)
      BY <1>2, FS_Subset
    <3>2. \A n \in s : n \in Int
      BY <1>2
    <3> QED
      BY <2>1, <3>1, <3>2, MaxOfSome
  <2>2. H \in [(SUBSET Numbers) \X V -> V]
    <3>1. ASSUME NEW s \in SUBSET Numbers, NEW b \in V, s # {} PROVE take(b, exits[Max(s)]) \in V
      <4>1. Max(s) \in Numbers
        BY <2>1, <3>1
      <4> QED
        BY <1>4, <4>1
    <3> HIDE DEF V
    <3> QED
      BY <3>1
  <2>3. zero \in V
    OBVIOUS
  <2>4. \A s \in SUBSET Numbers : s # {} => p[s] \in s
    BY <2>1
  <2>5. \E it \in [SUBSET Numbers -> V] : Rules!IsFold(it, Numbers, zero, p, H)
    <3>1. Rules!IsFiniteSet(Numbers)
      BY <1>2 DEF IsFiniteSet, Rules!IsFiniteSet
    <3> HIDE DEF V, p, H, zero
    <3> QED
      BY <2>2, <2>3, <2>4, <3>1, Rules!FoldExists
  <2>6. PICK it \in [SUBSET Numbers -> V] : Rules!IsFold(it, Numbers, zero, p, H)
    BY <2>5
  <2> HIDE DEF V
  <2>7. \A s \in SUBSET Numbers : it[s] = IF s = {} THEN zero ELSE take(it[s \ {Max(s)}], exits[Max(s)])
    BY <2>6 DEF Rules!IsFold
  <2>8. Folds(it)
    BY <2>6, <2>7
  <2> HIDE DEF Folds
  <2> QED
    BY <2>8
<1> HIDE DEF all
<1>6. all[1..0] = zero /\ \A n \in Numbers : all[1..n] = take(all[1..(n - 1)], exits[n])
  <2>1. 1..0 = {} /\ 1..0 \in SUBSET Numbers
    OBVIOUS
  <2>2. all[1..0] = zero
    BY <1>5, <2>1
  <2>3. ASSUME NEW n \in Numbers PROVE all[1..n] = take(all[1..(n - 1)], exits[n])
    <3>0. n \in Nat \ {0} /\ n <= LastTarget
      BY <1>2
    <3>1. 1..n \in SUBSET Numbers /\ 1..n # {} /\ Max(1..n) = n
      <4>1. Max(1..n) = n
        BY <3>0, MaxOfFirst
      <4> QED
        BY <1>2, <3>0, <4>1
    <3>2. (1..n) \ {n} = 1..(n - 1)
      BY <1>2
    <3> QED
      BY <1>5, <3>1, <3>2
  <2> QED
    BY <2>2, <2>3
<1> HIDE DEF Folds
<1> DEFINE Good(n) == LET T == FirstHits(hit, n) IN
                        /\ all[1..n].total = Paid(T) /\ all[1..n].taken = Whole - Left(T)
                        /\ Paid(T) \in Int /\ Left(T) \in Int
                        /\ 0 <= Whole - Left(T) /\ Whole - Left(T) <= CapOf(n)
           X == {n \in 0..LastTarget : Good(n)}
<1>7. 0 \in X
  <2>1. Paid(FirstHits(hit, 0)) = 0 /\ Left(FirstHits(hit, 0)) = Whole
    BY PaidGrows
  <2>2. CapOf(0) = 0
    BY Shares
  <2> QED
    BY <1>2, <1>6, <2>1, <2>2
<1>8. ASSUME NEW m \in 0..(LastTarget - 1), m \in X PROVE m + 1 \in X
  <2> DEFINE n == m + 1
             T == FirstHits(hit, n)
             U == FirstHits(hit, m)
  <2>1. n \in Numbers /\ n - 1 = m /\ n \in 0..LastTarget
    BY <1>2
  <2>2. /\ all[1..m].total = Paid(U) /\ all[1..m].taken = Whole - Left(U)
        /\ Paid(U) \in Int /\ Left(U) \in Int
        /\ 0 <= Whole - Left(U) /\ Whole - Left(U) <= CapOf(m)
    BY <1>8
  <2> HIDE DEF n
  <2>3. all[1..n] = take(all[1..m], exits[n])
    BY <1>6, <2>1
  <2>4. /\ Share(n) \in Nat /\ CapOf(n) \in Nat /\ CapOf(m) \in Nat
        /\ CapOf(n) = CapOf(m) + Share(n) /\ CapOf(n) <= Whole /\ Leg(Ladder[n]) \in Int
    BY <2>1, Shares
  <2>5. /\ n \in hit => Paid(T) = Paid(U) + Share(n) * Leg(Ladder[n]) /\ Left(T) = Left(U) - Share(n)
        /\ n \notin hit => T = U
    BY <2>1, PaidGrows
  <2> DEFINE share == IF n \in hit THEN Share(n) ELSE 0
  <2>6. exits[n].share = share /\ exits[n].price = Ladder[n]
    BY <1>3, <2>1
  <2>7. Min({share, Whole - all[1..m].taken}) = share
    <3>1. share \in Int /\ Left(U) \in Int /\ share <= Left(U)
      BY <1>2, <2>2, <2>4
    <3>2. Whole - all[1..m].taken = Left(U)
      BY <1>2, <2>2
    <3> HIDE DEF share
    <3> QED
      BY <3>1, <3>2, MinOfTwo
  <2>8. /\ all[1..n].total = all[1..m].total + share * Leg(Ladder[n])
        /\ all[1..n].taken = all[1..m].taken + share
    <3> HIDE DEF share
    <3> QED
      BY <2>3, <2>6, <2>7 DEF take
  <2> HIDE DEF T, U
  <2>9. CASE n \in hit
    <3> DEFINE pay == Share(n) * Leg(Ladder[n])
    <3>1. pay \in Int
      BY <2>4
    <3>2. Paid(T) = Paid(U) + pay /\ Left(T) = Left(U) - Share(n) /\ all[1..n].total = Paid(U) + pay
      BY <2>2, <2>5, <2>8, <2>9
    <3>3. all[1..n].taken = Whole - Left(U) + Share(n)
      BY <2>2, <2>8, <2>9
    <3> HIDE DEF pay
    <3>4. Good(n)
      BY <1>2, <2>2, <2>4, <3>1, <3>2, <3>3 DEF T
    <3> QED
      BY <2>1, <3>4 DEF n
  <2>10. CASE n \notin hit
    <3>1. T = U /\ all[1..n].total = Paid(U) + 0 * Leg(Ladder[n]) /\ all[1..n].taken = Whole - Left(U) + 0
      BY <2>2, <2>5, <2>8, <2>10
    <3>2. Good(n)
      BY <1>2, <2>2, <2>4, <3>1 DEF T
    <3> QED
      BY <2>1, <3>2 DEF n
  <2> QED
    BY <2>9, <2>10
<1>9. Good(LastTarget)
  <2>1. LastTarget \in X
    <3> HIDE DEF X
    <3> QED
      BY <1>2, <1>7, <1>8, Rules!UpTo
  <2> QED
    BY <2>1
<1>10. /\ banked.total = Paid(hit) /\ Whole - banked.taken = Left(hit)
       /\ Paid(hit) \in Int /\ Left(hit) \in Int /\ Left(hit) >= 0
  <2>1. FirstHits(hit, LastTarget) = hit /\ CapOf(LastTarget) = Whole
    BY PaidGrows, Shares
  <2> QED
    BY <1>2, <1>9, <2>1
<1>11. Leg(price) \in Int
  BY SignalAssumption DEF Leg
<1> HIDE DEF banked
<1>12. CASE Left(hit) > 0
  BY <1>1, <1>10, <1>12
<1>13. CASE Left(hit) = 0
  <2>1. banked.taken > 0
    BY <1>2, <1>9, <1>10, <1>13 DEF banked
  <2>2. Realised(hit, {price}) = {Paid(hit)}
    BY <1>1, <1>10, <1>13, <2>1
  <2>3. Paid(hit) + Left(hit) * Leg(price) = Paid(hit)
    BY <1>10, <1>11, <1>13
  <2> QED
    BY <2>2, <2>3
<1>14. Left(hit) > 0 \/ Left(hit) = 0
  BY <1>10
<1> QED
  BY <1>12, <1>13, <1>14

\* What the targets paid and left are numbers.
LEMMA PaidIsInt ==
    ASSUME NEW hit \in SUBSET Numbers
    PROVE  Paid(hit) \in Int /\ Left(hit) \in Int
<1> DEFINE F == [n \in Numbers |-> Share(n) * Leg(Ladder[n])]
           G == [n \in Numbers |-> Share(n)]
<1>1. F \in [Numbers -> Int] /\ G \in [Numbers -> Int] /\ IsFiniteSet(Numbers) /\ Whole \in Int
  BY Shares
<1> HIDE DEF F, G
<1>2. SumFunctionOnSet(F, hit) \in Int /\ SumFunctionOnSet(G, hit) \in Int
  BY <1>1, SumSteps
<1> QED
  BY <1>1, <1>2 DEF Paid, Left, F, G

\* Once every target is taken nothing is left.
LEMMA NothingLeft == Left(Numbers) = 0
<1> DEFINE X == {n \in 0..LastTarget : Left(FirstHits(Numbers, n)) = Whole - CapOf(n)}
<1>1. LastTarget \in Nat \ {0} /\ Numbers = 1..LastTarget /\ Whole \in Nat \ {0}
  BY Shares
<1>2. 0 \in X
  BY <1>1, Shares, PaidGrows
<1>3. ASSUME NEW m \in 0..(LastTarget - 1), m \in X PROVE m + 1 \in X
  <2>1. m + 1 \in Numbers /\ (m + 1) - 1 = m /\ m + 1 \in 0..LastTarget
    BY <1>1
  <2>2. Left(FirstHits(Numbers, m + 1)) = Left(FirstHits(Numbers, m)) - Share(m + 1)
    BY <2>1, PaidGrows
  <2>3. /\ CapOf(m + 1) = CapOf(m) + Share(m + 1)
        /\ CapOf(m) \in Nat /\ Share(m + 1) \in Nat
    BY <2>1, Shares
  <2> QED
    BY <1>1, <1>3, <2>1, <2>2, <2>3
<1>4. LastTarget \in X
  <2> HIDE DEF X
  <2> QED
    BY <1>1, <1>2, <1>3, Rules!UpTo
<1>5. FirstHits(Numbers, LastTarget) = Numbers /\ CapOf(LastTarget) = Whole
  BY Shares, PaidGrows
<1> QED
  BY <1>1, <1>4, <1>5

Closes == {Close(market[i]) : i \in DOMAIN market}

\* what row x will say of its stop, its targets and its fill after k calls
StopAfter(x, calls, k) ==
    IF \E j \in 1..k : calls[j].kind = "STOP_MOVED" THEN Entry ELSE x.stop
HitsAfter(x, calls, k) ==
    HitsOf(x) \union {n \in Numbers : \E j \in 1..k : calls[j].kind = "TARGET_HIT" /\ calls[j].number = n}
FilledAfter(x, calls, k) ==
    x.filledAt # Never \/ \E j \in 1..k : calls[j].kind = "ENTRY_FILLED"

\* a call that may follow once the row says stop, hit and filled
Follows(a, stop, hit, filled) ==
    /\ a.kind = "STOP_MOVED" => a.price = Entry
    /\ a.kind = "STOP_LOSS_HIT" => a.price = stop
    /\ a.kind = "TARGET_HIT" => a.number \in Numbers /\ a.price = Ladder[a.number] /\ 1..(a.number - 1) \subseteq hit
    /\ a.kind = "EXPIRED" => filled /\ a.price \in Closes
    /\ a.kind = "CANCELLED" => a.price = Never

\* each of the calls follows when the earlier ones are on row x
FitsRow(x, calls) ==
    \A k \in DOMAIN calls :
        Follows(calls[k], StopAfter(x, calls, k - 1), HitsAfter(x, calls, k - 1), FilledAfter(x, calls, k - 1))

\* the return on row x is that of its targets, its stop and the candles
Settled(x) ==
    CASE x.status = "TP_HIT" -> HitsOf(x) = Numbers /\ x.result = {Paid(Numbers)}
      [] x.status = "SL_HIT" -> x.result = Realised(HitsOf(x), {x.stop})
      [] x.status = "EXPIRED" -> x.filledAt # Never /\ \E price \in Closes : x.result = Realised(HitsOf(x), {price})
      [] OTHER -> x.result = {}

\* the events on row x are in its columns
Entered(x) ==
    \A e \in x.events : /\ e[1] = "STOP_MOVED" => x.stop = Entry
                        /\ e[1] = "TARGET_HIT" => e[2] \in HitsOf(x)
                        /\ e[1] = "ENTRY_FILLED" => x.filledAt # Never

ReturnRow(x) == Settled(x) /\ Entered(x)

\* The stop is moved to the entry once.
LEMMA EntryIsTighter == Tighter(Entry, StopLoss) /\ Entry # Never /\ StopLoss # Never
BY SignalAssumption DEF Tighter, PriceStructure, Never

\* A good call has a time and a number.
LEMMA CallParts ==
    ASSUME NEW a \in GoodCalls
    PROVE  /\ a.kind \in RunKinds /\ a.number \in Nat /\ a.price \in Int /\ a.at \in Int
           /\ Key(a)[1] = a.kind /\ Key(a)[2] = a.number
           /\ market \in Seq(Candles) /\ a.kind \in {"ENTRY_FILLED", "TARGET_HIT"} => a.at # Never
<1>1. /\ a.kind \in RunKinds /\ a.number \in Nat /\ a.price \in Int /\ a.at \in Int
      /\ Key(a)[1] = a.kind /\ Key(a)[2] = a.number
  BY DEF GoodCalls, Calls, Key
<1>2. ASSUME market \in Seq(Candles), a.kind \in {"ENTRY_FILLED", "TARGET_HIT"} PROVE a.at # Never
  <2>1. \E i \in DOMAIN market : OpenTime(i) = a.at
    BY <1>2 DEF GoodCalls, FirstFill, CleanAt
  <2> QED
    BY <1>2, <2>1, TimesAreReal
<1> QED
  BY <1>1, <1>2

\* What a call that the store does not refuse makes of the row.
LEMMA RecordEffect ==
    ASSUME market \in Seq(Candles), NEW x, IsRow(x), GoodRow(x), Entered(x),
           NEW a \in GoodCalls, ~Refused(x, a),
           Follows(a, x.stop, HitsOf(x), x.filledAt # Never)
    PROVE  LET y == Record(x, a) IN
           /\ y.stop = IF a.kind = "STOP_MOVED" THEN Entry ELSE x.stop
           /\ HitsOf(y) = HitsOf(x) \union {n \in Numbers : a.kind = "TARGET_HIT" /\ a.number = n}
           /\ y.filledAt # Never <=> (x.filledAt # Never \/ a.kind = "ENTRY_FILLED")
           /\ Entered(y)
<1> DEFINE y == Record(x, a)
<1>0. /\ a.kind \in RunKinds /\ a.number \in Nat /\ a.at \in Int
      /\ Key(a)[1] = a.kind /\ Key(a)[2] = a.number
      /\ a.kind \in {"ENTRY_FILLED", "TARGET_HIT"} => a.at # Never
      /\ a.kind = "TARGET_HIT" => a.number \in Numbers
      /\ a.kind = "STOP_MOVED" => a.price = Entry
  BY CallParts DEF Follows
<1>1. CASE Duplicate(x, a)
  <2>1. y = x
    BY <1>1 DEF Record
  <2>2. a.kind = "STOP_MOVED" => x.stop = Entry
    <3>1. CASE Key(a) \in x.events
      BY <1>0, <3>1 DEF Entered
    <3>2. CASE Key(a) \notin x.events
      BY <1>0, <1>1, <3>2, EntryIsTighter DEF Duplicate, GoodRow
    <3> QED
      BY <3>1, <3>2
  <2>3. a.kind # "STOP_MOVED" => Key(a) \in x.events
    BY <1>1 DEF Duplicate
  <2>4. a.kind = "TARGET_HIT" => a.number \in HitsOf(x)
    BY <1>0, <2>3 DEF Entered
  <2>5. a.kind = "ENTRY_FILLED" => x.filledAt # Never
    BY <1>0, <2>3 DEF Entered
  <2>6. HitsOf(x) = HitsOf(x) \union {n \in Numbers : a.kind = "TARGET_HIT" /\ a.number = n}
    BY <2>4
  <2> QED
    BY <2>1, <2>2, <2>5, <2>6
<1>2. CASE ~Duplicate(x, a)
  <2>1. /\ y.events = x.events \union {Key(a)}
        /\ y.filledAt = IF a.kind = "ENTRY_FILLED" THEN a.at ELSE x.filledAt
        /\ y.stop = IF a.kind = "STOP_MOVED" THEN a.price ELSE x.stop
        /\ y.hitAt = [n \in Numbers |->
                        IF a.kind = "TARGET_HIT" /\ n = a.number /\ x.hitAt[n] = Never THEN a.at ELSE x.hitAt[n]]
    BY <1>2 DEF Record, IsRow, Written, FilledAt
  <2> HIDE DEF y
  <2>2. HitsOf(y) = HitsOf(x) \union {n \in Numbers : a.kind = "TARGET_HIT" /\ a.number = n}
    BY <1>0, <2>1 DEF HitsOf
  <2>3. /\ y.stop = IF a.kind = "STOP_MOVED" THEN Entry ELSE x.stop
        /\ y.filledAt # Never <=> (x.filledAt # Never \/ a.kind = "ENTRY_FILLED")
    BY <1>0, <2>1
  <2>4. Entered(y)
    <3> SUFFICES ASSUME NEW e \in y.events
                 PROVE  /\ e[1] = "STOP_MOVED" => y.stop = Entry
                        /\ e[1] = "TARGET_HIT" => e[2] \in HitsOf(y)
                        /\ e[1] = "ENTRY_FILLED" => y.filledAt # Never
      BY DEF Entered
    <3>1. CASE e \in x.events
      BY <2>2, <2>3, <3>1 DEF Entered
    <3>2. CASE e = Key(a)
      BY <1>0, <2>2, <2>3, <3>2
    <3> QED
      BY <2>1, <3>1, <3>2
  <2> QED
    BY <2>2, <2>3, <2>4 DEF y
<1> QED
  BY <1>1, <1>2

\* The prices of the row and of the candles are prices.
LEMMA PricesAreReal ==
    ASSUME market \in Seq(Candles), NEW price \in Closes \union {Entry, StopLoss}
    PROVE  price \in Int /\ price # Never
<1>1. CASE price \in {Entry, StopLoss}
  BY <1>1, EntryIsTighter, SignalAssumption
<1>2. CASE price \in Closes
  <2>1. PICK c \in Candles : price = Close(c)
    BY <1>2 DEF Closes
  <2>2. price \in Nat
    BY <2>1, MonitorAssumption DEF Close
  <2> QED
    BY <2>2 DEF Never
<1> QED
  BY <1>1, <1>2

\* What a call books is the return of the row it leaves.
LEMMA RecordSettled ==
    ASSUME market \in Seq(Candles), NEW x, IsRow(x), GoodRow(x), ReturnRow(x),
           NEW a \in GoodCalls, ~Refused(x, a),
           Follows(a, x.stop, HitsOf(x), x.filledAt # Never)
    PROVE  ReturnRow(Record(x, a))
<1> DEFINE y == Record(x, a)
<1>1. /\ y.stop = IF a.kind = "STOP_MOVED" THEN Entry ELSE x.stop
      /\ HitsOf(y) = HitsOf(x) \union {n \in Numbers : a.kind = "TARGET_HIT" /\ a.number = n}
      /\ y.filledAt # Never <=> (x.filledAt # Never \/ a.kind = "ENTRY_FILLED")
      /\ Entered(y)
  BY RecordEffect DEF ReturnRow
<1>2. CASE Duplicate(x, a)
  BY <1>2 DEF Record
<1>3. CASE ~Duplicate(x, a)
  <2>0. /\ a.kind \in RunKinds /\ a.number \in Nat
        /\ Key(a)[1] = a.kind /\ Key(a)[2] = a.number
        /\ LastTarget \in Nat \ {0} /\ Numbers = 1..LastTarget
    BY CallParts, Shares
  <2>1. /\ y.status = IF a.kind = "STOP_MOVED" THEN x.status ELSE NextStatus(a)
        /\ y.result = Booked(x, a)
    BY <1>3 DEF Record, IsRow, Written
  <2>2. Taken(x, a) = HitsOf(y)
    BY <1>1 DEF Taken, HitsOf
  <2>3. x.status \in Working => x.result = {}
    BY DEF ReturnRow, Settled, Working
  <2>4. x.status \in Working
    BY <1>3 DEF Refused, Duplicate, Allowed, Working
  <2> HIDE DEF y
  <2>5. CASE a.kind \in {"STOP_MOVED", "ENTRY_FILLED", "CANCELLED"}
    <3>1. y.result = {}
      <4>1. CASE a.kind = "CANCELLED"
        BY <2>1, <2>3, <2>4, <4>1 DEF Booked, Follows
      <4>2. CASE a.kind \in {"STOP_MOVED", "ENTRY_FILLED"}
        <5>1. ~Ends(Key(a))
          BY <2>0, <4>2 DEF Ends, Terminal
        <5> QED
          BY <2>1, <2>3, <2>4, <5>1 DEF Booked
      <4> QED
        BY <2>5, <4>1, <4>2
    <3>2. y.status \in Working \union {"CANCELLED"}
      BY <2>1, <2>4, <2>5 DEF NextStatus, Working
    <3>3. Settled(y)
      BY <3>1, <3>2 DEF Settled, Working
    <3> QED
      BY <1>1, <3>3 DEF ReturnRow, y
  <2>6. CASE a.kind = "TARGET_HIT" /\ a.number < LastTarget
    <3>1. ~Ends(Key(a)) /\ NextStatus(a) = "PARTIAL_TP"
      BY <2>0, <2>6 DEF Ends, Terminal, NextStatus
    <3>2. y.result = {} /\ y.status = "PARTIAL_TP"
      BY <2>1, <2>3, <2>4, <2>6, <3>1 DEF Booked
    <3>3. Settled(y)
      BY <3>2 DEF Settled
    <3> QED
      BY <1>1, <3>3 DEF ReturnRow, y
  <2>7. CASE a.kind = "TARGET_HIT" /\ a.number >= LastTarget
    <3>1. a.number = LastTarget /\ LastTarget \in Numbers /\ a.price = Ladder[LastTarget]
      BY <2>0, <2>7 DEF Follows
    <3>2. HitsOf(y) = Numbers
      <4>1. \A n \in Numbers : n \in 1..(LastTarget - 1) \/ n = LastTarget
        BY <2>0
      <4>2. 1..(LastTarget - 1) \subseteq HitsOf(x)
        BY <2>7, <3>1 DEF Follows
      <4>3. HitsOf(x) \subseteq Numbers
        BY DEF HitsOf
      <4> QED
        BY <1>1, <2>7, <3>1, <4>1, <4>2, <4>3
    <3>3. Ladder[LastTarget] \in Nat /\ Leg(Ladder[LastTarget]) \in Int
      BY <3>1, Shares
    <3>4. Ends(Key(a)) /\ a.price # Never /\ y.status = "TP_HIT"
      BY <2>0, <2>1, <2>7, <3>1, <3>3 DEF Ends, NextStatus, Never
    <3>5. y.result = Realised(Numbers, {Ladder[LastTarget]})
      BY <2>1, <2>2, <3>1, <3>2, <3>4 DEF Booked
    <3>6. Realised(Numbers, {Ladder[LastTarget]}) = {Paid(Numbers) + Left(Numbers) * Leg(Ladder[LastTarget])}
      BY <3>3, RealisedIs
    <3>7. Paid(Numbers) \in Int
      BY PaidIsInt
    <3>8. y.result = {Paid(Numbers)}
      <4>1. \A p, l \in Int : p + 0 * l = p
        OBVIOUS
      <4>2. Paid(Numbers) + Left(Numbers) * Leg(Ladder[LastTarget]) = Paid(Numbers)
        BY <3>3, <3>7, <4>1, NothingLeft
      <4> QED
        BY <3>5, <3>6, <4>2
    <3>9. Settled(y)
      BY <3>2, <3>4, <3>8 DEF Settled
    <3> QED
      BY <1>1, <3>9 DEF ReturnRow, y
  <2>8. CASE a.kind = "STOP_LOSS_HIT"
    <3>1. a.price = x.stop /\ x.stop \in {Entry, StopLoss}
      BY <2>8 DEF Follows, GoodRow
    <3>2. Ends(Key(a)) /\ a.price # Never /\ y.status = "SL_HIT" /\ y.stop = x.stop
      BY <1>1, <2>0, <2>1, <2>8, <3>1, PricesAreReal DEF Ends, NextStatus
    <3>3. y.result = Realised(HitsOf(y), {y.stop})
      BY <2>1, <2>2, <3>1, <3>2 DEF Booked
    <3>4. Settled(y)
      BY <3>2, <3>3 DEF Settled
    <3> QED
      BY <1>1, <3>4 DEF ReturnRow, y
  <2>9. CASE a.kind = "EXPIRED"
    <3>1. a.price \in Closes /\ x.filledAt # Never
      BY <2>9 DEF Follows
    <3>2. Ends(Key(a)) /\ a.price # Never /\ y.status = "EXPIRED" /\ y.filledAt # Never
      BY <1>1, <2>0, <2>1, <2>9, <3>1, PricesAreReal DEF Ends, NextStatus, Terminal
    <3>3. y.result = Realised(HitsOf(y), {a.price})
      BY <2>1, <2>2, <3>2 DEF Booked
    <3>4. Settled(y)
      BY <3>1, <3>2, <3>3 DEF Settled
    <3> QED
      BY <1>1, <3>4 DEF ReturnRow, y
  <2> QED
    BY <2>0, <2>5, <2>6, <2>7, <2>8, <2>9 DEF RunKinds
<1> QED
  BY <1>2, <1>3

\* What row x will say after the calls.
StopAll(x, calls)   == StopAfter(x, calls, Len(calls))
HitsAll(x, calls)   == HitsAfter(x, calls, Len(calls))
FilledAll(x, calls) == FilledAfter(x, calls, Len(calls))

\* After no call the row says what it says.
LEMMA NothingAfter ==
    ASSUME NEW x, NEW calls, x.stop \in {StopLoss, Entry}
    PROVE  /\ StopAfter(x, calls, 0) = x.stop /\ HitsAfter(x, calls, 0) = HitsOf(x)
           /\ FilledAfter(x, calls, 0) <=> x.filledAt # Never
BY DEF StopAfter, HitsAfter, FilledAfter

\* The calls left to make still fit the row that the first of them leaves.
LEMMA FitsNext ==
    ASSUME market \in Seq(Candles), NEW x, IsRow(x), GoodRow(x), ReturnRow(x),
           NEW calls \in Seq(GoodCalls), calls # <<>>, FitsRow(x, calls), ~Refused(x, Head(calls))
    PROVE  ReturnRow(Record(x, Head(calls))) /\ FitsRow(Record(x, Head(calls)), Tail(calls))
<1> DEFINE a == Head(calls)
           y == Record(x, a)
           rest == Tail(calls)
<1>0. PICK n \in Nat \ {0} : n = Len(calls)
  OBVIOUS
<1>1. /\ a = calls[1] /\ 1 \in DOMAIN calls /\ a \in GoodCalls /\ DOMAIN calls = 1..n
      /\ DOMAIN rest = 1..(n - 1) /\ \A k \in 1..(n - 1) : rest[k] = calls[k + 1]
  BY <1>0
<1>2. Follows(a, x.stop, HitsOf(x), x.filledAt # Never)
  <2>1. Follows(calls[1], StopAfter(x, calls, 0), HitsAfter(x, calls, 0), FilledAfter(x, calls, 0))
    BY <1>1 DEF FitsRow
  <2> QED
    BY <1>1, <2>1, NothingAfter DEF GoodRow, Follows
<1>3. /\ y.stop = IF a.kind = "STOP_MOVED" THEN Entry ELSE x.stop
      /\ HitsOf(y) = HitsOf(x) \union {m \in Numbers : a.kind = "TARGET_HIT" /\ a.number = m}
      /\ y.filledAt # Never <=> (x.filledAt # Never \/ a.kind = "ENTRY_FILLED")
  BY <1>1, <1>2, RecordEffect DEF ReturnRow
<1>4. ReturnRow(y)
  BY <1>1, <1>2, RecordSettled
<1> HIDE DEF a, y, rest
<1>5. ASSUME NEW k \in 0..(n - 2)
      PROVE  /\ StopAfter(y, rest, k) = StopAfter(x, calls, k + 1)
             /\ HitsAfter(y, rest, k) = HitsAfter(x, calls, k + 1)
             /\ FilledAfter(y, rest, k) <=> FilledAfter(x, calls, k + 1)
  <2>1. ASSUME NEW j \in 1..k PROVE j + 1 \in 1..(k + 1) /\ rest[j] = calls[j + 1]
    BY <1>1
  <2>2. ASSUME NEW j \in 1..(k + 1) PROVE j = 1 \/ (j - 1 \in 1..k /\ calls[j] = rest[j - 1])
    <3>1. CASE j = 1
      BY <3>1
    <3>2. CASE j # 1
      <4>1. j - 1 \in 1..k /\ j - 1 \in 1..(n - 1) /\ (j - 1) + 1 = j
        BY <3>2
      <4> QED
        BY <1>1, <4>1
    <3> QED
      BY <3>1, <3>2
  <2>3. 1 \in 1..(k + 1) /\ calls[1] = a
    BY <1>1
  <2>4. StopAfter(y, rest, k) = StopAfter(x, calls, k + 1)
    BY <1>3, <2>1, <2>2, <2>3 DEF StopAfter
  <2>5. FilledAfter(y, rest, k) <=> FilledAfter(x, calls, k + 1)
    BY <1>3, <2>1, <2>2, <2>3 DEF FilledAfter
  <2>6. HitsAfter(y, rest, k) = HitsAfter(x, calls, k + 1)
    <3> DEFINE Of(c, m) == c.kind = "TARGET_HIT" /\ c.number = m
    <3>1. ASSUME NEW m PROVE (\E j \in 1..(k + 1) : Of(calls[j], m)) <=> (Of(a, m) \/ \E j \in 1..k : Of(rest[j], m))
      <4> HIDE DEF Of
      <4> QED
        BY <2>1, <2>2, <2>3
    <3>2. HitsAfter(y, rest, k) = HitsOf(y) \union {m \in Numbers : \E j \in 1..k : Of(rest[j], m)}
      BY DEF HitsAfter
    <3>3. HitsAfter(x, calls, k + 1) = HitsOf(x) \union {m \in Numbers : \E j \in 1..(k + 1) : Of(calls[j], m)}
      BY DEF HitsAfter
    <3>4. HitsOf(y) = HitsOf(x) \union {m \in Numbers : Of(a, m)}
      BY <1>3
    <3> HIDE DEF Of
    <3> QED
      BY <3>1, <3>2, <3>3, <3>4
  <2> QED
    BY <2>4, <2>5, <2>6
<1>6. ASSUME NEW k \in DOMAIN rest
      PROVE  Follows(rest[k], StopAfter(y, rest, k - 1), HitsAfter(y, rest, k - 1), FilledAfter(y, rest, k - 1))
  <2>1. k \in 1..(n - 1) /\ k - 1 \in 0..(n - 2) /\ (k - 1) + 1 = k /\ k + 1 \in DOMAIN calls /\ (k + 1) - 1 = k
    BY <1>1
  <2>2. Follows(calls[k + 1], StopAfter(x, calls, k), HitsAfter(x, calls, k), FilledAfter(x, calls, k))
    BY <2>1 DEF FitsRow
  <2>3. rest[k] = calls[k + 1]
    BY <1>1, <2>1
  <2>4. /\ StopAfter(y, rest, k - 1) = StopAfter(x, calls, k)
        /\ HitsAfter(y, rest, k - 1) = HitsAfter(x, calls, k)
        /\ FilledAfter(y, rest, k - 1) <=> FilledAfter(x, calls, k)
    BY <1>5, <2>1
  <2> QED
    BY <2>2, <2>3, <2>4 DEF Follows
<1>7. FitsRow(y, rest)
  BY <1>6 DEF FitsRow
<1> QED
  BY <1>4, <1>7 DEF a, y, rest

\* One more call that follows the others.
LEMMA FitsAppend ==
    ASSUME NEW x, NEW calls \in Seq(GoodCalls), NEW a \in GoodCalls, FitsRow(x, calls),
           Follows(a, StopAll(x, calls), HitsAll(x, calls), FilledAll(x, calls))
    PROVE  LET more == Append(calls, a) IN
           /\ FitsRow(x, more)
           /\ StopAll(x, more) = IF a.kind = "STOP_MOVED" THEN Entry ELSE StopAll(x, calls)
           /\ HitsAll(x, more) = HitsAll(x, calls) \union {n \in Numbers : a.kind = "TARGET_HIT" /\ a.number = n}
           /\ FilledAll(x, more) <=> (FilledAll(x, calls) \/ a.kind = "ENTRY_FILLED")
<1> DEFINE more == Append(calls, a)
<1>0. PICK n \in Nat : n = Len(calls)
  OBVIOUS
<1>1. /\ Len(more) = n + 1 /\ DOMAIN more = 1..(n + 1) /\ more[n + 1] = a
      /\ DOMAIN calls = 1..n /\ \A k \in 1..n : more[k] = calls[k]
  BY <1>0
<1> HIDE DEF more
<1>2. ASSUME NEW k \in 0..n
      PROVE  /\ StopAfter(x, more, k) = StopAfter(x, calls, k)
             /\ HitsAfter(x, more, k) = HitsAfter(x, calls, k)
             /\ FilledAfter(x, more, k) <=> FilledAfter(x, calls, k)
  <2>1. \A j \in 1..k : more[j] = calls[j]
    BY <1>1
  <2> QED
    BY <2>1 DEF StopAfter, HitsAfter, FilledAfter
<1>3. FitsRow(x, more)
  <2> SUFFICES ASSUME NEW k \in 1..(n + 1)
               PROVE  Follows(more[k], StopAfter(x, more, k - 1), HitsAfter(x, more, k - 1), FilledAfter(x, more, k - 1))
    BY <1>1 DEF FitsRow
  <2>1. CASE k = n + 1
    <3>1. k - 1 = n /\ n \in 0..n
      BY <2>1
    <3> QED
      BY <1>0, <1>1, <1>2, <2>1, <3>1 DEF StopAll, HitsAll, FilledAll, Follows
  <2>2. CASE k # n + 1
    <3>1. k \in 1..n /\ k - 1 \in 0..n
      BY <2>2
    <3> QED
      BY <1>1, <1>2, <3>1 DEF FitsRow, Follows
  <2> QED
    BY <2>1, <2>2
<1>4. \A j \in 1..(n + 1) : j = n + 1 \/ j \in 1..n
  OBVIOUS
<1>5. /\ StopAfter(x, more, n + 1) = IF a.kind = "STOP_MOVED" THEN Entry ELSE StopAfter(x, calls, n)
      /\ FilledAfter(x, more, n + 1) <=> (FilledAfter(x, calls, n) \/ a.kind = "ENTRY_FILLED")
  BY <1>1, <1>4 DEF StopAfter, FilledAfter
<1>6. HitsAfter(x, more, n + 1) = HitsAfter(x, calls, n) \union {m \in Numbers : a.kind = "TARGET_HIT" /\ a.number = m}
  BY <1>1, <1>4 DEF HitsAfter
<1> QED
  BY <1>0, <1>1, <1>3, <1>5, <1>6 DEF StopAll, HitsAll, FilledAll, more

\* Of two targets the later is further away: a candle that reaches it has
\* reached the earlier one.
LEMMA LadderIsOrdered ==
    ASSUME NEW c \in Candles, NEW n \in Numbers, NEW m \in 1..(n - 1), Reached(Ladder[n], c)
    PROVE  m \in Numbers /\ Reached(Ladder[m], c)
<1>1. Numbers = 1..LastTarget /\ LastTarget \in Nat /\ \A k \in Numbers : Ladder[k] \in Nat
  BY Shares
<1>2. c[1] \in Nat /\ c[2] \in Nat
  BY MonitorAssumption
<1>3. m \in Nat /\ n \in Nat /\ m > 0 /\ m <= n - 1 /\ n <= LastTarget /\ 1..n \subseteq Numbers
  BY <1>1
<1> DEFINE X == {k \in 0..(n - m) : Reached(Ladder[n - k], c)}
<1>4. 0 \in X
  BY <1>3
<1>5. ASSUME NEW k \in 0..((n - m) - 1), k \in X PROVE k + 1 \in X
  <2>1. n - k \in 2..LastTarget /\ n - (k + 1) = (n - k) - 1 /\ n - k \in Numbers /\ (n - k) - 1 \in Numbers
    BY <1>1, <1>3
  <2>2. Len(Ladder) = LastTarget
    BY DEF LastTarget
  <2>3. IF Direction = "LONG" THEN Ladder[n - k] > Ladder[(n - k) - 1] ELSE Ladder[n - k] < Ladder[(n - k) - 1]
    BY <2>1, <2>2, SignalAssumption DEF PriceStructure
  <2>4. Reached(Ladder[n - k], c)
    BY <1>5
  <2>5. Ladder[n - k] \in Nat /\ Ladder[(n - k) - 1] \in Nat
    BY <1>1, <2>1
  <2>6. Reached(Ladder[(n - k) - 1], c)
    BY <1>2, <2>3, <2>4, <2>5 DEF Reached, High, Low
  <2> QED
    BY <1>3, <2>1, <2>6
<1>6. n - m \in Nat /\ n - m \in X
  <2>1. n - m \in Nat
    BY <1>3
  <2> HIDE DEF X
  <2> QED
    BY <1>4, <1>5, <2>1, Rules!UpTo
<1>7. n - (n - m) = m
  BY <1>3
<1> QED
  BY <1>3, <1>6, <1>7

\* The hits of a candle follow one another, nearest target first.
LEMMA HitsFit ==
    ASSUME NEW x, NEW calls \in Seq(GoodCalls), FitsRow(x, calls),
           NEW i \in DOMAIN market, i \in Nat, CleanUpTo(i),
           NEW S \in SUBSET Numbers,
           \A n \in S : 1..(n - 1) \subseteq HitsAll(x, calls) \union S
    PROVE  LET more == calls \o Hits(S, OpenTime(i)) IN
           /\ more \in Seq(GoodCalls)
           /\ FitsRow(x, more)
           /\ StopAll(x, more) = StopAll(x, calls)
           /\ HitsAll(x, more) = HitsAll(x, calls) \union S
           /\ FilledAll(x, more) <=> FilledAll(x, calls)
<1> DEFINE at == OpenTime(i)
           Hit(k) == Ask("TARGET_HIT", k, Ladder[k], at)
           g == HitsUpTo(S, at)
           Told(more, k) == /\ more \in Seq(GoodCalls) /\ FitsRow(x, more)
                            /\ StopAll(x, more) = StopAll(x, calls)
                            /\ HitsAll(x, more) = HitsAll(x, calls) \union (S \intersect (1..k))
                            /\ FilledAll(x, more) <=> FilledAll(x, calls)
           X == {k \in 0..LastTarget : g[k] \in Seq(GoodCalls) /\ Told(calls \o g[k], k)}
<1>1. at \in Int /\ CleanAt(at)
  BY OpenOrder DEF CleanAt
<1> HIDE DEF at
<1>2. Numbers = 1..LastTarget /\ LastTarget \in Nat /\ \A k \in Numbers : Ladder[k] \in Nat
  BY Shares
<1>3. ASSUME NEW k \in Numbers
      PROVE  Hit(k) \in GoodCalls /\ Hit(k).kind = "TARGET_HIT" /\ Hit(k).number = k /\ Hit(k).price = Ladder[k]
  <2>1. Ladder[k] \in Nat /\ k \in Nat
    BY <1>2
  <2> QED
    BY <1>1, <2>1 DEF Ask, GoodCalls, Calls, RunKinds
<1>4. g[0] = <<>> /\ \A k \in 1..LastTarget : g[k] = IF k \notin S THEN g[k - 1] ELSE Append(g[k - 1], Hit(k))
  BY HitsDef
<1> HIDE DEF g, Hit
<1>5. 0 \in X
  <2>1. calls \o <<>> = calls /\ <<>> \in Seq(GoodCalls) /\ S \intersect (1..0) = {} /\ 0 \in 0..LastTarget
    BY <1>2
  <2> QED
    BY <1>4, <2>1
<1>6. ASSUME NEW m \in 0..(LastTarget - 1), m \in X PROVE m + 1 \in X
  <2> DEFINE k == m + 1
             more == calls \o g[m]
  <2>1. k \in 1..LastTarget /\ k - 1 = m /\ k \in 0..LastTarget /\ k \in Numbers
    BY <1>2
  <2>2. g[m] \in Seq(GoodCalls) /\ Told(more, m)
    BY <1>6
  <2> HIDE DEF k
  <2>3. CASE k \notin S
    <3>1. g[k] = g[m]
      BY <1>4, <2>1, <2>3
    <3>2. S \intersect (1..k) = S \intersect (1..m)
      BY <2>1, <2>3
    <3> QED
      BY <2>1, <2>2, <3>1, <3>2 DEF k
  <2>4. CASE k \in S
    <3>1. g[k] = Append(g[m], Hit(k)) /\ Hit(k) \in GoodCalls
      BY <1>3, <1>4, <2>1, <2>4
    <3>2. g[k] \in Seq(GoodCalls) /\ calls \o g[k] = Append(more, Hit(k))
      BY <2>2, <3>1
    <3> HIDE DEF more
    <3>3. Follows(Hit(k), StopAll(x, more), HitsAll(x, more), FilledAll(x, more))
      <4>1. 1..(k - 1) \subseteq HitsAll(x, calls) \union S
        BY <2>4
      <4>2. 1..(k - 1) \subseteq HitsAll(x, calls) \union (S \intersect (1..m))
        BY <2>1, <4>1
      <4> QED
        BY <1>3, <2>1, <2>2, <4>2 DEF Follows
    <3>4. /\ FitsRow(x, Append(more, Hit(k)))
          /\ StopAll(x, Append(more, Hit(k))) = StopAll(x, more)
          /\ HitsAll(x, Append(more, Hit(k))) = HitsAll(x, more) \union {k}
          /\ FilledAll(x, Append(more, Hit(k))) <=> FilledAll(x, more)
      <4>1. {n \in Numbers : Hit(k).kind = "TARGET_HIT" /\ Hit(k).number = n} = {k}
        BY <1>3, <2>1
      <4>2. more \in Seq(GoodCalls) /\ FitsRow(x, more)
        BY <2>2
      <4> DEFINE a == Hit(k)
      <4>3. a \in GoodCalls /\ a.kind = "TARGET_HIT" /\ Follows(a, StopAll(x, more), HitsAll(x, more), FilledAll(x, more))
        BY <1>3, <2>1, <3>1, <3>3
      <4> HIDE DEF a
      <4>4. LET longer == Append(more, a) IN
            /\ FitsRow(x, longer)
            /\ StopAll(x, longer) = IF a.kind = "STOP_MOVED" THEN Entry ELSE StopAll(x, more)
            /\ HitsAll(x, longer) = HitsAll(x, more) \union {n \in Numbers : a.kind = "TARGET_HIT" /\ a.number = n}
            /\ FilledAll(x, longer) <=> (FilledAll(x, more) \/ a.kind = "ENTRY_FILLED")
        BY <4>2, <4>3, FitsAppend
      <4> QED
        BY <4>1, <4>3, <4>4 DEF a
    <3>5. (S \intersect (1..m)) \union {k} = S \intersect (1..k)
      BY <2>1, <2>4
    <3>6. Append(more, Hit(k)) \in Seq(GoodCalls)
      BY <2>2, <3>1
    <3>7. Told(calls \o g[k], k)
      BY <2>2, <3>2, <3>4, <3>5, <3>6
    <3> HIDE DEF Told
    <3> QED
      BY <2>1, <3>2, <3>7 DEF k
  <2> QED
    BY <2>3, <2>4
<1>7. LastTarget \in X
  <2> HIDE DEF X
  <2> QED
    BY <1>2, <1>5, <1>6, Rules!UpTo
<1>8. S \intersect (1..LastTarget) = S
  BY <1>2
<1> QED
  BY <1>7, <1>8 DEF Hits, g, at

\* what the walk w knows of the row x it started from, after i candles
KnowsRow(x, w, i) ==
    /\ FitsRow(x, w.calls)
    /\ ~w.over => /\ w.stop = StopAll(x, w.calls)
                  /\ w.left = Numbers \ HitsAll(x, w.calls)
                  /\ ~w.waiting => FilledAll(x, w.calls)
                  /\ i > 0 => w.close \in Closes

\* A candle of a filled trade.
LEMMA JudgeFits ==
    ASSUME NEW x, NEW i \in DOMAIN market, i \in Nat, i > 0, market[i] \in Candles,
           NEW w \in Walks, ~w.waiting, ~w.over, CleanUpTo(i - 1),
           FitsRow(x, w.calls), w.stop = StopAll(x, w.calls),
           w.left = Numbers \ HitsAll(x, w.calls), FilledAll(x, w.calls), w.close \in Closes
    PROVE  KnowsRow(x, Judge(w, market[i], OpenTime(i)), i)
<1> DEFINE c == market[i]
           at == OpenTime(i)
           hits == {n \in w.left : Reached(Ladder[n], c)}
           after == [Adds(w, Hits(hits, at)) EXCEPT !.left = @ \ hits]
           v == Judge(w, c, at)
           stopped == Ask("STOP_LOSS_HIT", 0, w.stop, at)
           moved == Ask("STOP_MOVED", 0, Entry, at)
<1>0. at \in Int /\ Entry \in Int /\ StopLoss \in Int /\ w.calls \in Seq(GoodCalls) /\ w.stop \in Int
  BY OpenOrder, SignalAssumption DEF Walks
<1>1. CASE Stopped(w.stop, c)
  <2>1. stopped \in GoodCalls /\ stopped.kind = "STOP_LOSS_HIT" /\ stopped.price = w.stop
    BY <1>0 DEF Ask, GoodCalls, Calls, RunKinds
  <2>2. v = Over(Adds(w, <<stopped>>))
    BY <1>1 DEF Judge
  <2> HIDE DEF stopped
  <2>3. v = [[w EXCEPT !.calls = @ \o <<stopped>>] EXCEPT !.over = TRUE]
    BY <2>2 DEF Over, Adds
  <2>4. v.calls = w.calls \o <<stopped>> /\ v.over
    BY <2>3 DEF Walks
  <2>5. w.calls \o <<stopped>> = Append(w.calls, stopped)
    BY <1>0, <2>1
  <2>6. Follows(stopped, StopAll(x, w.calls), HitsAll(x, w.calls), FilledAll(x, w.calls))
    BY <2>1 DEF Follows
  <2>7. FitsRow(x, Append(w.calls, stopped))
    BY <1>0, <2>1, <2>6, FitsAppend
  <2> QED
    BY <2>4, <2>5, <2>7 DEF KnowsRow
<1>2. CASE ~Stopped(w.stop, c)
  <2>1. CleanUpTo(i)
    <3>1. ~Stopped(StopLoss, c)
      BY <1>2, TighterStop DEF Walks
    <3>2. \A j \in 1..i : j = i \/ j \in 1..(i - 1)
      OBVIOUS
    <3> QED
      BY <3>1, <3>2 DEF CleanUpTo
  <2>2. hits \in SUBSET Numbers
    OBVIOUS
  <2>3. ASSUME NEW n \in hits PROVE 1..(n - 1) \subseteq HitsAll(x, w.calls) \union hits
    <3> SUFFICES ASSUME NEW m \in 1..(n - 1), m \notin HitsAll(x, w.calls) PROVE m \in hits
      OBVIOUS
    <3>1. n \in Numbers /\ Reached(Ladder[n], c)
      OBVIOUS
    <3>2. m \in Numbers /\ Reached(Ladder[m], c)
      BY <3>1, LadderIsOrdered
    <3> QED
      BY <3>2
  <2> DEFINE more == w.calls \o Hits(hits, at)
  <2>4. /\ more \in Seq(GoodCalls) /\ FitsRow(x, more)
        /\ StopAll(x, more) = StopAll(x, w.calls)
        /\ HitsAll(x, more) = HitsAll(x, w.calls) \union hits
        /\ FilledAll(x, more) <=> FilledAll(x, w.calls)
    <3> HIDE DEF hits
    <3> QED
      BY <1>0, <2>1, <2>2, <2>3, HitsFit
  <2>5. after = [[w EXCEPT !.calls = @ \o Hits(hits, at)] EXCEPT !.left = @ \ hits]
    BY DEF Adds
  <2> HIDE DEF hits, after
  <2>6. /\ after.calls = more /\ after.left = w.left \ hits /\ after.stop = w.stop
        /\ after.close = w.close /\ after.waiting = w.waiting /\ after.over = w.over
        /\ after = [waiting |-> w.waiting, stop |-> w.stop, left |-> after.left, calls |-> more,
                    last |-> w.last, close |-> w.close, over |-> w.over]
    BY <2>5 DEF Walks
  <2> HIDE DEF more
  <2>7. KnowsRow(x, after, i)
    <3>1. w.left \ hits = Numbers \ (HitsAll(x, w.calls) \union hits)
      OBVIOUS
    <3> QED
      BY <2>4, <2>6, <3>1 DEF KnowsRow
  <2>8. \/ v = Over(after) \/ v = after
        \/ v = [Adds(after, <<moved>>) EXCEPT !.stop = Entry]
    BY <1>2 DEF Judge, after, hits
  <2>9. CASE v = Over(after)
    <3>1. v.calls = more /\ v.over
      BY <2>6, <2>9 DEF Over
    <3> QED
      BY <2>4, <3>1 DEF KnowsRow
  <2>10. CASE v = [Adds(after, <<moved>>) EXCEPT !.stop = Entry]
    <3>1. moved \in GoodCalls /\ moved.kind = "STOP_MOVED" /\ moved.price = Entry
      BY <1>0 DEF Ask, GoodCalls, Calls, RunKinds
    <3> HIDE DEF moved
    <3>2. more \o <<moved>> = Append(more, moved)
      BY <2>4, <3>1
    <3>3. /\ v.calls = Append(more, moved) /\ v.left = after.left /\ v.stop = Entry
          /\ v.close = after.close /\ v.waiting = after.waiting /\ v.over = after.over
      BY <2>6, <2>10, <3>2 DEF Adds
    <3>4. Follows(moved, StopAll(x, more), HitsAll(x, more), FilledAll(x, more))
      BY <3>1 DEF Follows
    <3>5. /\ FitsRow(x, Append(more, moved)) /\ StopAll(x, Append(more, moved)) = Entry
          /\ HitsAll(x, Append(more, moved)) = HitsAll(x, more)
          /\ FilledAll(x, Append(more, moved)) <=> FilledAll(x, more)
      <4>1. {n \in Numbers : moved.kind = "TARGET_HIT" /\ moved.number = n} = {}
        BY <3>1
      <4>2. LET longer == Append(more, moved) IN
            /\ FitsRow(x, longer)
            /\ StopAll(x, longer) = IF moved.kind = "STOP_MOVED" THEN Entry ELSE StopAll(x, more)
            /\ HitsAll(x, longer) = HitsAll(x, more) \union {n \in Numbers : moved.kind = "TARGET_HIT" /\ moved.number = n}
            /\ FilledAll(x, longer) <=> (FilledAll(x, more) \/ moved.kind = "ENTRY_FILLED")
        BY <2>4, <3>1, <3>4, FitsAppend
      <4> QED
        BY <3>1, <4>1, <4>2
    <3> QED
      BY <2>4, <2>6, <2>7, <3>3, <3>5 DEF KnowsRow
  <2> QED
    BY <2>7, <2>8, <2>9, <2>10
<1> QED
  BY <1>1, <1>2

\* A withdrawal fits every row.
LEMMA WithdrawalFits ==
    ASSUME NEW x, NEW w
    PROVE  FitsRow(x, Withdrawal(w))
<1> DEFINE a == Ask("CANCELLED", 0, Never, IF w.last = Never THEN Deadline ELSE w.last)
<1>1. a.kind = "CANCELLED" /\ a.price = Never
  BY DEF Ask
<1>2. Withdrawal(w) = <<a>>
  BY DEF Withdrawal
<1> HIDE DEF a
<1>3. ASSUME NEW k \in DOMAIN Withdrawal(w) PROVE Withdrawal(w)[k] = a
  BY <1>2
<1> QED
  BY <1>1, <1>3 DEF FitsRow, Follows

\* A candle of the walk.
LEMMA WalkFits ==
    ASSUME NEW x, NEW i \in DOMAIN market, i \in Nat, i > 0, market[i] \in Candles,
           NEW w, GoodWalk(w, i - 1), KnowsRow(x, w, i - 1)
    PROVE  KnowsRow(x, Walk(w, market[i], OpenTime(i)), i)
<1> DEFINE c == market[i]
           at == OpenTime(i)
           v == [w EXCEPT !.last = at, !.close = Close(c)]
           fill == Ask("ENTRY_FILLED", 0, Entry, at)
           u == [Adds(v, <<fill>>) EXCEPT !.waiting = FALSE]
<1>0. /\ at \in Int /\ Entry \in Int /\ w \in Walks /\ w.calls \in Seq(GoodCalls)
      /\ Close(c) \in Int /\ Close(c) \in Closes /\ Deadline \in Int
  <2>1. at \in Int /\ Entry \in Int /\ Deadline \in Int
    BY OpenOrder, SignalAssumption, MonitorAssumption DEF Deadline
  <2>2. w \in Walks /\ w.calls \in Seq(GoodCalls)
    BY DEF GoodWalk, Walks
  <2>3. Close(c) \in Int /\ Close(c) \in Closes
    BY MonitorAssumption DEF Close, Closes
  <2> QED
    BY <2>1, <2>2, <2>3
<1>1. CASE w.over
  BY <1>1 DEF Walk, KnowsRow
<1>2. CASE ~w.over /\ w.waiting /\ at >= Deadline
  <2>1. Walk(w, c, at) = [[w EXCEPT !.calls = Withdrawal(w)] EXCEPT !.over = TRUE]
    BY <1>2 DEF Walk, Over
  <2>2. Walk(w, c, at).calls = Withdrawal(w) /\ Walk(w, c, at).over
    BY <1>0, <2>1 DEF Walks
  <2> QED
    BY <2>2, WithdrawalFits DEF KnowsRow
<1>3. /\ v \in Walks /\ v.waiting = w.waiting /\ v.over = w.over /\ v.calls = w.calls
      /\ v.stop = w.stop /\ v.left = w.left /\ v.close = Close(c)
  BY <1>0 DEF Walks
<1>4. CASE ~w.over /\ ~w.waiting
  <2>1. CleanUpTo(i - 1)
    BY <1>4 DEF GoodWalk
  <2>2. Walk(w, c, at) = Judge(v, c, at)
    BY <1>4 DEF Walk
  <2> HIDE DEF v
  <2>3. KnowsRow(x, Judge(v, c, at), i)
    BY <1>0, <1>3, <1>4, <2>1, JudgeFits DEF KnowsRow
  <2> QED
    BY <2>2, <2>3
<1>5. CASE ~w.over /\ w.waiting /\ at < Deadline
  <2>1. \A j \in 1..(i - 1) : ~Fillable(j)
    BY <1>5 DEF GoodWalk
  <2>2. CASE ~Touched(Entry, c)
    <3>1. Walk(w, c, at) = v
      BY <1>0, <1>5, <2>2 DEF Walk
    <3> HIDE DEF v
    <3> QED
      BY <1>0, <1>3, <1>5, <3>1 DEF KnowsRow
  <2>3. CASE Touched(Entry, c)
    <3>1. Walk(w, c, at) = Judge(u, c, at)
      BY <1>0, <1>5, <2>3 DEF Walk
    <3>2. FirstFill(at)
      BY <1>5, <2>1, <2>3 DEF FirstFill, Fillable
    <3>3. fill \in GoodCalls /\ fill.kind = "ENTRY_FILLED"
      BY <1>0, <3>2 DEF Ask, GoodCalls, Calls, RunKinds
    <3>4. u = [[v EXCEPT !.calls = @ \o <<fill>>] EXCEPT !.waiting = FALSE]
      BY DEF Adds
    <3> HIDE DEF fill, v, u
    <3>5. v.calls \o <<fill>> = Append(w.calls, fill) /\ Append(w.calls, fill) \in Seq(GoodCalls)
      BY <1>0, <1>3, <3>3
    <3>6. /\ u \in Walks /\ ~u.waiting /\ u.over = v.over /\ u.calls = Append(w.calls, fill)
          /\ u.stop = w.stop /\ u.left = w.left /\ u.close = Close(c)
      BY <1>3, <3>4, <3>5 DEF Walks
    <3>7. CleanUpTo(i - 1)
      <4>1. \A j \in 1..(i - 1) : \A m \in 1..j : m \in 1..(i - 1)
        OBVIOUS
      <4> QED
        BY <2>1, <4>1 DEF CleanUpTo
    <3>8. /\ FitsRow(x, u.calls) /\ StopAll(x, u.calls) = StopAll(x, w.calls)
          /\ HitsAll(x, u.calls) = HitsAll(x, w.calls) /\ FilledAll(x, u.calls)
      <4>1. Follows(fill, StopAll(x, w.calls), HitsAll(x, w.calls), FilledAll(x, w.calls))
        BY <3>3 DEF Follows
      <4>2. {n \in Numbers : fill.kind = "TARGET_HIT" /\ fill.number = n} = {}
        BY <3>3
      <4>3. LET longer == Append(w.calls, fill) IN
            /\ FitsRow(x, longer)
            /\ StopAll(x, longer) = IF fill.kind = "STOP_MOVED" THEN Entry ELSE StopAll(x, w.calls)
            /\ HitsAll(x, longer) = HitsAll(x, w.calls) \union {n \in Numbers : fill.kind = "TARGET_HIT" /\ fill.number = n}
            /\ FilledAll(x, longer) <=> (FilledAll(x, w.calls) \/ fill.kind = "ENTRY_FILLED")
        BY <1>0, <3>3, <4>1, FitsAppend DEF KnowsRow
      <4> QED
        BY <3>3, <3>6, <4>2, <4>3
    <3>9. KnowsRow(x, Judge(u, c, at), i)
      BY <1>0, <1>3, <1>5, <3>6, <3>7, <3>8, JudgeFits DEF KnowsRow
    <3> QED
      BY <3>1, <3>9
  <2> QED
    BY <2>2, <2>3
<1> QED
  BY <1>0, <1>1, <1>2, <1>4, <1>5

\* What a run decides fits the row it decides on.
LEMMA EvaluateFits ==
    ASSUME market \in Seq(Candles), NEW x, GoodRow(x),
           NEW n \in 0..Len(market), x.filledAt # Never => n > 0, NEW now \in Nat
    PROVE  FitsRow(x, Evaluate(x, n, now))
<1>1. PICK N \in Nat : N = Len(market)
  OBVIOUS
<1>2. CASE x.status \notin Working
  BY <1>2 DEF Evaluate, FitsRow
<1>3. CASE x.status \in Working
  <2> DEFINE g == Walked(x)
             X == {i \in 0..N : GoodWalk(g[i], i) /\ KnowsRow(x, g[i], i)}
  <2>1. g[0] = Start(x) /\ \A i \in 1..N : g[i] = Walk(g[i - 1], market[i], OpenTime(i))
    BY <1>1, WalkedDef
  <2>2. GoodWalk(Start(x), 0) /\ KnowsRow(x, Start(x), 0)
    <3>1. <<>> \in Seq(GoodCalls) /\ Never \in Int /\ Len(<<>>) = 0
      BY DEF Never
    <3>2. Start(x) \in Walks
      BY <3>1 DEF Start, Walks, GoodRow
    <3>3. CleanUpTo(0) /\ \A j \in 1..0 : ~Fillable(j)
      BY DEF CleanUpTo
    <3>4. FitsRow(x, <<>>)
      BY DEF FitsRow
    <3>5. /\ StopAll(x, <<>>) = x.stop /\ HitsAll(x, <<>>) = HitsOf(x)
          /\ FilledAll(x, <<>>) <=> x.filledAt # Never
      BY <3>1, NothingAfter DEF StopAll, HitsAll, FilledAll, GoodRow
    <3>6. /\ Start(x).calls = <<>> /\ Start(x).stop = x.stop /\ Start(x).left = Numbers \ HitsOf(x)
          /\ ~Start(x).waiting => x.filledAt # Never
      BY <1>3 DEF Start, HitsOf, GoodRow
    <3> QED
      BY <3>2, <3>3, <3>4, <3>5, <3>6 DEF GoodWalk, KnowsRow
  <2>3. ASSUME NEW m \in 0..(N - 1), m \in X PROVE m + 1 \in X
    <3>1. m + 1 \in 1..N /\ (m + 1) - 1 = m /\ m + 1 \in 0..N /\ m + 1 \in Nat /\ m + 1 > 0
      OBVIOUS
    <3>2. m + 1 \in DOMAIN market /\ market[m + 1] \in Candles
      BY <1>1, <3>1
    <3>3. GoodWalk(g[m], m) /\ KnowsRow(x, g[m], m)
      BY <2>3
    <3> HIDE DEF g
    <3>4. GoodWalk(Walk(g[m], market[m + 1], OpenTime(m + 1)), m + 1)
      BY <3>1, <3>2, <3>3, WalkGood
    <3>5. KnowsRow(x, Walk(g[m], market[m + 1], OpenTime(m + 1)), m + 1)
      BY <3>1, <3>2, <3>3, WalkFits
    <3> QED
      BY <2>1, <3>1, <3>4, <3>5
  <2> HIDE DEF g
  <2>4. 0 \in X
    BY <2>1, <2>2
  <2>5. GoodWalk(g[n], n) /\ KnowsRow(x, g[n], n)
    <3> HIDE DEF X
    <3>1. \A i \in 0..N : i \in X
      BY <2>3, <2>4, Rules!UpTo
    <3> QED
      BY <1>1, <3>1 DEF X
  <2> DEFINE end == g[n]
             expired == Ask("EXPIRED", 0, end.close, IF end.last = Never THEN Generated + MaxAge ELSE end.last)
  <2>6. end \in Walks /\ end.calls \in Seq(GoodCalls)
    BY <2>5 DEF GoodWalk, Walks
  <2>7. end = Walked(x)[n]
    BY DEF g
  <2>8. ASSUME ~end.over, ~end.waiting PROVE FitsRow(x, Append(end.calls, expired))
    <3>1. n > 0
      <4>1. CASE n = 0
        <5>1. ~Start(x).waiting
          BY <2>1, <2>8, <4>1
        <5>2. x.filledAt # Never
          BY <1>3, <5>1 DEF Start, GoodRow
        <5> QED
          BY <4>1, <5>2
      <4> QED
        BY <4>1
    <3>2. end.close \in Closes /\ FilledAll(x, end.calls) /\ FitsRow(x, end.calls)
      BY <2>5, <2>8, <3>1 DEF KnowsRow
    <3>3. Generated + MaxAge \in Int
      BY MonitorAssumption
    <3>4. expired \in GoodCalls /\ expired.kind = "EXPIRED" /\ expired.price = end.close
      BY <2>6, <3>3 DEF Ask, GoodCalls, Calls, RunKinds, Walks
    <3> HIDE DEF expired, end
    <3>5. Follows(expired, StopAll(x, end.calls), HitsAll(x, end.calls), FilledAll(x, end.calls))
      BY <3>2, <3>4 DEF Follows
    <3> QED
      BY <2>6, <3>2, <3>4, <3>5, FitsAppend
  <2>9. FitsRow(x, end.calls)
    BY <2>5 DEF KnowsRow
  <2>10. FitsRow(x, <<>>)
    BY DEF FitsRow
  <2>11. FitsRow(x, Withdrawal(end))
    BY WithdrawalFits
  <2>12. Evaluate(x, n, now) \in {end.calls, <<>>, Withdrawal(end)}
         \/ (~end.over /\ ~end.waiting /\ Evaluate(x, n, now) = Append(end.calls, expired))
    BY <1>3, <2>6, <2>7 DEF Evaluate, Walks
  <2> HIDE DEF end, expired
  <2> QED
    BY <2>8, <2>9, <2>10, <2>11, <2>12
<1> QED
  BY <1>2, <1>3

\* A candle that closes changes nothing of what the return rests on.
LEMMA ReturnStays ==
    ASSUME market \in Seq(Candles), market' = market \/ \E c \in Candles : market' = Append(market, c)
    PROVE  /\ Closes \subseteq Closes'
           /\ \A x : ReturnRow(x) /\ row' = x => ReturnRow(row)'
           /\ \A x : ReturnRow(x) /\ work' = x => ReturnRow(work)'
           /\ \A x, calls, r : FitsRow(x, calls) /\ row' = x /\ plan'[r] = calls => FitsRow(row, plan[r])'
           /\ \A x, calls, r : FitsRow(x, calls) /\ work' = x /\ plan'[r] = calls => FitsRow(work, plan[r])'
<1>1. Closes \subseteq Closes'
  <2>1. CASE market' = market
    BY <2>1 DEF Closes
  <2>2. ASSUME NEW c \in Candles, market' = Append(market, c) PROVE Closes \subseteq Closes'
    <3>1. PICK n \in Nat : n = Len(market)
      OBVIOUS
    <3>2. DOMAIN market = 1..n /\ DOMAIN market' = 1..(n + 1) /\ \A i \in 1..n : market'[i] = market[i]
      BY <2>2, <3>1
    <3>3. \A i \in DOMAIN market : i \in DOMAIN market' /\ market'[i] = market[i]
      BY <3>2
    <3> QED
      BY <3>3 DEF Closes
  <2> QED
    BY <2>1, <2>2
<1>2. ASSUME NEW x, ReturnRow(x), row' = x PROVE ReturnRow(row)'
  BY <1>1, <1>2 DEF ReturnRow, Settled, Entered, HitsOf
<1>3. ASSUME NEW x, ReturnRow(x), work' = x PROVE ReturnRow(work)'
  BY <1>1, <1>3 DEF ReturnRow, Settled, Entered, HitsOf
<1>4. ASSUME NEW x, NEW calls, NEW r, FitsRow(x, calls), row' = x, plan'[r] = calls PROVE FitsRow(row, plan[r])'
  BY <1>1, <1>4 DEF FitsRow, Follows, StopAfter, HitsAfter, FilledAfter, HitsOf
<1>5. ASSUME NEW x, NEW calls, NEW r, FitsRow(x, calls), work' = x, plan'[r] = calls PROVE FitsRow(work, plan[r])'
  BY <1>1, <1>5 DEF FitsRow, Follows, StopAfter, HitsAfter, FilledAfter, HitsOf
<1> QED
  BY <1>1, <1>2, <1>3, <1>4, <1>5

\* Measuring changes nothing of it either.
LEMMA WidenFits ==
    ASSUME NEW x, NEW low, NEW high, IsRow(x), NEW calls
    PROVE  LET y == Widen(x, low, high) IN
           /\ ReturnRow(x) => ReturnRow(y)
           /\ FitsRow(x, calls) => FitsRow(y, calls)
<1> DEFINE y == Widen(x, low, high)
<1>1. /\ y.status = x.status /\ y.filledAt = x.filledAt /\ y.hitAt = x.hitAt
      /\ y.stop = x.stop /\ y.result = x.result /\ y.events = x.events
  BY DEF IsRow, Widen
<1> HIDE DEF y
<1>2. HitsOf(y) = HitsOf(x)
  BY <1>1 DEF HitsOf
<1>3. ReturnRow(x) => ReturnRow(y)
  BY <1>1, <1>2 DEF ReturnRow, Settled, Entered
<1>4. FitsRow(x, calls) => FitsRow(y, calls)
  BY <1>1, <1>2 DEF FitsRow, StopAfter, HitsAfter, FilledAfter
<1> QED
  BY <1>3, <1>4 DEF y

\* A run alone decides on the row that it writes to.
RunFits(r) ==
    /\ pc[r] # "idle" => row.status \in Working /\ snap[r] = row
    /\ pc[r] \in {"fetched", "decided", "applying"} /\ row.filledAt # Never => fetched[r] > 0
    /\ pc[r] = "decided" => FitsRow(row, plan[r])
    /\ pc[r] = "applying" => FitsRow(work, plan[r])

ReturnInv ==
    /\ ReturnRow(row) /\ ReturnRow(work)
    /\ \A r \in Runs : RunFits(r)

\* What a run's step leaves to itself when it keeps its row.
LEMMA AloneStays ==
    ASSUME ReturnInv, StoryInv, NEW r \in Runs, \A q \in Runs : q = r,
           ReturnRow(row)', ReturnRow(work)', RunFits(r)'
    PROVE  ReturnInv'
BY DEF ReturnInv

\* A run that ends knows nothing.
LEMMA EndedFits ==
    ASSUME IInv, NEW r \in Runs, Ended(r)
    PROVE  RunFits(r)'
<1>1. pc'[r] = "idle"
  BY DEF Ended, Goto, IInv
<1> QED
  BY <1>1 DEF RunFits

\* A published signal has no return.
LEMMA PublishedFits == ReturnRow(Published)
BY DEF ReturnRow, Settled, Entered, Published

\* Every step of a run alone keeps its row and the return on it in step.
LEMMA NextReturn ==
    ASSUME IInv, StoryInv, ReturnInv, [Next]_vars, \A p, q \in Runs : p = q
    PROVE  ReturnInv'
<1>0. /\ IsRow(row) /\ IsRow(work) /\ GoodRow(row) /\ GoodRow(work)
      /\ market \in Seq(Candles) /\ clock \in Nat
      /\ ReturnRow(row) /\ ReturnRow(work) /\ pc \in [Runs -> Steps]
  BY DEF IInv, Sound, StoryInv, ReturnInv
<1>1. ASSUME UNCHANGED <<row, work, snap, fetched, plan, pc>>,
             market' = market \/ \E c \in Candles : market' = Append(market, c)
      PROVE  ReturnInv'
  <2>1. ReturnRow(row)' /\ ReturnRow(work)'
    BY <1>0, <1>1, ReturnStays
  <2>2. ASSUME NEW r \in Runs PROVE RunFits(r)'
    <3>1. RunFits(r)
      BY DEF ReturnInv
    <3>2. /\ FitsRow(row, plan[r]) => FitsRow(row, plan[r])'
          /\ FitsRow(work, plan[r]) => FitsRow(work, plan[r])'
      BY <1>0, <1>1, ReturnStays
    <3> QED
      BY <1>1, <3>1, <3>2 DEF RunFits
  <2> QED
    BY <2>1, <2>2 DEF ReturnInv
<1>2. ASSUME market' = market, NEW x, ReturnRow(x), row' = x PROVE ReturnRow(row)'
  BY <1>0, <1>2, ReturnStays
<1>3. ASSUME market' = market, NEW x, ReturnRow(x), work' = x PROVE ReturnRow(work)'
  BY <1>0, <1>3, ReturnStays
<1>4. CASE UNCHANGED vars
  BY <1>1, <1>4 DEF vars, runvars
<1>5. CASE Tick
  BY <1>1, <1>5 DEF Tick, runvars
<1>6. CASE Void
  BY <1>1, <1>6 DEF Void, runvars
<1>7. CASE Archive
  <2> DEFINE x == [row EXCEPT !.archived = TRUE, !.events = @ \union {<<"ARCHIVED", 0, Never>>}]
  <2>1. /\ x.status = row.status /\ x.filledAt = row.filledAt /\ x.stop = row.stop
        /\ x.hitAt = row.hitAt /\ x.result = row.result
        /\ x.events = row.events \union {<<"ARCHIVED", 0, Never>>}
    BY <1>0 DEF IsRow
  <2>2. row' = x /\ UNCHANGED <<clock, market, work, snap, fetched, plan, pc>> /\ row.status \in Terminal
    BY <1>7 DEF Archive, runvars
  <2> HIDE DEF x
  <2>3. HitsOf(x) = HitsOf(row)
    BY <2>1 DEF HitsOf
  <2>4. ReturnRow(x)
    <3>1. Settled(x)
      BY <1>0, <2>1, <2>3 DEF ReturnRow, Settled
    <3>2. <<"ARCHIVED", 0, Never>>[1] = "ARCHIVED"
      OBVIOUS
    <3>3. Entered(x)
      BY <1>0, <2>1, <2>3, <3>2 DEF ReturnRow, Entered
    <3> QED
      BY <3>1, <3>3 DEF ReturnRow
  <2>5. ReturnRow(row)' /\ ReturnRow(work)'
    BY <1>0, <1>2, <1>3, <2>2, <2>4
  <2>6. ASSUME NEW r \in Runs PROVE RunFits(r)'
    <3>1. pc[r] = "idle"
      BY <2>2 DEF ReturnInv, RunFits, Working, Terminal
    <3> QED
      BY <2>2, <3>1 DEF RunFits
  <2> QED
    BY <2>5, <2>6 DEF ReturnInv
<1>8. ASSUME NEW r \in Runs, Step(r) \/ CutOff(r) PROVE ReturnInv'
  <2>0. (\A q \in Runs : q = r) /\ RunFits(r)
    BY DEF ReturnInv
  <2>1. CASE List(r)
    <3>1. /\ pc'[r] = "listed" /\ snap'[r] = row /\ row.status \in Working /\ UNCHANGED <<market, row, work>>
      BY <1>0, <2>1 DEF List, Goto, StoryInv
    <3>2. ReturnRow(row)' /\ ReturnRow(work)'
      BY <1>0, <1>2, <1>3, <3>1
    <3>3. RunFits(r)'
      BY <3>1 DEF RunFits
    <3> QED
      BY <2>0, <3>2, <3>3, AloneStays
  <2>2. CASE AttachTargets(r)
    <3>1. /\ pc[r] = "listed" /\ pc'[r] = "ladder" /\ snap' = [snap EXCEPT ![r].hitAt = row.hitAt]
          /\ UNCHANGED <<market, row, work>>
      BY <1>0, <2>2 DEF AttachTargets, Goto
    <3>2. snap'[r] = [snap[r] EXCEPT !.hitAt = row.hitAt]
      BY <3>1 DEF StoryInv
    <3>3. snap[r] = row /\ row.status \in Working
      BY <2>0, <3>1 DEF RunFits
    <3>4. snap'[r] = row
      BY <1>0, <3>2, <3>3 DEF IsRow
    <3>5. ReturnRow(row)' /\ ReturnRow(work)'
      BY <1>0, <1>2, <1>3, <3>1
    <3>6. RunFits(r)'
      BY <3>1, <3>3, <3>4 DEF RunFits
    <3> QED
      BY <2>0, <3>5, <3>6, AloneStays
  <2>3. CASE Fetch(r)
    <3>1. /\ pc[r] = "ladder" /\ pc'[r] = "fetched" /\ fetched'[r] = Len(market)
          /\ UNCHANGED <<market, row, work, snap>>
      BY <1>0, <2>3 DEF Fetch, Goto, StoryInv
    <3>2. row.filledAt # Never => Len(market) > 0
      BY <1>0 DEF GoodRow, FirstFill
    <3>3. ReturnRow(row)' /\ ReturnRow(work)'
      BY <1>0, <1>2, <1>3, <3>1
    <3>4. RunFits(r)'
      BY <2>0, <3>1, <3>2 DEF RunFits
    <3> QED
      BY <2>0, <3>3, <3>4, AloneStays
  <2>4. CASE Decide(r)
    <3>1. UNCHANGED <<clock, market, row, work>> /\ pc[r] = "fetched"
      BY <2>4 DEF Decide
    <3>2. ReturnRow(row)' /\ ReturnRow(work)'
      BY <1>0, <1>2, <1>3, <3>1
    <3>3. CASE Ended(r)
      BY <2>0, <3>2, <3>3, EndedFits, AloneStays
    <3>4. CASE ~Ended(r)
      <4> DEFINE calls == Evaluate(snap[r], fetched[r], clock)
      <4>1. plan' = [plan EXCEPT ![r] = calls] /\ UNCHANGED <<snap, fetched>> /\ Goto(r, "decided")
        BY <2>4, <3>4 DEF Decide
      <4>2. snap[r] = row /\ row.status \in Working /\ (row.filledAt # Never => fetched[r] > 0)
        BY <2>0, <3>1 DEF RunFits
      <4>3. fetched[r] \in 0..Len(market)
        BY DEF StoryInv
      <4>4. FitsRow(row, calls)
        BY <1>0, <4>2, <4>3, EvaluateFits
      <4> HIDE DEF calls
      <4>5. plan'[r] = calls /\ pc'[r] = "decided"
        BY <1>0, <4>1 DEF StoryInv, Goto
      <4>6. FitsRow(row, plan[r])'
        BY <1>0, <3>1, <4>4, <4>5, ReturnStays
      <4>7. RunFits(r)'
        BY <3>1, <4>1, <4>2, <4>5, <4>6 DEF RunFits
      <4> QED
        BY <2>0, <3>2, <4>7, AloneStays
    <3> QED
      BY <3>3, <3>4
  <2>5. CASE Begin(r)
    <3>1. /\ UNCHANGED <<clock, market, row, snap, fetched, plan>> /\ pc[r] = "decided" /\ pc'[r] = "applying"
      BY <1>0, <2>5 DEF Begin, Goto
    <3>2. PICK x : work' = x /\ (x = row \/ \E low, high : x = Widen(row, low, high))
      BY <2>5 DEF Begin
    <3>3. ReturnRow(x) /\ FitsRow(x, plan[r])
      BY <1>0, <2>0, <3>1, <3>2, WidenFits DEF RunFits
    <3>4. ReturnRow(row)' /\ ReturnRow(work)'
      BY <1>0, <1>2, <1>3, <3>1, <3>2, <3>3
    <3>5. FitsRow(work, plan[r])'
      BY <1>0, <3>1, <3>2, <3>3, ReturnStays
    <3>6. RunFits(r)'
      BY <2>0, <3>1, <3>5 DEF RunFits
    <3> QED
      BY <2>0, <3>4, <3>6, AloneStays
  <2>6. CASE Apply(r)
    <3>1. UNCHANGED <<clock, market, row, snap, fetched, pc>> /\ plan[r] # <<>> /\ pc[r] = "applying"
      BY <2>6 DEF Apply
    <3>2. plan[r] \in Seq(GoodCalls) /\ FitsRow(work, plan[r]) /\ Head(plan[r]) \in GoodCalls
      BY <2>0, <3>1 DEF StoryInv, RunFits
    <3>3. PICK x, q : /\ work' = x /\ plan'[r] = q
                      /\ \/ x = work /\ q = <<>>
                         \/ ~Refused(work, Head(plan[r])) /\ x = Record(work, Head(plan[r])) /\ q = Tail(plan[r])
      <4>1. CASE Refused(work, Head(plan[r]))
        <5>1. plan' = [plan EXCEPT ![r] = <<>>] /\ work' = work
          BY <2>6, <4>1, Zenon DEF Apply
        <5>2. plan'[r] = <<>>
          BY <5>1 DEF StoryInv
        <5> QED
          BY <5>1, <5>2
      <4>2. CASE ~Refused(work, Head(plan[r]))
        <5>1. plan' = [plan EXCEPT ![r] = Tail(@)] /\ work' = Record(work, Head(plan[r]))
          BY <2>6, <4>2, Zenon DEF Apply
        <5>2. plan'[r] = Tail(plan[r])
          BY <5>1 DEF StoryInv
        <5> QED
          BY <4>2, <5>1, <5>2
      <4> QED
        BY <4>1, <4>2
    <3>4. ReturnRow(x) /\ FitsRow(x, q)
      <4>1. CASE x = work /\ q = <<>>
        <5>1. FitsRow(work, <<>>)
          BY DEF FitsRow
        <5> QED
          BY <1>0, <4>1, <5>1
      <4>2. CASE ~Refused(work, Head(plan[r])) /\ x = Record(work, Head(plan[r])) /\ q = Tail(plan[r])
        BY <1>0, <3>1, <3>2, <4>2, FitsNext
      <4> QED
        BY <3>3, <4>1, <4>2
    <3>5. ReturnRow(row)' /\ ReturnRow(work)'
      BY <1>0, <1>2, <1>3, <3>1, <3>3, <3>4
    <3>6. FitsRow(work, plan[r])'
      BY <1>0, <3>1, <3>3, <3>4, ReturnStays
    <3>7. RunFits(r)'
      BY <2>0, <3>1, <3>6 DEF RunFits
    <3> QED
      BY <2>0, <3>5, <3>7, AloneStays
  <2>7. CASE Commit(r)
    <3>1. row' = work /\ work' = Published /\ Ended(r) /\ UNCHANGED <<clock, market>>
      BY <2>7 DEF Commit
    <3>2. ReturnRow(row)' /\ ReturnRow(work)'
      BY <1>0, <1>2, <1>3, <3>1, PublishedFits
    <3> QED
      BY <2>0, <3>1, <3>2, EndedFits, AloneStays
  <2>8. CASE CutOff(r)
    <3>1. row' = row /\ work' \in {work, Published} /\ Ended(r) /\ UNCHANGED <<clock, market>>
      BY <2>8 DEF CutOff
    <3>2. ReturnRow(row)' /\ ReturnRow(work)'
      BY <1>0, <1>2, <1>3, <3>1, PublishedFits
    <3> QED
      BY <2>0, <3>1, <3>2, EndedFits, AloneStays
  <2> QED
    BY <1>8, <2>1, <2>2, <2>3, <2>4, <2>5, <2>6, <2>7, <2>8 DEF Step
<1> QED
  BY <1>4, <1>5, <1>6, <1>7, <1>8 DEF Next

\* The return of a newly published signal is none.
LEMMA InitReturn == Init => ReturnInv
BY PublishedFits DEF Init, ReturnInv, RunFits

\* With one run at a time, the return of an ended trade is that of its own row:
\* each target that was taken paid its share at its price, and what was left
\* paid at the stop as it stood, at the last close, or nothing was left.
THEOREM ReturnFromTheRow ==
    ASSUME \A p, q \in Runs : p = q
    PROVE  Spec => []ReturnFollowsRow
<1>1. ASSUME ReturnInv, StoryInv PROVE ReturnFollowsRow
  <2> DEFINE hit == {n \in Numbers : row.hitAt[n] # Never}
             paid == SumFunctionOnSet([n \in Numbers |-> Share(n) * Leg(Ladder[n])], hit)
             left == Whole - SumFunctionOnSet([n \in Numbers |-> Share(n)], hit)
  <2>1. hit = HitsOf(row) /\ paid = Paid(hit) /\ left = Left(hit) /\ hit \in SUBSET Numbers
    BY DEF HitsOf, Paid, Left
  <2>2. Settled(row)
    BY <1>1 DEF ReturnInv, ReturnRow
  <2>3. ASSUME NEW price \in Closes \union {Entry, StopLoss}
        PROVE  Realised(hit, {price}) = {paid + left * Leg(price)}
    <3>1. price \in Int
      BY <1>1, PricesAreReal DEF StoryInv
    <3> QED
      BY <2>1, <3>1, RealisedIs
  <2>4. row.stop \in {StopLoss, Entry}
    BY <1>1 DEF StoryInv, GoodRow
  <2> HIDE DEF hit, paid, left
  <2>5. CASE row.status = "TP_HIT"
    <3>1. row.result = {paid} /\ left = 0
      BY <2>1, <2>2, <2>5, NothingLeft DEF Settled
    <3> QED
      BY <2>5, <3>1 DEF ReturnFollowsRow, hit, paid, left
  <2>6. CASE row.status = "SL_HIT"
    <3>1. row.result = {paid + left * Leg(row.stop)}
      BY <2>1, <2>2, <2>3, <2>4, <2>6 DEF Settled
    <3> QED
      BY <2>6, <3>1 DEF ReturnFollowsRow, hit, paid, left
  <2>7. CASE row.status = "EXPIRED"
    <3>1. row.filledAt # Never /\ \E price \in Closes : row.result = {paid + left * Leg(price)}
      BY <2>1, <2>2, <2>3, <2>7 DEF Settled
    <3> QED
      BY <2>7, <3>1 DEF ReturnFollowsRow, hit, paid, left, Closes
  <2>8. CASE row.status \notin {"TP_HIT", "SL_HIT", "EXPIRED"}
    <3>1. row.result = {}
      BY <2>2, <2>8 DEF Settled
    <3> QED
      BY <2>8, <3>1 DEF ReturnFollowsRow
  <2> QED
    BY <2>5, <2>6, <2>7, <2>8
<1> QED
  BY InitIInv, NextIInv, InitStory, NextStory, InitReturn, NextReturn, <1>1, PTL DEF Spec

-----------------------------------------------------------------------------
(* A run over many signals                                                 *)

RotationSteps == {"idle", "fetch", "walk", "second", "commit"}

\* the signals a run has listed and not visited yet, each once
ListOK(q) == q \in Seq(Signals) /\ IsInjective(q)

RunOK(r) ==
    /\ step[r] \in RotationSteps
    /\ ListOK(todo[r])
    /\ finished[r] \intersect ToSet(todo[r]) = {}
    /\ finished[r] \intersect held[r] = {}
    /\ step[r] \in {"idle", "fetch"} => finished[r] = {}
    /\ step[r] \in {"second", "commit"} => todo[r] # <<>>
    /\ step[r] = "walk" => acted[r] = 0
    /\ step[r] = "commit" => acted[r] \in {0, 2}
    /\ step[r] \in {"idle", "fetch"} => acted[r] = 0

RunTables ==
    /\ step = [r \in MonitorRuns |-> step[r]]
    /\ todo = [r \in MonitorRuns |-> todo[r]]
    /\ held = [r \in MonitorRuns |-> held[r]]
    /\ acted = [r \in MonitorRuns |-> acted[r]]
    /\ finished = [r \in MonitorRuns |-> finished[r]]

RotationInv ==
    /\ ListOK(queue)
    /\ half = {}
    /\ RunTables
    /\ \A r \in MonitorRuns : RunOK(r)

\* What follows the head of a list without repetitions has none, and not the
\* head.
LEMMA TailOK ==
    ASSUME NEW q, ListOK(q), q # <<>>
    PROVE  /\ ListOK(Tail(q)) /\ Head(q) \notin ToSet(Tail(q))
           /\ ToSet(Tail(q)) \subseteq ToSet(q) /\ Head(q) \in ToSet(q)
<1>1. /\ q \in Seq(Signals) /\ \A i, j \in 1..Len(q) : q[i] = q[j] => i = j
      /\ Len(q) \in Nat /\ DOMAIN q = 1..Len(q) /\ Len(q) > 0
  BY DEF ListOK, IsInjective
<1>2. /\ Tail(q) \in Seq(Signals) /\ Len(Tail(q)) = Len(q) - 1
      /\ DOMAIN Tail(q) = 1..(Len(q) - 1)
      /\ \A i \in 1..(Len(q) - 1) : Tail(q)[i] = q[i + 1]
  BY <1>1
<1>3. Head(q) = q[1]
  BY <1>1
<1>4. IsInjective(Tail(q))
  BY <1>1, <1>2 DEF IsInjective
<1>5. \A i \in 1..(Len(q) - 1) : i + 1 \in 1..Len(q) /\ i + 1 # 1
  BY <1>1
<1>6. 1 \in 1..Len(q)
  BY <1>1
<1> QED
  BY <1>1, <1>2, <1>3, <1>4, <1>5, <1>6 DEF ListOK, ToSet

\* A visit leaves a part of what follows the head.
LEMMA RestOK ==
    ASSUME NEW r \in MonitorRuns, ListOK(todo[r]), todo[r] # <<>>, NEW rest \in Rests(r)
    PROVE  /\ ListOK(rest) /\ Head(todo[r]) \notin ToSet(rest)
           /\ ToSet(rest) \subseteq ToSet(todo[r])
<1>1. CASE rest = <<>>
  <2>1. ListOK(<<>>) /\ ToSet(<<>>) = {}
    BY DEF ListOK, IsInjective, ToSet
  <2> QED
    BY <1>1, <2>1
<1>2. CASE rest = Tail(todo[r])
  BY <1>2, TailOK
<1> QED
  BY <1>1, <1>2 DEF Rests

\* A front part of a list without repetitions has none.
LEMMA FrontOK ==
    ASSUME NEW q, ListOK(q), NEW n \in 0..Len(q)
    PROVE  ListOK(SubSeq(q, 1, n))
<1>1. /\ q \in Seq(Signals) /\ \A i, j \in 1..Len(q) : q[i] = q[j] => i = j /\ Len(q) \in Nat
  BY DEF ListOK, IsInjective
<1>2. /\ SubSeq(q, 1, n) \in Seq(Signals) /\ Len(SubSeq(q, 1, n)) = n
      /\ \A i \in 1..n : SubSeq(q, 1, n)[i] = q[i]
  BY <1>1, SubSeqProperties
<1> QED
  BY <1>1, <1>2 DEF ListOK, IsInjective

\* The walk that picks the members of S is the function its recursion
\* describes.
LEMMA OnlyDef ==
    ASSUME NEW q \in Seq(Signals), NEW S
    PROVE  /\ Only(q, S)[0] = <<>>
           /\ \A i \in 1..Len(q) :
                 Only(q, S)[i] = IF q[i] \in S THEN Append(Only(q, S)[i - 1], q[i]) ELSE Only(q, S)[i - 1]
<1> DEFINE With(g, n) == IF q[n] \in S THEN Append(g[n - 1], q[n]) ELSE g[n - 1]
           F(g, n) == g = [i \in 0..n |-> IF i = 0 THEN <<>>
                                          ELSE IF q[i] \in S THEN Append(g[i - 1], q[i]) ELSE g[i - 1]]
<1>1. Only(q, S) = CHOOSE g : F(g, Len(q))
  BY DEF Only
<1>2. \E g : F(g, 0)
  <2>1. F([i \in 0..0 |-> <<>>], 0)
    OBVIOUS
  <2> QED
    BY <2>1
<1>3. ASSUME NEW m \in 0..(Len(q) - 1), NEW g, F(g, m) PROVE \E h : F(h, m + 1)
  <2> DEFINE last == IF q[m + 1] \in S THEN Append(g[m], q[m + 1]) ELSE g[m]
             h == [i \in 0..(m+1) |-> IF i = m + 1 THEN last ELSE g[i]]
  <2>0. m \in Nat /\ (m + 1) - 1 = m
    OBVIOUS
  <2>1. ASSUME NEW i \in 0..(m + 1)
        PROVE  h[i] = IF i = 0 THEN <<>> ELSE IF q[i] \in S THEN Append(h[i - 1], q[i]) ELSE h[i - 1]
    <3>1. CASE i = m + 1
      <4>1. h[i] = last /\ h[i - 1] = g[m]
        BY <2>0, <3>1
      <4> QED
        BY <2>0, <3>1, <4>1
    <3>2. CASE i # m + 1
      <4>1. h[i] = g[i] /\ i \in 0..m /\ (i # 0 => h[i - 1] = g[i - 1])
        BY <2>0, <3>2
      <4> QED
        BY <1>3, <4>1
    <3> QED
      BY <3>1, <3>2
  <2>2. h = [i \in 0..(m+1) |-> h[i]]
    OBVIOUS
  <2> HIDE DEF h
  <2>3. F(h, m + 1)
    BY <2>1, <2>2
  <2> QED
    BY <2>3
<1>4. \E g : F(g, Len(q))
  <2> PICK n \in Nat : n = Len(q)
    OBVIOUS
  <2> DEFINE X == {k \in 0..n : \E g : F(g, k)}
  <2>1. \A m \in 0..(n - 1) : (\E g : F(g, m)) => \E h : F(h, m + 1)
    BY <1>3
  <2> HIDE DEF F
  <2>2. 0 \in X /\ \A m \in 0..(n - 1) : m \in X => m + 1 \in X
    BY <1>2, <2>1
  <2> HIDE DEF X
  <2>3. n \in X
    BY <2>2, Rules!UpTo
  <2> QED
    BY <2>3 DEF X
<1>5. F(Only(q, S), Len(q))
  <2> HIDE DEF F
  <2> QED
    BY <1>1, <1>4
<1>6. PICK n \in Nat : n = Len(q)
  OBVIOUS
<1>7. 0 \in 0..n /\ \A i \in 1..n : i \in 0..n /\ i # 0
  OBVIOUS
<1> DEFINE g == Only(q, S)
<1>8. \A i \in 0..n : g[i] = IF i = 0 THEN <<>>
                                ELSE IF q[i] \in S THEN Append(g[i - 1], q[i]) ELSE g[i - 1]
  <2> HIDE DEF g
  <2>1. g = [i \in 0..n |-> IF i = 0 THEN <<>>
                             ELSE IF q[i] \in S THEN Append(g[i - 1], q[i]) ELSE g[i - 1]]
    BY <1>5, <1>6 DEF g
  <2> QED
    BY <2>1
<1> HIDE DEF g
<1> QED
  BY <1>6, <1>7, <1>8 DEF g

\* The members of S in a list, in its order, each once.
LEMMA InSHolds ==
    ASSUME NEW q, ListOK(q), NEW S
    PROVE  ListOK(InS(q, S)) /\ ToSet(InS(q, S)) = ToSet(q) \intersect S
<1> PICK n \in Nat : n = Len(q)
  BY DEF ListOK
<1> DEFINE f == Only(q, S)
           Good(k) == ListOK(f[k]) /\ ToSet(f[k]) = {q[i] : i \in 1..k} \intersect S
           X == {k \in 0..n : Good(k)}
<1>1. q \in Seq(Signals) /\ DOMAIN q = 1..n /\ \A i, j \in 1..n : q[i] = q[j] => i = j
  BY DEF ListOK, IsInjective
<1>2. /\ f[0] = <<>>
      /\ \A i \in 1..n : f[i] = IF q[i] \in S THEN Append(f[i - 1], q[i]) ELSE f[i - 1]
  BY <1>1, OnlyDef
<1> HIDE DEF f
<1>3. Good(0)
  <2>1. ListOK(<<>>) /\ ToSet(<<>>) = {}
    BY DEF ListOK, IsInjective, ToSet
  <2>2. {q[i] : i \in 1..0} = {}
    OBVIOUS
  <2> QED
    BY <1>2, <2>1, <2>2
<1>4. ASSUME NEW m \in 0..(n - 1), Good(m) PROVE Good(m + 1)
  <2>1. m + 1 \in 1..n /\ (m + 1) - 1 = m /\ q[m + 1] \in Signals
    BY <1>1
  <2>2. q[m + 1] \notin {q[i] : i \in 1..m}
    BY <1>1, <2>1
  <2>3. {q[i] : i \in 1..(m + 1)} = {q[i] : i \in 1..m} \union {q[m + 1]}
    BY <2>1
  <2>4. CASE q[m + 1] \notin S
    <3>1. f[m + 1] = f[m]
      BY <1>2, <2>1, <2>4
    <3> QED
      BY <1>4, <2>3, <2>4, <3>1
  <2>5. CASE q[m + 1] \in S
    <3>1. f[m + 1] = Append(f[m], q[m + 1])
      BY <1>2, <2>1, <2>5
    <3>0. ListOK(f[m]) /\ q[m + 1] \notin ToSet(f[m])
      BY <1>4, <2>2
    <3>a. PICK g : g = f[m]
      OBVIOUS
    <3>b. PICK e \in Signals : e = q[m + 1]
      BY <2>1
    <3>2. ListOK(g) /\ e \notin ToSet(g)
      BY <3>0, <3>a, <3>b
    <3>3. /\ Append(g, e) \in Seq(Signals) /\ Len(Append(g, e)) = Len(g) + 1 /\ Len(g) \in Nat
          /\ \A i \in 1..Len(g) : Append(g, e)[i] = g[i]
          /\ Append(g, e)[Len(g) + 1] = e
      BY <3>2 DEF ListOK
    <3>4. DOMAIN Append(g, e) = 1..(Len(g) + 1) /\ DOMAIN g = 1..Len(g)
      BY <3>2, <3>3 DEF ListOK
    <3>5. ToSet(Append(g, e)) = ToSet(g) \union {e}
      BY <3>3, <3>4 DEF ToSet
    <3>6. IsInjective(Append(g, e))
      BY <3>2, <3>3, <3>4 DEF IsInjective, ListOK, ToSet
    <3> QED
      BY <1>4, <2>3, <2>5, <3>1, <3>a, <3>b, <3>3, <3>5, <3>6 DEF ListOK
  <2> QED
    BY <2>4, <2>5
<1>5. 0 \in X /\ \A m \in 0..(n - 1) : m \in X => m + 1 \in X
  BY <1>3, <1>4
<1>6. n \in X
  <2> HIDE DEF X
  <2> QED
    BY <1>5, Rules!UpTo
<1> QED
  BY <1>1, <1>6 DEF InS, ToSet, f

\* Two lists without a common member, one after the other, repeat nothing.
LEMMA JoinOK ==
    ASSUME NEW p, NEW q, ListOK(p), ListOK(q), ToSet(p) \intersect ToSet(q) = {}
    PROVE  ListOK(p \o q)
<1>1. /\ p \in Seq(Signals) /\ q \in Seq(Signals) /\ Len(p) \in Nat /\ Len(q) \in Nat
      /\ DOMAIN p = 1..Len(p) /\ DOMAIN q = 1..Len(q)
  BY DEF ListOK
<1>2. /\ p \o q \in Seq(Signals) /\ DOMAIN (p \o q) = 1..(Len(p) + Len(q))
      /\ \A i \in 1..(Len(p) + Len(q)) : (p \o q)[i] = IF i <= Len(p) THEN p[i] ELSE q[i - Len(p)]
  BY <1>1
<1>3. ASSUME NEW i \in 1..(Len(p) + Len(q)), NEW j \in 1..(Len(p) + Len(q)),
             (p \o q)[i] = (p \o q)[j]
      PROVE  i = j
  <2>1. CASE i <= Len(p) /\ j <= Len(p)
    BY <1>1, <1>2, <1>3, <2>1 DEF ListOK, IsInjective
  <2>2. CASE i > Len(p) /\ j > Len(p)
    <3>1. i - Len(p) \in DOMAIN q /\ j - Len(p) \in DOMAIN q /\ q[i - Len(p)] = q[j - Len(p)]
      BY <1>1, <1>2, <1>3, <2>2
    <3> QED
      BY <1>1, <3>1 DEF ListOK, IsInjective
  <2>3. CASE i <= Len(p) /\ j > Len(p)
    <3>1. p[i] \in ToSet(p) /\ q[j - Len(p)] \in ToSet(q) /\ p[i] = q[j - Len(p)]
      BY <1>1, <1>2, <1>3, <2>3 DEF ToSet
    <3> QED
      BY <3>1
  <2>4. CASE i > Len(p) /\ j <= Len(p)
    <3>1. p[j] \in ToSet(p) /\ q[i - Len(p)] \in ToSet(q) /\ p[j] = q[i - Len(p)]
      BY <1>1, <1>2, <1>3, <2>4 DEF ToSet
    <3> QED
      BY <3>1
  <2> QED
    BY <1>1, <2>1, <2>2, <2>3, <2>4
<1> QED
  BY <1>2, <1>3 DEF ListOK, IsInjective

\* a step of run r that leaves the other runs alone
Alone(r) ==
    \A u \in MonitorRuns \ {r} :
        /\ step'[u] = step[u] /\ todo'[u] = todo[u] /\ held'[u] = held[u]
        /\ acted'[u] = acted[u] /\ finished'[u] = finished[u]

\* A step that concerns one run leaves the others as they were.
LEMMA OthersStay ==
    ASSUME RotationInv, NEW r \in MonitorRuns, Alone(r), RunOK(r)', RunTables',
           ListOK(queue'), half' = {}
    PROVE  RotationInv'
<1>1. ASSUME NEW u \in MonitorRuns \ {r} PROVE RunOK(u)'
  BY <1>1 DEF Alone, RotationInv, RunOK
<1> QED
  BY <1>1 DEF RotationInv

\* Writing a signal's time of check moves it to the end of the order.
LEMMA EffectKeepsOrder ==
    ASSUME RotationInv, NEW r \in MonitorRuns, step[r] \in {"walk", "commit"},
           IF aborted[r] THEN UNCHANGED rows ELSE TakeEffect(r)
    PROVE  ListOK(queue') /\ half' = {}
<1>1. CASE aborted[r]
  BY <1>1 DEF rows, RotationInv
<1>2. CASE ~aborted[r]
  <2>1. PICK ended \in SUBSET Done(r) :
          /\ queue' = InS(queue, Queued \ held[r]) \o InS(queue, held[r] \ ended)
          /\ half' = half \union {s \in held[r] : acted[r] = 1 /\ s = Head(todo[r])}
    BY <1>2 DEF TakeEffect
  <2>2. acted[r] # 1
    BY DEF RotationInv, RunOK
  <2>3. ListOK(queue')
    <3> DEFINE p == InS(queue, Queued \ held[r])
               q == InS(queue, held[r] \ ended)
    <3>1. ListOK(p) /\ ListOK(q) /\ ToSet(p) \intersect ToSet(q) = {}
      BY InSHolds DEF RotationInv
    <3> HIDE DEF p, q
    <3>2. ListOK(p \o q)
      BY <3>1, JoinOK
    <3> QED
      BY <2>1, <3>2 DEF p, q
  <2> QED
    BY <2>1, <2>2, <2>3 DEF RotationInv
<1> QED
  BY <1>1, <1>2

\* a failed statement undoes what the transaction has written
LEMMA UndoStep ==
    ASSUME RotationInv, NEW r \in MonitorRuns, Undo(r), todo[r] # <<>>, step[r] \in {"walk", "second"}
    PROVE  RotationInv'
<1>1. /\ held' = [held EXCEPT ![r] = {}] /\ acted' = [acted EXCEPT ![r] = 0]
      /\ UNCHANGED <<queue, news, half, finished>>
  BY DEF Undo, rows
<1>2. \/ step' = step /\ step[r] = "walk" /\ \E rest \in Rests(r) : todo' = [todo EXCEPT ![r] = rest]
      \/ step' = [step EXCEPT ![r] = "commit"] /\ todo' = todo
  BY DEF Undo, Visit, Turn
<1>3. RunTables'
  BY <1>1, <1>2 DEF RotationInv, RunTables
<1>4. Alone(r)
  BY <1>1, <1>2 DEF RotationInv, RunTables, Alone
<1>5. /\ held'[r] = {} /\ acted'[r] = 0 /\ finished'[r] = finished[r]
  BY <1>1 DEF RotationInv, RunTables
<1>6. RunOK(r)'
  <2>1. ASSUME step' = step, step[r] = "walk", NEW rest \in Rests(r), todo' = [todo EXCEPT ![r] = rest]
        PROVE  RunOK(r)'
    <3>1. todo'[r] = rest
      BY <2>1 DEF RotationInv, RunTables
    <3>2. ListOK(rest) /\ ToSet(rest) \subseteq ToSet(todo[r])
      BY RestOK DEF RotationInv, RunOK
    <3> QED
      BY <1>5, <2>1, <3>1, <3>2 DEF RotationInv, RunOK
  <2>2. ASSUME step' = [step EXCEPT ![r] = "commit"], todo' = todo PROVE RunOK(r)'
    <3>1. step'[r] = "commit"
      BY <2>2 DEF RotationInv, RunTables
    <3> QED
      BY <1>5, <2>2, <3>1 DEF RotationInv, RunOK, RotationSteps
  <2> QED
    BY <1>2, <2>1, <2>2
<1> QED
  BY <1>1, <1>3, <1>4, <1>6, OthersStay DEF RotationInv

\* the run is over and its variables are gone
LEMMA OverStep ==
    ASSUME RotationInv, NEW r \in MonitorRuns, RunOver(r), ListOK(queue'), half' = {}
    PROVE  RotationInv'
<1>1. /\ step' = [step EXCEPT ![r] = "idle"] /\ todo' = [todo EXCEPT ![r] = <<>>]
      /\ held' = [held EXCEPT ![r] = {}] /\ acted' = [acted EXCEPT ![r] = 0]
      /\ finished' = [finished EXCEPT ![r] = {}]
  BY DEF RunOver, Turn
<1>2. RunTables' /\ Alone(r)
  BY <1>1 DEF RotationInv, RunTables, Alone
<1>3. /\ step'[r] = "idle" /\ todo'[r] = <<>> /\ held'[r] = {} /\ acted'[r] = 0 /\ finished'[r] = {}
  BY <1>1 DEF RotationInv, RunTables
<1>4. ListOK(<<>>)
  BY DEF ListOK, IsInjective
<1>5. RunOK(r)'
  BY <1>3, <1>4 DEF RunOK, RotationSteps
<1> QED
  BY <1>2, <1>5, OthersStay

\* Every step keeps the order whole, and finished work out of what is held
\* back.
LEMMA RotationStepOK ==
    ASSUME RotationInv, [RotationNext]_rotationVars
    PROVE  RotationInv'
<1> USE DEF RotationInv
<1>1. CASE UNCHANGED rotationVars
  BY <1>1 DEF rotationVars, rows, runVars, RunTables, RunOK
<1>2. ASSUME NEW r \in MonitorRuns, ListStalest(r) PROVE RotationInv'
  <2>1. PICK n \in Limits : todo' = [todo EXCEPT ![r] =
            SubSeq(Listed, 1, IF Len(queue) < n THEN Len(queue) ELSE n)]
    BY <1>2 DEF ListStalest
  <2> DEFINE list == SubSeq(Listed, 1, IF Len(queue) < n THEN Len(queue) ELSE n)
  <2>2. ListOK(list)
    <3>1. Len(queue) \in Nat /\ n \in Nat
      BY RotationAssumption DEF ListOK
    <3>2. (IF Len(queue) < n THEN Len(queue) ELSE n) \in 0..Len(queue)
      BY <3>1
    <3> QED
      BY <3>2, FrontOK DEF Listed
  <2> HIDE DEF list
  <2>3. /\ step[r] = "idle" /\ step' = [step EXCEPT ![r] = "fetch"] /\ todo' = [todo EXCEPT ![r] = list]
        /\ UNCHANGED <<queue, news, half, held, acted, finished>>
    BY <1>2, <2>1 DEF ListStalest, Turn, rows, list
  <2>4. RunTables' /\ Alone(r)
    BY <2>3 DEF RunTables, Alone
  <2>5. step'[r] = "fetch" /\ todo'[r] = list
    BY <2>3 DEF RunTables
  <2>6. RunOK(r)'
    BY <2>2, <2>3, <2>5 DEF RunOK, RotationSteps
  <2> QED
    BY <2>3, <2>4, <2>6, OthersStay
<1>3. ASSUME NEW r \in MonitorRuns, FetchAll(r) \/ FetchShort(r) \/ FetchLate(r) PROVE RotationInv'
  <2>1. /\ step[r] = "fetch" /\ step' = [step EXCEPT ![r] = "walk"]
        /\ todo' = todo \/ todo' = [todo EXCEPT ![r] = <<>>]
        /\ UNCHANGED <<queue, news, half, held, acted, finished>>
    BY <1>3 DEF FetchAll, FetchShort, FetchLate, Turn, rows
  <2>2. RunTables' /\ Alone(r)
    BY <2>1 DEF RunTables, Alone
  <2>3. step'[r] = "walk" /\ (todo'[r] = todo[r] \/ todo'[r] = <<>>)
    BY <2>1 DEF RunTables
  <2>4. ListOK(<<>>)
    BY DEF ListOK, IsInjective
  <2>5. RunOK(r)'
    BY <2>1, <2>3, <2>4 DEF RunOK, RotationSteps
  <2> QED
    BY <2>1, <2>2, <2>5, OthersStay
<1>4. ASSUME NEW r \in MonitorRuns, Pass(r) \/ \E s \in Signals : Measure(r, s) PROVE RotationInv'
  <2>1. PICK rest \in Rests(r) : todo' = [todo EXCEPT ![r] = rest]
    BY <1>4 DEF Pass, Measure, Visit
  <2>2. /\ step[r] = "walk" /\ todo[r] # <<>>
        /\ UNCHANGED <<queue, news, half, step, acted, finished>>
        /\ held' = held \/ held' = [held EXCEPT ![r] = @ \union {Head(todo[r])}]
    BY <1>4 DEF Pass, Measure, At, rows
  <2>3. RunTables' /\ Alone(r)
    BY <2>1, <2>2 DEF RunTables, Alone
  <2>4. todo'[r] = rest /\ (held'[r] = held[r] \/ held'[r] = held[r] \union {Head(todo[r])})
    BY <2>1, <2>2 DEF RunTables
  <2>5. /\ ListOK(rest) /\ ToSet(rest) \subseteq ToSet(todo[r])
        /\ Head(todo[r]) \in ToSet(todo[r])
    BY <2>2, RestOK, TailOK DEF RunOK
  <2>6. RunOK(r)'
    BY <2>2, <2>4, <2>5 DEF RunOK
  <2> QED
    BY <2>2, <2>3, <2>6, OthersStay
<1>5. ASSUME NEW r \in MonitorRuns, NEW s \in Signals, Act(r, s) PROVE RotationInv'
  <2>1. /\ step[r] = "walk" /\ todo[r] # <<>> /\ s = Head(todo[r])
        /\ UNCHANGED <<queue, news, half, todo, finished>>
        /\ held' = [held EXCEPT ![r] = @ \union {s}] \/ held' = [held EXCEPT ![r] = @ \union {}]
        /\ \/ acted' = [acted EXCEPT ![r] = 1] /\ step' = [step EXCEPT ![r] = "second"]
           \/ acted' = [acted EXCEPT ![r] = 0] /\ step' = [step EXCEPT ![r] = "commit"]
    BY <1>5 DEF Act, At, Turn, rows
  <2>2. RunTables' /\ Alone(r)
    BY <2>1 DEF RunTables, Alone
  <2>3. /\ held'[r] = held[r] \/ held'[r] = held[r] \union {s}
        /\ \/ acted'[r] = 1 /\ step'[r] = "second"
           \/ acted'[r] = 0 /\ step'[r] = "commit"
    BY <2>1 DEF RunTables
  <2>4. s \in ToSet(todo[r])
    BY <2>1, TailOK DEF RunOK
  <2>5. RunOK(r)'
    BY <2>1, <2>3, <2>4 DEF RunOK, RotationSteps
  <2> QED
    BY <2>1, <2>2, <2>5, OthersStay
<1>6. ASSUME NEW r \in MonitorRuns, ActAgain(r) PROVE RotationInv'
  <2>1. /\ step[r] = "second" /\ step' = [step EXCEPT ![r] = "commit"]
        /\ acted' = [acted EXCEPT ![r] = 2]
        /\ UNCHANGED <<queue, news, half, todo, held, finished>>
    BY <1>6 DEF ActAgain, Turn, rows
  <2>2. RunTables' /\ Alone(r)
    BY <2>1 DEF RunTables, Alone
  <2>3. step'[r] = "commit" /\ acted'[r] = 2
    BY <2>1 DEF RunTables
  <2>4. RunOK(r)'
    BY <2>1, <2>3 DEF RunOK, RotationSteps
  <2> QED
    BY <2>1, <2>2, <2>4, OthersStay
<1>7. ASSUME NEW r \in MonitorRuns, CommitSignal(r) PROVE RotationInv'
  <2>1. PICK rest \in Rests(r) : todo' = [todo EXCEPT ![r] = rest]
    BY <1>7 DEF CommitSignal, GoOn
  <2>2. /\ step[r] = "commit" /\ step' = [step EXCEPT ![r] = "walk"]
        /\ held' = [held EXCEPT ![r] = {}] /\ acted' = [acted EXCEPT ![r] = 0]
        /\ \/ finished' = [finished EXCEPT ![r] = @ \union {Head(todo[r])}]
           \/ finished' = [finished EXCEPT ![r] = @ \union {}]
    BY <1>7 DEF CommitSignal, GoOn, Turn
  <2>3. ListOK(queue') /\ half' = {}
    BY <1>7, <2>2, EffectKeepsOrder DEF CommitSignal
  <2>4. RunTables' /\ Alone(r)
    BY <2>1, <2>2 DEF RunTables, Alone
  <2>5. /\ step'[r] = "walk" /\ todo'[r] = rest /\ held'[r] = {} /\ acted'[r] = 0
        /\ finished'[r] = finished[r] \/ finished'[r] = finished[r] \union {Head(todo[r])}
    BY <2>1, <2>2 DEF RunTables
  <2>6. todo[r] # <<>> /\ ListOK(todo[r])
    BY <2>2 DEF RunOK
  <2>7. /\ ListOK(rest) /\ ToSet(rest) \subseteq ToSet(todo[r])
        /\ Head(todo[r]) \notin ToSet(rest)
    BY <2>6, RestOK
  <2>8. RunOK(r)'
    BY <2>5, <2>7 DEF RunOK, RotationSteps
  <2> QED
    BY <2>3, <2>4, <2>8, OthersStay
<1>8. ASSUME NEW r \in MonitorRuns, Finish(r) PROVE RotationInv'
  <2>1. ListOK(queue') /\ half' = {}
    BY <1>8, EffectKeepsOrder DEF Finish
  <2> QED
    BY <1>8, <2>1, OverStep DEF Finish
<1>9. ASSUME NEW r \in MonitorRuns, Crash(r) PROVE RotationInv'
  BY <1>9, OverStep DEF Crash, rows
<1>10. ASSUME NEW r \in MonitorRuns, Fails(r) \/ FailsAgain(r) PROVE RotationInv'
  <2>1. Undo(r) /\ todo[r] # <<>> /\ step[r] \in {"walk", "second"}
    BY <1>10 DEF Fails, FailsAgain, Writes, At, RunOK
  <2> QED
    BY <2>1, UndoStep
<1>11. ASSUME NEW r \in MonitorRuns, Victim(r) PROVE RotationInv'
  <2>1. Undo(r) /\ todo[r] # <<>> /\ step[r] \in {"walk", "second"}
    BY <1>11 DEF Victim, WaitsFor, At
  <2> QED
    BY <2>1, UndoStep
<1>12. ASSUME NEW s \in Signals, Publish(s) PROVE RotationInv'
  <2>1. /\ s \notin ToSet(queue) /\ queue' = Append(queue, s)
        /\ UNCHANGED <<half, step, todo, held, acted, finished>>
    BY <1>12 DEF Publish, Queued, runVars
  <2>2. ListOK(queue')
    <3> PICK q : q = queue
      OBVIOUS
    <3>1. ListOK(q) /\ s \notin ToSet(q)
      BY <2>1
    <3>2. /\ Append(q, s) \in Seq(Signals) /\ Len(Append(q, s)) = Len(q) + 1 /\ Len(q) \in Nat
          /\ \A i \in 1..Len(q) : Append(q, s)[i] = q[i]
          /\ Append(q, s)[Len(q) + 1] = s
          /\ DOMAIN q = 1..Len(q)
      BY <3>1 DEF ListOK
    <3>3. DOMAIN Append(q, s) = 1..(Len(q) + 1)
      BY <3>2
    <3>4. IsInjective(Append(q, s))
      BY <3>1, <3>2, <3>3 DEF IsInjective, ListOK, ToSet
    <3> QED
      BY <2>1, <3>2, <3>4 DEF ListOK
  <2> QED
    BY <2>1, <2>2 DEF RunTables, RunOK
<1>13. ASSUME NEW s \in Signals, Extreme(s) \/ Event(s) PROVE RotationInv'
  BY <1>13 DEF Extreme, Event, runVars, RunTables, RunOK
<1> QED
  BY <1>1, <1>2, <1>3, <1>4, <1>5, <1>6, <1>7, <1>8, <1>9, <1>10, <1>11, <1>12, <1>13
     DEF RotationNext, RunStep

(* What a run has finished is in no open transaction (committed, or undone *)
(* as a whole), and no committed row shows one of a decision's two actions *)
(* alone.                                                                  *)
THEOREM FinishedWorkIsDurable == RotationSpec => []WholeAndDurable
<1>1. RotationInit => RotationInv
  <2>1. ListOK(<<>>) /\ ToSet(<<>>) = {}
    BY DEF ListOK, IsInjective, ToSet
  <2> QED
    BY <2>1 DEF RotationInit, RotationInv, RunTables, RunOK, RotationSteps
<1>2. RotationInv /\ [RotationNext]_rotationVars => RotationInv'
  BY RotationStepOK
<1>3. RotationInv => WholeAndDurable
  BY DEF RotationInv, RunOK, WholeAndDurable, NoHalfSignal, FinishedIsDurable
<1> QED
  BY <1>1, <1>2, <1>3, PTL DEF RotationSpec
=============================================================================
