----------------------------- MODULE ClosePublish ---------------------------
(***************************************************************************)
(* The close trades of one day: app._close_run, called by the scheduler    *)
(* (cloudflare/hl-manage-worker) and by hand.  A call scans at most one    *)
(* timeframe that closed, records its picks, keeps the set in the KV, and  *)
(* the call that finds every set there sends one post (and one tweet)      *)
(* under a claim of kv.py, whose steps are those of ClaimLedger.           *)
(*                                                                         *)
(* A call may begin at any moment of the window of _close_run: a slot of   *)
(* the scheduler, its retry after a timeout or a lost connection, or a     *)
(* call by hand; a new one may begin while an old one still runs.          *)
(* DB_REQUIRED is on.                                                      *)
(***************************************************************************)
EXTENDS ClosePicks

CONSTANTS
    Due,            \* due(now): the timeframes that closed, in order
    Calls,          \* instances of the app, one call each: the scheduler's and those by hand
    Lists,          \* the ranked candidate lists a scan may end with
    TopN,           \* TOP_N
    Faults,         \* what may fail: a subset of ClaimLedger's faults and "db_reply"
    MaxCalls,       \* bound: how many calls the day has
    MaxFailures,    \* bound: how often something fails in the day
    MaxEffect,      \* bound of ClaimLedger
    Unsaved         \* no set is kept

\* the keys tg:close and tw:daily of _dispatch_once
Channels == {"post", "tweet"}

Listed(list) == {list[i] : i \in DOMAIN list}
Picks == UNION {Listed(list) : list \in Lists}

\* a scan ranks at most one candidate of a coin on an exchange
ASSUME ClosePublishAssumption ==
    /\ Due \in Seq(STRING) /\ Len(Due) > 0 /\ TopN \in Nat \ {0}
    /\ \A i, j \in DOMAIN Due : Due[i] = Due[j] => i = j
    /\ Faults \subseteq {"kv_down", "kv_reply", "disk", "act_reply", "db_reply", "expiry", "crash"}
    /\ MaxEffect \in Nat \ {0}
    /\ \A list \in Lists :
        /\ list \in Seq(Listed(list))
        /\ \A i, j \in DOMAIN list :
              list[i].coin = list[j].coin /\ list[i].venue = list[j].venue => i = j
    /\ \A picks \in SUBSET Picks : picks # Unsaved

VARIABLES
    redis, file, pc, job, effect, suffered,     \* ClaimLedger's
    fresh,      \* the timeframes whose new candle the exchanges serve
    rows,       \* the recorded signals of the day
    saved,      \* saved[tf]: the set kept in Redis
    local,      \* local[c]: the sets in the fallback file of call c's instance
    posted,     \* the sets the last post was built from, <<>> before it
    calls,      \* how many calls there have been
    at,         \* at[c]: where call c is in _close_run
    sets,       \* sets[c]: the sets call c has, in the order of Due
    scanned,    \* scanned[c]: the call has made its one scan
    todo,       \* todo[c]: the picks still to be recorded
    got,        \* got[c]: the picks recorded by this scan
    failures,   \* how often something has failed
    mishaps,    \* history: what has come between a scan and its set
    clean,      \* history: call c met the whole data, no other call, no failure
    good        \* history: how many such calls have ended

ledger == <<redis, file, pc, job, effect, suffered>>
books == <<rows, saved, local>>
day == <<fresh, calls>>
locals == <<sets, scanned, todo, got>>
history == <<failures, mishaps, clean, good>>
vars == <<ledger, day, books, posted, at, locals, history>>

Ledger == INSTANCE ClaimLedger
            WITH Workers <- Calls, Keys <- Channels, Faults <- Faults \ {"db_reply"}

Tfs == {Due[i] : i \in DOMAIN Due}

NoSets == [tf \in Tfs |-> Unsaved]
Row(tf, pick) ==
    [tf |-> tf, coin |-> pick.coin, venue |-> pick.venue, direction |-> pick.direction]

Steps == {"out", "load", "scan", "persist", "post", "tweet"}

TypeOK ==
    /\ Ledger!TypeOK
    /\ fresh \subseteq Tfs
    /\ rows \subseteq {Row(tf, p) : tf \in Tfs, p \in Picks}
    /\ saved \in [Tfs -> {Unsaved} \union SUBSET Picks]
    /\ local \in [Calls -> [Tfs -> {Unsaved} \union SUBSET Picks]]
    /\ at \in [Calls -> Steps]
    /\ \A c \in Calls :
        /\ Len(sets[c]) <= Len(Due)
        /\ at[c] \in {"load", "scan", "persist"} => Len(sets[c]) < Len(Due)
        /\ at[c] \in {"post", "tweet"} => Len(sets[c]) = Len(Due)
        /\ got[c] \subseteq Picks /\ scanned[c] \in BOOLEAN
        /\ pc[c] # "idle" => at[c] = job[c]
    /\ posted # <<>> => Len(posted) = Len(Due)
    /\ calls \in 0..MaxCalls
    /\ failures \in 0..MaxFailures /\ mishaps \subseteq {"cut", "overlap", "kv", "db"}
    /\ clean \in [Calls -> BOOLEAN] /\ good \in 0..Len(Due)

Init ==
    /\ Ledger!Init /\ job = [c \in Calls |-> "post"]
    /\ fresh = {}
    /\ rows = {} /\ saved = NoSets /\ local = [c \in Calls |-> NoSets]
    /\ posted = <<>>
    /\ at = [c \in Calls |-> "out"]
    /\ sets = [c \in Calls |-> <<>>]
    /\ scanned = [c \in Calls |-> FALSE]
    /\ todo = [c \in Calls |-> <<>>]
    /\ got = [c \in Calls |-> {}]
    /\ calls = 0
    /\ failures = 0 /\ mishaps = {}
    /\ clean = [c \in Calls |-> FALSE] /\ good = 0

Goto(c, step) == at' = [at EXCEPT ![c] = step]

\* the timeframe call c is at
Tf(c) == Due[Len(sets[c]) + 1]

Running(c) == at[c] # "out"

\* call c is no longer a good one
Spoil(c) == clean' = [clean EXCEPT ![c] = FALSE] /\ UNCHANGED good

\* something failed in call c
Fail(c) ==
    /\ failures < MaxFailures /\ failures' = failures + 1
    /\ Spoil(c)

\* call c ends and its locals are gone
End(c) ==
    /\ Goto(c, "out")
    /\ sets' = [sets EXCEPT ![c] = <<>>]
    /\ scanned' = [scanned EXCEPT ![c] = FALSE]
    /\ todo' = [todo EXCEPT ![c] = <<>>]
    /\ got' = [got EXCEPT ![c] = {}]

\* the call answers, and it was a good one if nothing had spoilt it
Leave(c) ==
    /\ End(c)
    /\ good' = IF clean[c] /\ good < Len(Due) THEN good + 1 ELSE good
    /\ clean' = [clean EXCEPT ![c] = FALSE]
    /\ UNCHANGED failures

\* the next set is there: on to the next timeframe or to the post
Have(c, set) ==
    /\ sets' = [sets EXCEPT ![c] = Append(@, set)]
    /\ Goto(c, IF Len(sets[c]) + 1 = Len(Due) THEN "post" ELSE "load")

-----------------------------------------------------------------------------
(* The calls.                                                              *)

Begin(c) ==
    /\ ~Running(c)
    /\ calls < MaxCalls /\ calls' = calls + 1
    /\ Goto(c, "load")
    /\ clean' = [d \in Calls |->
                    d = c /\ fresh = Tfs /\ \A e \in Calls : ~Running(e)]
    /\ UNCHANGED <<ledger, fresh, books, posted, locals, failures, mishaps, good>>

\* _close_load found the set
LoadHit(c) ==
    /\ at[c] = "load" /\ saved[Tf(c)] # Unsaved
    /\ Have(c, saved[Tf(c)])
    /\ UNCHANGED <<ledger, day, books, posted, scanned, todo, got, history>>

\* no set yet: this call scans, unless it has made its scan
ToScan(c) ==
    IF scanned[c]
    THEN Leave(c) /\ UNCHANGED mishaps
    ELSE /\ Goto(c, "scan")
         /\ mishaps' = IF \E d \in Calls \ {c} :
                            at[d] \in {"scan", "persist"} /\ Tf(d) = Tf(c)
                       THEN mishaps \union {"overlap"} ELSE mishaps
         /\ UNCHANGED <<locals, failures, clean, good>>

\* the set is taken for missing whatever the store says
LoadMiss_Always(c) ==
    /\ at[c] = "load"
    /\ ToScan(c)
    /\ UNCHANGED <<ledger, day, books, posted>>

LoadMiss(c) ==
    /\ at[c] = "load" /\ saved[Tf(c)] = Unsaved
    /\ ToScan(c)
    /\ UNCHANGED <<ledger, day, books, posted>>

\* get_value could not reach Redis and read the instance's file
LoadFile(c) ==
    /\ at[c] = "load" /\ "kv_down" \in Faults
    /\ mishaps' = mishaps \union {"kv"}
    /\ Fail(c)
    /\ IF local[c][Tf(c)] # Unsaved
       THEN Have(c, local[c][Tf(c)]) /\ UNCHANGED <<scanned, todo, got>>
       ELSE IF scanned[c]
            THEN End(c)
            ELSE Goto(c, "scan") /\ UNCHANGED <<locals>>
    /\ UNCHANGED <<ledger, day, books, posted>>

\* _close_compute, DATA_NOT_CURRENT
ScanTooEarly(c) ==
    /\ at[c] = "scan" /\ Tf(c) \notin fresh
    /\ Leave(c)
    /\ UNCHANGED <<ledger, day, books, posted, mishaps>>

\* _close_compute: the live data of the moment decides the candidates
Scan(c) ==
    /\ at[c] = "scan" /\ Tf(c) \in fresh
    /\ \E list \in Lists : todo' = [todo EXCEPT ![c] = SelectPublishable(list, TopN)]
    /\ Goto(c, "persist")
    /\ UNCHANGED <<ledger, day, books, posted, sets, scanned, got, history>>

\* one pick done; after the last one the set is ready to be saved
PickDone(c) ==
    /\ todo' = [todo EXCEPT ![c] = Tail(@)]
    /\ UNCHANGED <<ledger, day, saved, local, posted, at, sets, scanned>>

\* persist_recommendation, a transaction of its own: a new row, or an
\* idempotent hit on the row of this coin, exchange and close as it is
Persist(c) ==
    LET new == Row(Tf(c), Head(todo[c])) IN
    /\ at[c] = "persist" /\ todo[c] # <<>>
    /\ rows' = IF \E r \in rows : r.tf = new.tf /\ r.coin = new.coin /\ r.venue = new.venue
               THEN rows ELSE rows \union {new}
    /\ got' = [got EXCEPT ![c] = @ \union {Head(todo[c])}]
    /\ PickDone(c)
    /\ UNCHANGED history

\* the pick is published although its row was not written
PersistFails_Published(c) ==
    /\ at[c] = "persist" /\ todo[c] # <<>>
    /\ got' = [got EXCEPT ![c] = @ \union {Head(todo[c])}]
    /\ PickDone(c) /\ Fail(c)
    /\ UNCHANGED <<rows, mishaps>>

\* the row is written before the check that turns the pick down
PersistFails_RowStays(c) ==
    /\ at[c] = "persist" /\ todo[c] # <<>>
    /\ rows' = rows \union {Row(Tf(c), Head(todo[c]))}
    /\ PickDone(c) /\ Fail(c)
    /\ UNCHANGED <<got, mishaps>>

\* INVALID_SIGNAL or DB_WRITE_FAILED: the pick is not published
PersistFails(c) ==
    /\ at[c] = "persist" /\ todo[c] # <<>>
    /\ PickDone(c) /\ Fail(c)
    /\ UNCHANGED <<rows, got, mishaps>>

\* DB_WRITE_FAILED although the row was committed: the reply was lost
PersistReplyLost(c) ==
    LET new == Row(Tf(c), Head(todo[c])) IN
    /\ "db_reply" \in Faults
    /\ at[c] = "persist" /\ todo[c] # <<>>
    /\ rows' = rows \union {new}
    /\ ~ \E r \in rows : r.tf = new.tf /\ r.coin = new.coin /\ r.venue = new.venue
    /\ mishaps' = mishaps \union {"db"}
    /\ PickDone(c) /\ Fail(c)
    /\ UNCHANGED got

\* the set is sent but not kept
Save_Forgotten(c) ==
    /\ at[c] = "persist" /\ todo[c] = <<>>
    /\ Have(c, got[c])
    /\ scanned' = [scanned EXCEPT ![c] = TRUE]
    /\ got' = [got EXCEPT ![c] = {}]
    /\ UNCHANGED <<ledger, day, books, posted, todo, history>>

\* _kv_set of the set; the call may go on with a later one that is saved
Save(c) ==
    /\ at[c] = "persist" /\ todo[c] = <<>>
    /\ saved' = [saved EXCEPT ![Tf(c)] = got[c]]
    /\ Have(c, got[c])
    /\ scanned' = [scanned EXCEPT ![c] = TRUE]
    /\ got' = [got EXCEPT ![c] = {}]
    /\ UNCHANGED <<ledger, day, rows, local, posted, todo, history>>

\* ... into the instance's file, where no other instance sees it
SaveFile(c) ==
    /\ at[c] = "persist" /\ todo[c] = <<>> /\ "kv_down" \in Faults
    /\ local' = [local EXCEPT ![c][Tf(c)] = got[c]]
    /\ mishaps' = mishaps \union {"kv"}
    /\ Fail(c)
    /\ Have(c, got[c])
    /\ scanned' = [scanned EXCEPT ![c] = TRUE]
    /\ got' = [got EXCEPT ![c] = {}]
    /\ UNCHANGED <<ledger, day, rows, saved, posted, todo>>

-----------------------------------------------------------------------------
(* _dispatch_once for the post, then for the tweet.                        *)

Claim(c, ch) == Ledger!ClaimShared(c, ch)

\* _file_claim and release write the file with the claims alone: the values
\* kept in it are gone
FileRewritten(c) == local' = IF file' = file THEN local ELSE [local EXCEPT ![c] = NoSets]

\* claimed in the instance's file, when the command raised
ClaimFromFile(c, ch) == Ledger!ClaimFile(c, ch) \/ Ledger!ClaimNoFile(c, ch)

\* the message goes out without a claim
Dispatch_Unclaimed(c, ch) ==
    /\ at[c] = ch /\ pc[c] = "idle"
    /\ pc' = [pc EXCEPT ![c] = "act"] /\ job' = [job EXCEPT ![c] = ch]
    /\ UNCHANGED <<redis, file, effect, suffered, day, books, posted, at, locals, history>>

Dispatch(c, ch) ==
    /\ at[c] = ch /\ pc[c] = "idle"
    /\ Claim(c, ch)
    /\ UNCHANGED <<day, books, posted, at, locals, history>>

DispatchFromFile(c, ch) ==
    /\ at[c] = ch /\ pc[c] = "idle"
    /\ ClaimFromFile(c, ch)
    /\ FileRewritten(c)
    /\ Fail(c)
    /\ UNCHANGED <<day, rows, saved, posted, at, locals, mishaps>>

\* "skipped (already sent for this slot)"
DispatchSkipped(c, ch) ==
    /\ at[c] = ch /\ pc[c] = "idle"
    /\ \/ ch \in redis /\ effect[ch] > 0 /\ Leave(c)
       \/ ch \in redis /\ effect[ch] = 0 /\ End(c) /\ Spoil(c) /\ UNCHANGED failures
       \/ /\ "kv_down" \in Faults \/ ("kv_reply" \in Faults /\ ch \in redis)
          /\ ch \in file[c] /\ End(c) /\ Fail(c)
    /\ UNCHANGED <<ledger, day, books, posted, mishaps>>

\* the same answer, although Redis took the key just now and its reply was lost
DispatchRefused(c, ch) ==
    /\ at[c] = ch /\ pc[c] = "idle"
    /\ Ledger!ClaimRefused(c, ch)
    /\ End(c) /\ Fail(c)
    /\ UNCHANGED <<day, books, posted, mishaps>>

\* _close_send reached the channel; the tweet is this call's to send
PostSent(c) ==
    /\ at[c] = "post"
    /\ Ledger!ActSucceeds(c)
    /\ posted' = sets[c]
    /\ Goto(c, "tweet")
    /\ UNCHANGED <<day, books, locals, history>>

\* the send failed, or its answer was lost after it had taken effect
PostFails(c) ==
    /\ at[c] = "post"
    /\ Ledger!ActFails(c)
    /\ posted' = IF effect' = effect THEN posted ELSE sets[c]
    /\ Fail(c)
    /\ UNCHANGED <<day, books, at, locals, mishaps>>

TweetSent(c) ==
    /\ at[c] = "tweet"
    /\ Ledger!ActSucceeds(c)
    /\ Leave(c)
    /\ UNCHANGED <<day, books, posted, mishaps>>

TweetFails(c) ==
    /\ at[c] = "tweet"
    /\ Ledger!ActFails(c)
    /\ Fail(c)
    /\ UNCHANGED <<day, books, posted, at, locals, mishaps>>

\* release: through Redis, or in the file, which it rewrites like a claim
GiveBack(c) ==
    /\ Ledger!GiveBack(c)
    /\ FileRewritten(c)
    /\ Leave(c)
    /\ UNCHANGED <<day, rows, saved, posted, mishaps>>

-----------------------------------------------------------------------------
(* The environment.                                                        *)

\* the exchanges begin to serve the candle of timeframe tf
Serve(tf) ==
    /\ tf \notin fresh
    /\ fresh' = fresh \union {tf}
    /\ UNCHANGED <<ledger, calls, books, posted, at, locals, history>>

\* the platform stops a call (60 s); the scheduler sees a timeout
Stop(c) ==
    /\ Running(c)
    /\ Ledger!Crash(c)
    /\ \/ file' = file /\ local' = local
       \/ file'[c] = {} /\ local' = [local EXCEPT ![c] = NoSets]
    /\ mishaps' = IF at[c] = "persist" THEN mishaps \union {"cut"} ELSE mishaps
    /\ End(c)
    /\ Fail(c)
    /\ UNCHANGED <<day, rows, saved, posted>>

Read(c) == LoadHit(c) \/ LoadMiss(c) \/ LoadFile(c)

Compute(c) ==
    \/ ScanTooEarly(c) \/ Scan(c)
    \/ Persist(c) \/ PersistFails(c) \/ PersistReplyLost(c)
    \/ Save(c) \/ SaveFile(c)

Send(c) == PostSent(c) \/ PostFails(c) \/ TweetSent(c) \/ TweetFails(c) \/ GiveBack(c)

Next ==
    \/ \E c \in Calls : Begin(c) \/ Read(c) \/ Compute(c) \/ Send(c) \/ Stop(c)
    \/ \E c \in Calls, ch \in Channels :
          \/ Dispatch(c, ch) \/ DispatchFromFile(c, ch)
          \/ DispatchSkipped(c, ch) \/ DispatchRefused(c, ch)
    \/ \E tf \in Tfs : Serve(tf)

Spec == Init /\ [][Next]_vars

-----------------------------------------------------------------------------
\* neither the KV nor an answer of the outside failed: ClaimLedger's Sound
Sound == Ledger!Sound /\ "kv" \notin mishaps

Scanning(c) == at[c] \in {"scan", "persist"}

(* The record, the kept sets (/api/closes: "what the post was built from") *)
(* and the post show the same picks, with the same direction and venue, as *)
(* long as no call was stopped while it recorded, no second call scanned   *)
(* the same close beside it, and the KV and the database answered.         *)
RowsAreThePost ==
    posted # <<>> /\ mishaps = {} =>
        \A i \in DOMAIN Due :
            /\ saved[Due[i]] = posted[i]
            /\ {r \in rows : r.tf = Due[i]} = {Row(Due[i], p) : p \in posted[i]}

(* Whatever fails or overlaps, no pick is posted that the tracker does not *)
(* have: "refuse to publish a signal that was not recorded" (README).      *)
PostedIsRecorded ==
    \A i \in DOMAIN posted : \A p \in posted[i] :
        \E r \in rows : r.tf = Due[i] /\ r.coin = p.coin /\ r.venue = p.venue

(* One scan per call is enough: after as many good calls as there are      *)
(* closes due (all candles served, nobody beside it, no failure, no claim  *)
(* left by a call that was stopped while sending or that did not learn it  *)
(* had won) the post is out.                                               *)
DeliveredAfterGoodCalls == good = Len(Due) => effect["post"] > 0

(* "Every job is safe to repeat" (worker.js): once the post is out no     *)
(* retry, no later slot and no call by hand scans a close again, let alone *)
(* posts again.                                                            *)
RepeatsChangeNothing ==
    [][(effect["post"] > 0 /\ Sound')
        => /\ effect'["post"] = effect["post"]
           /\ \A c \in Calls : Scanning(c)' => Scanning(c)]_vars

(* Both messages go through the claim ledger: the calls are its workers    *)
(* and every step is one of its steps or none of them.                     *)
ImplementsClaimLedger == Ledger!Spec
=============================================================================
