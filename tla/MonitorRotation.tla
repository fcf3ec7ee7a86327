--------------------------- MODULE MonitorRotation ---------------------------
(***************************************************************************)
(* A monitor run over many signals (signal_monitor.run_monitor): the       *)
(* stalest first, candles fetched for all, then one signal after the other *)
(* on one database session within a time budget.  What a single signal     *)
(* goes through is in SignalMonitor; here a signal is quiet, shows a new   *)
(* extreme to measure, or an event that takes two actions to record.       *)
(***************************************************************************)
EXTENDS Naturals, FiniteSets, Sequences, SequencesExt

CONSTANTS
    Signals,
    MonitorRuns,
    Limits,      \* how many signals a run lists, as it is asked to
    MaxFailures  \* bound: fetches, statements and runs that fail

ASSUME RotationAssumption ==
    Limits \subseteq Nat \ {0} /\ MaxFailures \in Nat

VARIABLES
    queue,      \* the working signals by updated_at, the stalest first
    news,       \* news[s]: what the market has that the row does not show
    half,       \* the signals whose row shows the first action alone
    step,       \* step[r]: where run r is
    todo,       \* todo[r]: the listed signals it has still to visit
    got,        \* got[r]: what the candles it fetched say
    held,       \* held[r]: the rows its open transaction has written
    acted,      \* acted[r]: how many actions of the signal it is at
    aborted,    \* aborted[r]: a statement failed, the transaction is dead
    finished,   \* history: finished[r], the signals reported as recorded
    failures

rows == <<queue, news, half>>
runVars == <<step, todo, got, held, acted, aborted, finished>>
rotationVars == <<rows, runVars, failures>>

Market == {"quiet", "extreme", "event"}
\* "none" is nothing to write or no market data, "old" is an event that
\* another run has recorded since
Seen == {"none", "extreme", "event", "old"}

RotationTypeOK ==
    /\ queue \in Seq(Signals) /\ IsInjective(queue)
    /\ news \in [Signals -> Market] /\ half \subseteq Signals
    /\ step \in [MonitorRuns -> {"idle", "fetch", "walk", "second", "commit"}]
    /\ todo \in [MonitorRuns -> Seq(Signals)] /\ got \in [MonitorRuns -> [Signals -> Seen]]
    /\ held \in [MonitorRuns -> SUBSET Signals] /\ acted \in [MonitorRuns -> 0..2]
    /\ aborted \in [MonitorRuns -> BOOLEAN] /\ finished \in [MonitorRuns -> SUBSET Signals]
    /\ failures \in 0..MaxFailures
    /\ \A s \in Signals : Cardinality({r \in MonitorRuns : s \in held[r]}) <= 1
    /\ \A r \in MonitorRuns : step[r] \in {"idle", "fetch"} => held[r] = {} /\ ~aborted[r]

Nothing == [s \in Signals |-> "none"]

RotationInit ==
    /\ queue = <<>> /\ half = {} /\ news = [s \in Signals |-> "quiet"]
    /\ step = [r \in MonitorRuns |-> "idle"] /\ todo = [r \in MonitorRuns |-> <<>>]
    /\ got = [r \in MonitorRuns |-> Nothing] 
    /\ held = [r \in MonitorRuns |-> {}] /\ acted = [r \in MonitorRuns |-> 0]
    /\ aborted = [r \in MonitorRuns |-> FALSE] /\ finished = [r \in MonitorRuns |-> {}]
    /\ failures = 0

Queued == ToSet(queue)
Turn(r, s) == step' = [step EXCEPT ![r] = s]
Free(r, s) == \A u \in MonitorRuns \ {r} : s \notin held[u]

\* run r goes on with the signals of rest
Visit(r, rest) ==
    /\ todo' = [todo EXCEPT ![r] = rest]
    /\ got' = [got EXCEPT ![r] = [s \in Signals |-> IF s \in ToSet(rest) THEN @[s] ELSE "none"]]

\* the signals after this one, or none: the time budget is spent
Rests(r) == {Tail(todo[r]), <<>>}

MayFail == failures < MaxFailures /\ failures' = failures + 1

\* the run is over and its variables are gone
RunOver(r) ==
    /\ Turn(r, "idle")
    /\ todo' = [todo EXCEPT ![r] = <<>>] /\ held' = [held EXCEPT ![r] = {}]
    /\ acted' = [acted EXCEPT ![r] = 0]
    /\ aborted' = [aborted EXCEPT ![r] = FALSE]
    /\ finished' = [finished EXCEPT ![r] = {}]

-----------------------------------------------------------------------------
(* The market, and the signals that are published.                         *)

Publish(s) ==
    /\ s \notin Queued
    /\ queue' = Append(queue, s)
    /\ UNCHANGED <<news, half, runVars, failures>>

\* the price runs further than it did
Extreme(s) ==
    /\ s \in Queued /\ news[s] = "quiet"
    /\ news' = [news EXCEPT ![s] = "extreme"]
    /\ UNCHANGED <<queue, half, runVars, failures>>

\* a fill, a target, the stop or the end of a window
Event(s) ==
    /\ s \in Queued /\ news[s] # "event"
    /\ news' = [news EXCEPT ![s] = "event"]
    /\ UNCHANGED <<queue, half, runVars, failures>>

-----------------------------------------------------------------------------
(* run_monitor up to its loop.                                             *)

\* the newest first
Listed_Newest == Reverse(queue)

\* ORDER BY updated_at
Listed == queue

ListStalest(r) ==
    /\ step[r] = "idle"
    /\ Turn(r, "fetch")
    /\ \E n \in Limits :
         todo' = [todo EXCEPT ![r] = SubSeq(Listed, 1, IF Len(queue) < n THEN Len(queue) ELSE n)]
    /\ UNCHANGED <<rows, got, held, acted, aborted, finished, failures>>

\* the candles of the signals in S have come
Answered(r, S) == [s \in Signals |-> IF s \in S /\ news[s] # "quiet" THEN news[s] ELSE "none"]

FetchAll(r) ==
    /\ step[r] = "fetch"
    /\ got' = [got EXCEPT ![r] = Answered(r, ToSet(todo[r]))]
    /\ Turn(r, "walk")
    /\ UNCHANGED <<rows, todo, held, acted, aborted, finished, failures>>

\* some answers are missing
FetchShort(r) ==
    /\ step[r] = "fetch" /\ MayFail
    /\ \E S \in SUBSET ToSet(todo[r]) : got' = [got EXCEPT ![r] = Answered(r, S)]
    /\ Turn(r, "walk")
    /\ UNCHANGED <<rows, todo, held, acted, aborted, finished>>

\* the answers are waited for until the budget is spent
FetchLate(r) ==
    /\ step[r] = "fetch" /\ MayFail
    /\ todo' = [todo EXCEPT ![r] = <<>>]
    /\ Turn(r, "walk")
    /\ UNCHANGED <<rows, got, held, acted, aborted, finished>>

-----------------------------------------------------------------------------
(* One signal of the loop.                                                 *)

\* run r is at signal s
At(r, s) == step[r] = "walk" /\ todo[r] # <<>> /\ s = Head(todo[r])

\* there is no market data, or nothing to do
Pass(r) ==
    /\ \E s \in Signals : At(r, s) /\ got[r][s] = "none"
    /\ \E rest \in Rests(r) : Visit(r, rest)
    /\ UNCHANGED <<rows, step, held, acted, aborted, finished, failures>>

\* _record_excursion: nothing commits what only it has written
Measure(r, s) ==
    /\ At(r, s) /\ got[r][s] = "extreme" /\ ~aborted[r] /\ Free(r, s)
    /\ held' = [held EXCEPT ![r] = @ \union {s}]
    /\ \E rest \in Rests(r) : Visit(r, rest)
    /\ UNCHANGED <<rows, step, acted, aborted, finished, failures>>

\* apply_actions, the first action: it locks the row and reads it again
Act(r, s) ==
    /\ At(r, s) /\ got[r][s] \in {"event", "old"} /\ ~aborted[r] /\ Free(r, s)
    /\ held' = [held EXCEPT ![r] = @ \union (IF got[r][s] = "event" THEN {s} ELSE {})]
    /\ acted' = [acted EXCEPT ![r] = IF got[r][s] = "event" THEN 1 ELSE 0]
    /\ Turn(r, IF got[r][s] = "event" THEN "second" ELSE "commit")
    /\ UNCHANGED <<rows, todo, got, aborted, finished, failures>>

ActAgain(r) ==
    /\ step[r] = "second"
    /\ acted' = [acted EXCEPT ![r] = 2]
    /\ Turn(r, "commit")
    /\ UNCHANGED <<rows, todo, got, held, aborted, finished, failures>>

\* every store call has a session of its own: only the failed one is undone
Undo_OneCall(r) ==
    /\ UNCHANGED <<held, acted, aborted>>
    /\ IF step[r] = "walk" /\ got[r][Head(todo[r])] = "extreme"
         THEN UNCHANGED step /\ \E rest \in Rests(r) : Visit(r, rest)
         ELSE Turn(r, "commit") /\ UNCHANGED <<todo, got>>
    /\ UNCHANGED <<rows, finished>>

\* a statement fails and everything the transaction has written is undone
Undo(r) ==
    /\ held' = [held EXCEPT ![r] = {}] /\ acted' = [acted EXCEPT ![r] = 0]
    /\ aborted' = [aborted EXCEPT ![r] = TRUE]
    /\ IF step[r] = "walk" /\ got[r][Head(todo[r])] = "extreme"
         THEN UNCHANGED step /\ \E rest \in Rests(r) : Visit(r, rest)
         ELSE Turn(r, "commit") /\ UNCHANGED <<todo, got>>
    /\ UNCHANGED <<rows, finished>>

Writes(r) ==
    \/ step[r] = "second"
    \/ \E s \in Signals : At(r, s) /\ got[r][s] \in {"extreme", "event", "old"}

Fails(r) == Writes(r) /\ ~aborted[r] /\ MayFail /\ Undo(r)

\* in a dead transaction every statement fails
FailsAgain(r) == Writes(r) /\ aborted[r] /\ Undo(r) /\ UNCHANGED failures

WaitsFor(r, u) == \E s \in held[u] : At(r, s) /\ got[r][s] \in {"extreme", "event", "old"}

\* two runs wait for each other and the database ends one of them
Victim(r) ==
    /\ \E u \in MonitorRuns \ {r} : WaitsFor(r, u) /\ WaitsFor(u, r)
    /\ Undo(r) /\ UNCHANGED failures

\* the signal whose actions are all in the transaction of r
Done(r) == {s \in held[r] : acted[r] = 2 /\ s = Head(todo[r])}

\* Only(q, S)[n]: of the first n members of q those in S, in their order
Only(q, S) ==
    LET f[n \in 0..Len(q)] ==
            IF n = 0 THEN <<>> ELSE IF q[n] \in S THEN Append(f[n - 1], q[n]) ELSE f[n - 1]
    IN  f
InS(q, S) == Only(q, S)[Len(q)]

\* what the transaction of r has written takes effect
TakeEffect(r) ==
    \E ended \in SUBSET Done(r) :
        /\ queue' = InS(queue, Queued \ held[r]) \o InS(queue, held[r] \ ended)
        /\ news' = [s \in Signals |->
             IF s \in Done(r) \/ (s \in held[r] /\ news[s] = "extreme") THEN "quiet" ELSE news[s]]
        /\ half' = half \union {s \in held[r] : acted[r] = 1 /\ s = Head(todo[r])}

\* after the actions of a signal: the run goes on, and what others have
\* fetched of an event that is now recorded is old
GoOn(r, recorded) ==
    /\ acted' = [acted EXCEPT ![r] = 0]
    /\ finished' = [finished EXCEPT ![r] = @ \union (IF acted[r] = 2 THEN {Head(todo[r])} ELSE {})]
    /\ \E rest \in Rests(r) :
        /\ todo' = [todo EXCEPT ![r] = rest]
        /\ got' = [u \in MonitorRuns |-> [s \in Signals |->
             IF u = r /\ s \notin ToSet(rest) THEN "none"
             ELSE IF u # r /\ s \in recorded /\ got[u][s] = "event" THEN "old" ELSE got[u][s]]]
    /\ Turn(r, "walk")

\* session.commit(); of a dead transaction it is a rollback
CommitSignal(r) ==
    /\ step[r] = "commit"
    /\ IF aborted[r] THEN UNCHANGED rows ELSE TakeEffect(r)
    /\ held' = [held EXCEPT ![r] = {}]
    /\ aborted' = [aborted EXCEPT ![r] = FALSE]
    /\ GoOn(r, Done(r))
    /\ UNCHANGED failures

\* the session's own commit
Finish(r) ==
    /\ step[r] = "walk" /\ todo[r] = <<>>
    /\ IF aborted[r] THEN UNCHANGED rows ELSE TakeEffect(r)
    /\ RunOver(r)
    /\ UNCHANGED <<got, failures>>

\* the platform stops the run; the database rolls back
Crash(r) ==
    /\ step[r] # "idle" /\ MayFail
    /\ RunOver(r)
    /\ got' = [got EXCEPT ![r] = Nothing]
    /\ UNCHANGED rows

RunStep(r) ==
    \/ ListStalest(r) \/ FetchAll(r) \/ Pass(r) \/ ActAgain(r) \/ CommitSignal(r) \/ Finish(r)
    \/ FailsAgain(r) \/ Victim(r)
    \/ \E s \in Signals : Measure(r, s) \/ Act(r, s)

RotationNext ==
    \/ \E r \in MonitorRuns : RunStep(r) \/ FetchShort(r) \/ FetchLate(r) \/ Fails(r) \/ Crash(r)
    \/ \E s \in Signals : Publish(s) \/ Extreme(s) \/ Event(s)

RotationSpec == RotationInit /\ [][RotationNext]_rotationVars

(* The scheduler calls the monitor for ever, a run ends within the         *)
(* platform's limit, row locks are given in turn, and time brings every    *)
(* signal to the end of its window.                                        *)
RotationFairness ==
    /\ \A r \in MonitorRuns : SF_rotationVars(RunStep(r))
    /\ \A s \in Signals : WF_rotationVars(Event(s))

FairRotation == RotationSpec /\ RotationFairness

-----------------------------------------------------------------------------
(* No committed row shows one of a decision's two actions without the other. *)
NoHalfSignal == half = {}

(* "A truncated run must leave every signal it finished durably recorded": *)
(* what a run has done with is in no transaction that is still open.  It   *)
(* may have been undone, as a whole: the run reports it all the same.      *)
FinishedIsDurable == \A r \in MonitorRuns : finished[r] \intersect held[r] = {}

(* "Committing after each signal keeps the property that matters: a        *)
(* partial run's work is durable, and a failure never leaves half a        *)
(* signal's actions applied."                                              *)
WholeAndDurable == NoHalfSignal /\ FinishedIsDurable

(* "Truncation is a rotation, not a blind spot": although a run lists only *)
(* so many signals, stops when its time is spent and may lose a signal to  *)
(* a dead transaction, every event of every signal is recorded.            *)
EveryEventIsRecorded == \A s \in Signals : news[s] = "event" ~> news[s] # "event"
=============================================================================
