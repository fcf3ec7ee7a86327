----------------------------- MODULE Scheduler ------------------------------
(***************************************************************************)
(* cloudflare/hl-manage-worker/worker.js: the minute decides which jobs    *)
(* run, a job is tried again after some answers, and a job that failed may *)
(* alert the owner.                                                        *)
(*                                                                         *)
(* A minute is a number of minutes since a Sunday 00:00 UTC; an answer is  *)
(* a record with the fields status (0 for none), ok (the body's verdict)   *)
(* and benign (its code says the feature is off).                          *)
(***************************************************************************)
EXTENDS Integers, Sequences, FiniteSets

Day(t) == (t \div 1440) % 7
Hour(t) == (t \div 60) % 24
Min60(t) == t % 60

DEFAULT_RETRY_ON == {0, 500, 502, 504}
CLOSE_MINUTES == {3, 8, 13, 18, 23, 28, 38, 48}
ML == {"ml-collect", "ml-label"}
JobNames == {"manage", "monitor", "scalp", "close", "patterns", "tao-snapshot",
             "etf-snapshot", "market-snapshot", "weekly-report"} \union ML

\* JOBS: when a job is due
Due(job, t) ==
    LET h == Hour(t)
        m == Min60(t)
    IN  CASE job = "manage" -> TRUE
          [] job = "monitor" -> m \in {5, 35}
          [] job = "scalp" -> m % 15 = 1
          [] job = "close" -> h = 0 /\ m \in CLOSE_MINUTES
          [] job = "patterns" -> h = 0 /\ m = 15
          [] job = "tao-snapshot" -> h = 0 /\ m = 20
          [] job \in {"etf-snapshot", "market-snapshot"} -> h = 1 /\ m = 30
          [] job = "ml-collect" -> h % 2 = 0 /\ m = 10
          [] job = "ml-label" -> h % 2 = 1 /\ m = 15
          [] job = "weekly-report" -> Day(t) = 0 /\ h = 6 /\ m = 17
DueJobs(t) == {job \in JobNames : Due(job, t)}

Retries(job) ==
    CASE job \in {"manage", "monitor", "scalp"} -> 0
      [] job \in {"close", "patterns", "tao-snapshot"} -> 1
      [] OTHER -> 2
RetryOn(job) == IF job \in ML THEN {0, 429, 502, 504} ELSE DEFAULT_RETRY_ON

\* seconds: what one call may take, and the wait after an attempt
Timeout(job) == IF job = "manage" THEN 50 ELSE 75
Wait(job, attempt) == IF job \in ML THEN 10 * attempt ELSE 20

\* runJob: answers[n] is what the n-th attempt gets
NoToken == [status |-> -1, ok |-> TRUE, benign |-> FALSE, attempts |-> 0]
RunJob(job, configured, answers) ==
    LET Stops(n) == answers[n].status \notin RetryOn(job) \/ n > Retries(job)
        last == CHOOSE n \in DOMAIN answers : Stops(n) /\ \A k \in 1..(n - 1) : ~Stops(k)
    IN  IF ~configured THEN NoToken
        ELSE [status |-> answers[last].status, ok |-> answers[last].ok,
              benign |-> answers[last].benign, attempts |-> last]

\* the longest a run may take
Longest(job) ==
    LET Until[n \in 0..Retries(job)] ==
            IF n = 0 THEN Timeout(job) ELSE Until[n - 1] + Wait(job, n) + Timeout(job)
    IN  Until[Retries(job)]

\* failed, and alertFor with its throttle
Failed(r) ==
    \/ r = NoToken
    \/ r.status = 200 /\ ~r.ok
    \/ r.status # 200 /\ ~r.benign
MayAlert(job, t) ==
    CASE job = "manage" -> Min60(t) % 30 = 0
      [] job = "close" -> Min60(t) = 48
      [] job = "monitor" -> Min60(t) = 35
      [] job = "scalp" -> Min60(t) = 1
      [] OTHER -> TRUE
Alerts(job, r, t) == Failed(r) /\ MayAlert(job, t)
=============================================================================
