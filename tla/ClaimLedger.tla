----------------------------- MODULE ClaimLedger ----------------------------
(***************************************************************************)
(* backend/kv.py as its callers use it: claim BEFORE act, release when the *)
(* act fails.  One worker is one serverless instance; it shares the Redis  *)
(* store with the others and has a dedup file of its own, which claim and  *)
(* release fall back to when a Redis command raises.                       *)
(***************************************************************************)
EXTENDS Naturals, FiniteSets

CONSTANTS
    Workers,
    Keys,
    Faults,      \* the faults the environment may commit, a subset of AllFaults
    MaxEffect    \* bound on how often one key's act may take effect

\* kv_down: a Redis command is not executed and raises (or no KV is configured)
\* kv_reply: a Redis command is executed and its reply is lost
\* disk: the file cannot be written (a read-only serverless filesystem)
\* act_reply: the act takes effect and its caller sees an exception
\* expiry: the TTL of a claimed key passes
\* crash: an instance is stopped between two of its steps
AllFaults == {"kv_down", "kv_reply", "disk", "act_reply", "expiry", "crash"}

ASSUME ClaimLedgerAssumption ==
    /\ Faults \subseteq AllFaults
    /\ MaxEffect \in Nat \ {0}

VARIABLES
    redis,      \* the keys claimed in the shared store
    file,       \* file[w]: the keys in worker w's dedup file
    pc,         \* pc[w]: "idle", "act" (claim won) or "release" (act failed)
    job,        \* job[w]: the key worker w is working on
    effect,     \* effect[k]: how often key k's act took effect
    suffered    \* history: the faults that have happened so far

ledger == <<redis, file>>
worker == <<pc, job>>
vars == <<ledger, worker, effect, suffered>>

Steps == {"idle", "act", "release"}

TypeOK ==
    /\ redis \subseteq Keys
    /\ file \in [Workers -> SUBSET Keys]
    /\ pc \in [Workers -> Steps]
    /\ job \in [Workers -> Keys]
    /\ effect \in [Keys -> 0..MaxEffect]
    /\ suffered \subseteq Faults

Init ==
    /\ redis = {}
    /\ file = [w \in Workers |-> {}]
    /\ pc = [w \in Workers |-> "idle"]
    /\ job \in [Workers -> Keys]
    /\ effect = [k \in Keys |-> 0]
    /\ suffered = {}

\* fault happens in this step
Suffer(fault) == fault \in Faults /\ suffered' = suffered \union {fault}

\* two faults happen in this step
SufferBoth(one, other) ==
    {one, other} \subseteq Faults /\ suffered' = suffered \union {one, other}

Goto(w, step) == pc' = [pc EXCEPT ![w] = step]

-----------------------------------------------------------------------------
(* claim(key).  A lost race returns False and changes nothing, so only the *)
(* calls that win are steps, and the one lost call that leaves a mark.     *)

Won(w, k) == Goto(w, "act") /\ job' = [job EXCEPT ![w] = k]

\* a SET without NX: every caller wins
ClaimShared_NoNX(w, k) ==
    /\ pc[w] = "idle"
    /\ redis' = redis \union {k}
    /\ Won(w, k)
    /\ UNCHANGED <<file, effect, suffered>>

ClaimShared(w, k) ==
    /\ pc[w] = "idle" /\ k \notin redis
    /\ redis' = redis \union {k}
    /\ Won(w, k)
    /\ UNCHANGED <<file, effect, suffered>>

\* the fallback file is written and never looked at
ClaimFile_NoCheck(w, k) ==
    /\ pc[w] = "idle"
    /\ Suffer("kv_down")
    /\ file' = [file EXCEPT ![w] = @ \union {k}]
    /\ Won(w, k)
    /\ UNCHANGED <<redis, effect>>

\* _file_claim: the command raised before or after Redis executed it
ClaimFile(w, k) ==
    /\ pc[w] = "idle" /\ k \notin file[w]
    /\ \/ Suffer("kv_down") /\ redis' = redis
       \/ Suffer("kv_reply") /\ redis' = redis \union {k}
    /\ file' = [file EXCEPT ![w] = @ \union {k}]
    /\ Won(w, k)
    /\ UNCHANGED effect

\* _file_claim on a filesystem that cannot be written: it still returns True
ClaimNoFile(w, k) ==
    /\ pc[w] = "idle" /\ k \notin file[w]
    /\ \/ SufferBoth("kv_down", "disk") /\ redis' = redis
       \/ SufferBoth("kv_reply", "disk") /\ redis' = redis \union {k}
    /\ Won(w, k)
    /\ UNCHANGED <<file, effect>>

\* SET was executed and its reply lost, and _file_claim finds the key in the
\* file, where an earlier claim left it: claim answers False, the caller skips
\* the act, and Redis keeps a key that nobody will release
ClaimRefused(w, k) ==
    /\ pc[w] = "idle" /\ k \in file[w] \ redis
    /\ Suffer("kv_reply")
    /\ redis' = redis \union {k}
    /\ UNCHANGED <<file, worker, effect>>

Claim(w, k) == ClaimShared(w, k) \/ ClaimFile(w, k) \/ ClaimNoFile(w, k) \/ ClaimRefused(w, k)

-----------------------------------------------------------------------------
(* The act: a message or an order sent to an outside service.  A failure   *)
(* is an exception or a falsy result; either leads to release.             *)

\* the claim is given back whether or not the send worked
ActSucceeds_Releases(w) ==
    /\ pc[w] = "act" /\ effect[job[w]] < MaxEffect
    /\ effect' = [effect EXCEPT ![job[w]] = @ + 1]
    /\ Goto(w, "idle")
    /\ redis' = redis \ {job[w]}
    /\ UNCHANGED <<file, job, suffered>>

ActSucceeds(w) ==
    /\ pc[w] = "act" /\ effect[job[w]] < MaxEffect
    /\ effect' = [effect EXCEPT ![job[w]] = @ + 1]
    /\ Goto(w, "idle")
    /\ UNCHANGED <<ledger, job, suffered>>

\* the failure path returns without releasing the claim
ActFails_KeepsClaim(w) ==
    /\ pc[w] = "act" /\ effect[job[w]] < MaxEffect
    /\ Goto(w, "idle")
    /\ UNCHANGED <<ledger, job, effect, suffered>>

ActFails(w) ==
    /\ pc[w] = "act" /\ effect[job[w]] < MaxEffect
    /\ \/ UNCHANGED <<effect, suffered>>
       \/ Suffer("act_reply") /\ effect' = [effect EXCEPT ![job[w]] = @ + 1]
    /\ Goto(w, "release")
    /\ UNCHANGED <<ledger, job>>

-----------------------------------------------------------------------------
(* release(key): DEL, or the file when the command raised.                 *)

ReleaseShared(w) ==
    /\ pc[w] = "release"
    /\ redis' = redis \ {job[w]}
    /\ Goto(w, "idle")
    /\ UNCHANGED <<file, job, effect, suffered>>

ReleaseFile(w) ==
    /\ pc[w] = "release"
    /\ \/ Suffer("kv_down") /\ redis' = redis
       \/ Suffer("kv_reply") /\ redis' = redis \ {job[w]}
    /\ file' = [file EXCEPT ![w] = @ \ {job[w]}]
    /\ Goto(w, "idle")
    /\ UNCHANGED <<job, effect>>

\* the file cannot be written either, so a key in it stays
ReleaseNoFile(w) ==
    /\ pc[w] = "release"
    /\ \/ SufferBoth("kv_down", "disk") /\ redis' = redis
       \/ SufferBoth("kv_reply", "disk") /\ redis' = redis \ {job[w]}
    /\ Goto(w, "idle")
    /\ UNCHANGED <<file, job, effect>>

-----------------------------------------------------------------------------
(* The environment.                                                        *)

Expire(k) ==
    /\ Suffer("expiry")
    /\ k \in redis
    /\ redis' = redis \ {k}
    /\ UNCHANGED <<file, worker, effect>>

\* the platform stops an instance, busy or not; its successor may start on
\* a fresh disk
Crash(w) ==
    /\ Suffer("crash")
    /\ Goto(w, "idle")
    /\ file' \in {file, [file EXCEPT ![w] = {}]}
    /\ UNCHANGED <<redis, job, effect>>

Perform(w) == ActSucceeds(w) \/ ActFails(w)

GiveBack(w) == ReleaseShared(w) \/ ReleaseFile(w) \/ ReleaseNoFile(w)

Next ==
    \/ \E w \in Workers, k \in Keys : Claim(w, k)
    \/ \E w \in Workers : Perform(w) \/ GiveBack(w) \/ Crash(w)
    \/ \E k \in Keys : Expire(k)

Spec == Init /\ [][Next]_vars

\* an invocation that is not stopped runs to its end
FairSpec == Spec /\ \A w \in Workers : WF_vars(Perform(w)) /\ WF_vars(GiveBack(w))

-----------------------------------------------------------------------------
\* only faults that the callers' comments allow for have happened
Sound == suffered \subseteq {"crash"}

(* No cause has its effect twice, over any number of instances, retries    *)
(* and crashes, as long as Redis answered and no reply was lost (kv.claim, *)
(* app._dispatch_once, ops_alerts.send).                                   *)
AtMostOnce == Sound => \A k \in Keys : effect[k] <= 1

(* A key whose effect happened stays claimed, so no later invocation can   *)
(* win it again; and a worker between claim and release owns its key: no   *)
(* other worker is acting on it.                                           *)
ClaimGuardsEffect ==
    Sound =>
      /\ \A k \in Keys : effect[k] > 0 => k \in redis
      /\ \A v, w \in Workers :
            pc[v] # "idle" /\ pc[w] # "idle" /\ job[v] = job[w] => v = w

(* While Redis is unreachable for some commands every instance answers     *)
(* from its own file, so a key can take effect once per store: at most     *)
(* once through Redis and once more for every instance, also when a        *)
(* release reaches Redis for a claim that was won from the file.           *)
DegradedBound ==
    suffered \subseteq {"kv_down"} => \A k \in Keys : effect[k] <= 1 + Cardinality(Workers)

Once == INSTANCE OncePerKey

(* Until Redis or a reply fails, the protocol implements "at most once per *)
(* cause, never undone": every step is one of OncePerKey or no effect.     *)
ImplementsOncePerKey == Once!Init /\ [][Sound' => Once!Next]_effect

\* key k is claimed in Redis, nobody has it in hand, and a reply was lost for a
\* key that an instance's file already held: what ClaimRefused leaves behind
Orphan(k) ==
    /\ "kv_reply" \in suffered
    /\ k \in redis /\ \E w \in Workers : k \in file[w]
    /\ \A w \in Workers : job[w] = k => pc[w] = "idle"

(* A failed act is not a permanent one: a key that is claimed but has had  *)
(* no effect is eventually sent or given back for a retry (the release     *)
(* docstring of kv.py and of app._dispatch_once), unless the KV was down,  *)
(* the instance stopped, or a claim was executed, its reply lost and the   *)
(* key found in the instance's file: then the cause is lost in silence.    *)
FailureIsRetriable ==
    \A k \in Keys : (k \in redis /\ effect[k] = 0) ~>
        \/ k \notin redis \/ effect[k] > 0
        \/ suffered \intersect {"kv_down", "crash"} # {}
        \/ Orphan(k)
=============================================================================
