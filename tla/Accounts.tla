------------------------------ MODULE Accounts ------------------------------
(***************************************************************************)
(* Accounts and sessions (user_store.py, auth.py and their routes in       *)
(* app.py).  Requests run as transactions of a READ COMMITTED database:    *)
(* a statement sees what was committed when it began, FOR UPDATE waits for *)
(* the row and reads it again.  A request that waits in a circle is ended  *)
(* by the database.                                                        *)
(*                                                                         *)
(* Changes of role, status and existence take the locks of every enabled   *)
(* privileged account in the order of the ids and then that of the target; *)
(* changes of the password take the lock of their account alone.  The      *)
(* migrations 009 to 011 have run.                                         *)
(***************************************************************************)
EXTENDS Integers, FiniteSets

CONSTANTS
    Ids,        \* the accounts, ordered like their ids
    Txs,        \* requests that run at the same time
    Nobody,     \* no request holds the row
    Passwords,
    Watched,    \* bound: the accounts whose password and sessions change
    MaxVersion  \* bound: how often a password changes

ASSUME AccountsAssumption ==
    /\ Ids \subseteq Int /\ IsFiniteSet(Ids) /\ Watched \subseteq Ids
    /\ Nobody \notin Txs
    /\ MaxVersion \in Nat
    /\ Ids # {} /\ Passwords # {}

VARIABLES
    used,       \* the ids that have been given out
    live,       \* the accounts that have a row
    role,       \* role[i], of user, user_admin and admin
    enabled,    \* the accounts that are not disabled
    password,   \* password[i], what password_hash[i] was made of
    version,    \* version[i]: session_version
    lock,       \* lock[i]: the request that holds the row
    step,       \* step[t]: where request t is
    op,         \* op[t]: what it is to do
    todo,       \* todo[t]: the privileged rows it has still to lock
    found,      \* found[t]: the enabled privileged accounts it has counted
    known,      \* history: known[t], the current password request t has shown
    cookies,    \* the session cookies browsers hold
    shifted     \* history: who is privileged changed while a request was locking

accounts == <<used, live, role, enabled, password, version>>
requests == <<step, op, todo, found, known>>
vars == <<accounts, lock, requests, cookies, shifted>>

Roles == {"user", "user_admin", "admin"}
\* a guarded change (its kind matters only when it is decided), a password
\* reset by a manager, a password change by the user
Ops == [kind : {"guarded", "reset", "self"}, id : Ids]
Steps == {"idle", "start", "lock", "decide", "write"}
Cookies == [id : Ids, version : 0..MaxVersion, password : Passwords]

\* what a request that is idle is said to do
AnyOp == CHOOSE o \in Ops : TRUE
AnyPassword == CHOOSE p \in Passwords : TRUE

Privileged(i) == i \in live /\ i \in enabled /\ role[i] # "user"
Enabled(r) == {i \in live \intersect enabled : role[i] = r}

\* current_user: the row is there, enabled, and of the cookie's version
Valid(c) == c.id \in live /\ c.id \in enabled /\ c.version = version[c.id]

TypeOK ==
    /\ live \subseteq used /\ used \subseteq Ids /\ enabled \subseteq Ids
    /\ role \in [Ids -> Roles]
    /\ password \in [Ids -> Passwords] /\ version \in [Ids -> 0..MaxVersion]
    /\ lock \in [Ids -> Txs \union {Nobody}]
    /\ step \in [Txs -> Steps] /\ op \in [Txs -> Ops]
    /\ todo \in [Txs -> SUBSET Ids] /\ found \in [Txs -> SUBSET (Ids \X Roles)]
    /\ known \in [Txs -> Passwords]
    /\ cookies \subseteq Cookies /\ shifted \in BOOLEAN
    /\ \A t \in Txs :
        /\ step[t] # "lock" => todo[t] = {}
        /\ step[t] \in {"idle", "start"} => \A i \in Ids : lock[i] # t

Init ==
    /\ used = {} /\ live = {} /\ enabled = {}
    /\ role = [i \in Ids |-> "user"]
    /\ password = [i \in Ids |-> AnyPassword] /\ version = [i \in Ids |-> 0]
    /\ lock = [i \in Ids |-> Nobody]
    /\ step = [t \in Txs |-> "idle"]
    /\ op = [t \in Txs |-> AnyOp]
    /\ todo = [t \in Txs |-> {}] /\ found = [t \in Txs |-> {}]
    /\ known = [t \in Txs |-> AnyPassword]
    /\ cookies = {} /\ shifted = FALSE

Goto(t, s) == step' = [step EXCEPT ![t] = s]

Free(t, i) == lock[i] \in {Nobody, t}

Unlock(t) == lock' = [i \in Ids |-> IF lock[i] = t THEN Nobody ELSE lock[i]]

\* the end of the transaction, commit or rollback
End(t) ==
    /\ Goto(t, "idle")
    /\ Unlock(t)
    /\ todo' = [todo EXCEPT ![t] = {}] /\ found' = [found EXCEPT ![t] = {}]
    /\ op' = [op EXCEPT ![t] = AnyOp] /\ known' = [known EXCEPT ![t] = AnyPassword]

-----------------------------------------------------------------------------
(* The routes: who may ask for what.                                       *)

\* _require_user_admin_session, _forbid_self
MayManage(kind, i) ==
    \E m \in Enabled("user_admin") : kind = "guarded" => m # i

Request(t, o) ==
    /\ step[t] = "idle"
    /\ o.kind \in {"reset", "self"} => o.id \in Watched
    /\ IF o.kind = "self" THEN o.id \in live \intersect enabled ELSE MayManage(o.kind, o.id)
    /\ Goto(t, "start")
    /\ op' = [op EXCEPT ![t] = o]
    /\ UNCHANGED <<accounts, lock, todo, found, known, cookies, shifted>>

\* create_user, by a user_admin or with the server's token: a row of its own
Create(i, r) ==
    /\ i \notin used
    /\ used' = used \union {i} /\ live' = live \union {i}
    /\ enabled' = enabled \union {i}
    /\ role' = [role EXCEPT ![i] = r]
    /\ shifted' = (shifted \/ (r # "user" /\ \E t \in Txs : step[t] = "lock"))
    /\ UNCHANGED <<password, version, lock, requests, cookies>>

-----------------------------------------------------------------------------
(* _lock_privileged_then_target.                                           *)

\* the first statement begins: the rows it will lock
Select(t) ==
    /\ step[t] = "start" /\ op[t].kind = "guarded"
    /\ Goto(t, "lock")
    /\ todo' = [todo EXCEPT ![t] = {i \in Ids : Privileged(i)}]
    /\ UNCHANGED <<accounts, lock, op, found, known, cookies, shifted>>

\* without ORDER BY
First_Any(t, i) == i \in todo[t]

\* ORDER BY id
First(t, i) == i \in todo[t] /\ \A j \in todo[t] : i <= j

\* the rows are counted as they were when the statement began
Counts_Snapshot(i) == TRUE

\* the condition is read again once the row is locked
Counts(i) == Privileged(i)

LockRow(t, i) ==
    /\ step[t] = "lock" /\ First(t, i) /\ Free(t, i)
    /\ todo' = [todo EXCEPT ![t] = @ \ {i}]
    /\ lock' = IF i \in live THEN [lock EXCEPT ![i] = t] ELSE lock
    /\ found' = IF Counts(i) THEN [found EXCEPT ![t] = @ \union {<<i, role[i]>>}] ELSE found
    /\ UNCHANGED <<accounts, step, op, known, cookies, shifted>>

LockTarget(t) ==
    LET i == op[t].id IN
    /\ step[t] = "lock" /\ todo[t] = {} /\ Free(t, i)
    /\ i \in live
    /\ lock' = [lock EXCEPT ![i] = t]
    /\ Goto(t, "decide")
    /\ UNCHANGED <<accounts, op, todo, found, known, cookies, shifted>>

\* no such user
NoTarget(t) ==
    /\ step[t] = "lock" /\ todo[t] = {}
    /\ op[t].id \notin live
    /\ End(t)
    /\ UNCHANGED <<accounts, cookies, shifted>>

-----------------------------------------------------------------------------
(* The decision, with every lock in hand.                                  *)

\* _stranded_role: the target is the last one of its role
Stranded(t) ==
    LET i == op[t].id IN
    /\ i \in enabled /\ role[i] # "user"
    /\ Cardinality({j \in Ids : <<j, role[i]>> \in found[t]}) <= 1

\* who is privileged changes while another request has begun to lock
Shift(t) ==
    shifted' = \/ shifted
               \/ /\ \E u \in Txs \ {t} : step[u] = "lock"
                  /\ \E i \in Ids : Privileged(i) # Privileged(i)'

Disable(t) ==
    /\ step[t] = "decide" /\ ~Stranded(t)
    /\ enabled' = enabled \ {op[t].id}
    /\ End(t)
    /\ UNCHANGED <<used, live, role, password, version, cookies>>
    /\ Shift(t)

Enable(t) ==
    /\ step[t] = "decide"
    /\ enabled' = enabled \union {op[t].id}
    /\ End(t)
    /\ UNCHANGED <<used, live, role, password, version, cookies>>
    /\ Shift(t)

SetRole(t, r) ==
    /\ step[t] = "decide"
    /\ r # role[op[t].id] => ~Stranded(t)
    /\ role' = [role EXCEPT ![op[t].id] = r]
    /\ End(t)
    /\ UNCHANGED <<used, live, enabled, password, version, cookies>>
    /\ Shift(t)

Delete(t) ==
    /\ step[t] = "decide" /\ ~Stranded(t)
    /\ live' = live \ {op[t].id}
    /\ End(t)
    /\ UNCHANGED <<used, role, enabled, password, version, cookies>>
    /\ Shift(t)

\* LastAdminError
Refuse(t) ==
    /\ step[t] = "decide" /\ Stranded(t)
    /\ End(t)
    /\ UNCHANGED <<accounts, cookies, shifted>>

-----------------------------------------------------------------------------
(* Passwords.                                                              *)

\* a new password that leaves the sessions of the old one alone
NewPassword_NoBump(i, p) ==
    /\ password' = [password EXCEPT ![i] = p]
    /\ UNCHANGED version

NewPassword(i, p) ==
    /\ version[i] < MaxVersion
    /\ password' = [password EXCEPT ![i] = p]
    /\ version' = [version EXCEPT ![i] = @ + 1]

\* set_password: one UPDATE, which waits for the row
Reset(t, p) ==
    LET i == op[t].id IN
    /\ step[t] = "start" /\ op[t].kind = "reset"
    /\ i \in live /\ Free(t, i)
    /\ NewPassword(i, p)
    /\ End(t)
    /\ UNCHANGED <<used, live, role, enabled, cookies, shifted>>

\* the current password is read without a lock
CheckOwn_Unlocked(t) ==
    LET i == op[t].id IN
    /\ step[t] = "start" /\ op[t].kind = "self" /\ i \in live
    /\ known' = [known EXCEPT ![t] = password[i]]
    /\ Goto(t, "write")
    /\ UNCHANGED <<accounts, lock, op, todo, found, cookies, shifted>>

\* change_own_password: the row is locked and the current password is right
CheckOwn(t) ==
    LET i == op[t].id IN
    /\ step[t] = "start" /\ op[t].kind = "self" /\ i \in live /\ Free(t, i)
    /\ lock' = [lock EXCEPT ![i] = t]
    /\ known' = [known EXCEPT ![t] = password[i]]
    /\ Goto(t, "write")
    /\ UNCHANGED <<accounts, op, todo, found, cookies, shifted>>

\* ... and changed, and the caller's cookie is issued again
ChangeOwn(t, p) ==
    LET i == op[t].id IN
    /\ step[t] = "write"
    /\ NewPassword(i, p)
    /\ cookies' = cookies \union {[id |-> i, version |-> version'[i], password |-> p]}
    /\ End(t)
    /\ UNCHANGED <<used, live, role, enabled, shifted>>

\* do_login: verify_credentials and set_session
Login(i) ==
    /\ i \in Watched /\ i \in live /\ i \in enabled
    /\ cookies' = cookies \union {[id |-> i, version |-> version[i], password |-> password[i]]}
    /\ UNCHANGED <<accounts, lock, requests, shifted>>

-----------------------------------------------------------------------------
(* A request that ends without a result: a wrong current password or a row *)
(* that is gone, a lost connection or a stopped instance, the statement's  *)
(* time limit, and the database's way out of a deadlock.                   *)

\* the row request t asks for next
Wanted(t) ==
    CASE step[t] = "lock" /\ todo[t] # {} -> {i \in todo[t] : First(t, i)}
      [] step[t] = "lock" /\ todo[t] = {} -> {op[t].id}
      [] step[t] = "start" /\ op[t].kind \in {"reset", "self"} -> {op[t].id}
      [] OTHER -> {}

WaitsFor(t, u) == t # u /\ \E i \in Wanted(t) : lock[i] = u

Deadlocked(S) == S # {} /\ \A t \in S : \E u \in S : WaitsFor(t, u)

Abort(t) ==
    /\ step[t] # "idle"
    /\ End(t)
    /\ UNCHANGED <<accounts, cookies, shifted>>

Act(t) ==
    \/ Select(t) \/ LockTarget(t) \/ NoTarget(t)
    \/ \E i \in Ids : LockRow(t, i)
    \/ Disable(t) \/ Enable(t) \/ Delete(t) \/ Refuse(t)
    \/ \E r \in Roles : SetRole(t, r)
    \/ \E p \in Passwords : Reset(t, p) \/ ChangeOwn(t, p)
    \/ CheckOwn(t)

Next ==
    \/ \E t \in Txs : Act(t) \/ Abort(t) \/ \E o \in Ops : Request(t, o)
    \/ \E i \in Ids : Login(i) \/ \E r \in Roles : Create(i, r)

Spec == Init /\ [][Next]_vars

-----------------------------------------------------------------------------
(* However requests overlap, the last enabled operator and the last        *)
(* enabled account manager stay: demoting, disabling and deleting refuse   *)
(* ("the instance can never be locked out of its own user management").    *)
NeverStranded ==
    [][\A r \in {"admin", "user_admin"} : Enabled(r) # {} => Enabled(r)' # {}]_vars

(* A session is only good for the password it was opened with: a reset or  *)
(* a change revokes every other one, also those of logins it overtook.     *)
SessionMatchesPassword ==
    \A c \in cookies : Valid(c) => c.password = password[c.id]

(* Between the check of the current password and the write of the new one  *)
(* nothing slips: no reset is undone by somebody who knew the old one.     *)
NothingSlipsBetween ==
    \A t \in Txs : step[t] = "write" => known[t] = password[op[t].id] /\ op[t].id \in live

(* "A CONSISTENT global order to avoid deadlocks": requests wait in a      *)
(* circle only after the privileged accounts changed while one of them was *)
(* already locking those it had seen; it then takes its target in an order *)
(* of its own.                                                             *)
DeadlockNeedsShift ==
    ~shifted => \A S \in SUBSET Txs : ~Deadlocked(S)
=============================================================================
