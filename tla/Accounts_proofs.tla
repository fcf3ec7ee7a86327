--------------------------- MODULE Accounts_proofs --------------------------
(***************************************************************************)
(* For any number of accounts and of overlapping requests: no change       *)
(* strands a role, no session outlives its password, no password change    *)
(* undoes a reset.                                                         *)
(*                                                                         *)
(* NeverStranded rests on what a count means: every account a request has  *)
(* counted is still there, enabled, of the role it was counted with, and   *)
(* locked by that request alone (Counted); and whoever changes a role or a *)
(* status holds the row (Holding).                                         *)
(***************************************************************************)
EXTENDS Accounts, FiniteSetTheorems, TLAPS

\* what a request has counted stays as it was counted
Counted ==
    \A t \in Txs : \A i \in Ids, r \in Roles :
        <<i, r>> \in found[t] =>
            lock[i] = t /\ i \in live /\ i \in enabled /\ role[i] = r

\* a request that decides or writes holds its target
Holding ==
    \A t \in Txs : step[t] \in {"decide", "write"} =>
        lock[op[t].id] = t /\ op[t].id \in live

\* a cookie is older than its account or shows its password
Fresh ==
    \A c \in cookies :
        /\ c.version <= version[c.id]
        /\ c.version = version[c.id] => c.password = password[c.id]

\* the password a request has checked is the one it replaces
Checked == \A t \in Txs : step[t] = "write" => known[t] = password[op[t].id]

Inv == TypeOK /\ Counted /\ Holding /\ Fresh /\ Checked

-----------------------------------------------------------------------------

\* A choice from a set of the model is in the set.
LEMMA AnyType == AnyOp \in Ops /\ AnyPassword \in Passwords
<1>1. \E o : o \in Ops
    <2>1. PICK i \in Ids : TRUE
        BY AccountsAssumption
    <2>2. [kind |-> "self", id |-> i] \in Ops
        BY DEF Ops
    <2> QED
        BY <2>2
<1> QED
    BY <1>1, AccountsAssumption DEF AnyOp, AnyPassword

\* of two or more accounts one is not i
LEMMA Another ==
    ASSUME NEW S \in SUBSET Ids, NEW i, ~(Cardinality(S) <= 1)
    PROVE  \E j \in S : j # i
<1>1. SUFFICES ASSUME S \subseteq {i} PROVE FALSE
    OBVIOUS
<1>2. IsFiniteSet({i}) /\ Cardinality({i}) = 1
    BY FS_Singleton
<1>3. Cardinality(S) <= 1
    BY <1>1, <1>2, FS_Subset
<1> QED
    BY <1>3

\* The initial state satisfies the invariant.
LEMMA InitInv == Init => Inv
<1> SUFFICES ASSUME Init PROVE Inv
    OBVIOUS
<1>1. TypeOK
    <2>1. /\ version \in [Ids -> 0..MaxVersion]
          /\ password \in [Ids -> Passwords] /\ known \in [Txs -> Passwords]
        BY AccountsAssumption, AnyType DEF Init
    <2>2. op \in [Txs -> Ops]
        BY AnyType DEF Init
    <2>3. step \in [Txs -> Steps] /\ role \in [Ids -> Roles]
        BY DEF Init, Steps, Roles
    <2>4. \A t \in Txs : todo[t] = {} /\ \A i \in Ids : lock[i] # t
        BY AccountsAssumption DEF Init
    <2> QED
        BY <2>1, <2>2, <2>3, <2>4 DEF Init, TypeOK
<1>2. Counted /\ Holding /\ Fresh /\ Checked
    BY DEF Init, Counted, Holding, Fresh, Checked
<1> QED
    BY <1>1, <1>2 DEF Inv

\* The end of a request takes nothing from the others.
LEMMA EndKeeps ==
    ASSUME TypeOK, NEW t \in Txs, End(t)
    PROVE  /\ lock' \in [Ids -> Txs \union {Nobody}]
           /\ step' \in [Txs -> Steps] /\ op' \in [Txs -> Ops]
           /\ todo' \in [Txs -> SUBSET Ids]
           /\ found' \in [Txs -> SUBSET (Ids \X Roles)]
           /\ known' \in [Txs -> Passwords]
           /\ step'[t] = "idle" /\ todo'[t] = {} /\ found'[t] = {}
           /\ \A i \in Ids : lock'[i] # t
           /\ \A u \in Txs \ {t} :
                /\ step'[u] = step[u] /\ op'[u] = op[u] /\ todo'[u] = todo[u]
                /\ found'[u] = found[u] /\ known'[u] = known[u]
                /\ \A i \in Ids : (lock'[i] = u) <=> (lock[i] = u)
BY AnyType, AccountsAssumption DEF TypeOK, End, Goto, Unlock, Steps

\* A request that ends having changed nothing but its target, which it held,
\* leaves every other request what it has counted.
LEMMA DecisionKeeps ==
    ASSUME Inv, NEW t \in Txs, step[t] = "decide", End(t),
           live' \subseteq live, enabled' \subseteq Ids, role' \in [Ids -> Roles],
           UNCHANGED <<used, password, version, cookies>>, shifted' \in BOOLEAN,
           \A j \in Ids \ {op[t].id} :
               /\ (j \in live') <=> (j \in live)
               /\ (j \in enabled') <=> (j \in enabled)
               /\ role'[j] = role[j]
    PROVE  Inv'
<1> USE DEF Inv
<1>1. TypeOK'
    BY EndKeeps DEF TypeOK
<1>2. ASSUME NEW u \in Txs \ {t}, NEW i \in Ids, lock[i] = u PROVE i # op[t].id
    BY <1>2 DEF Holding
<1>3. Counted'
    BY EndKeeps, <1>2 DEF Counted
<1>4. Holding'
    <2> SUFFICES ASSUME NEW u \in Txs, step'[u] \in {"decide", "write"}
                 PROVE  lock'[op'[u].id] = u /\ op'[u].id \in live'
        BY DEF Holding
    <2>1. u # t /\ step[u] = step'[u] /\ op'[u] = op[u]
        BY EndKeeps
    <2>2. op[u].id \in Ids /\ lock[op[u].id] = u /\ op[u].id \in live
        BY <2>1 DEF Holding, TypeOK, Ops
    <2> QED
        BY <2>1, <2>2, <1>2, EndKeeps
<1>5. Fresh' /\ Checked'
    BY EndKeeps DEF Fresh, Checked
<1> QED
    BY <1>1, <1>3, <1>4, <1>5

\* A request that ends having changed nothing keeps everything.
LEMMA EndKeepsInv ==
    ASSUME Inv, NEW t \in Txs, End(t), UNCHANGED <<accounts, cookies, shifted>>
    PROVE  Inv'
<1> USE DEF Inv, accounts
<1>1. TypeOK'
    BY EndKeeps DEF TypeOK
<1>2. Counted' /\ Fresh' /\ Checked'
    BY EndKeeps DEF Counted, Fresh, Checked
<1>3. Holding'
    BY EndKeeps DEF Holding, TypeOK, Ops
<1> QED
    BY <1>1, <1>2, <1>3

\* A new password on a row nobody else holds: older cookies fall behind.
LEMMA PasswordKeeps ==
    ASSUME Inv, NEW t \in Txs, NEW p \in Passwords, op[t].id \in live,
           lock[op[t].id] \in {Nobody, t}, NewPassword(op[t].id, p), End(t),
           UNCHANGED <<used, live, role, enabled, shifted>>,
           cookies' \subseteq cookies \union
               {[id |-> op[t].id, version |-> version'[op[t].id], password |-> p]}
    PROVE  Inv'
<1> USE DEF Inv
<1> DEFINE i == op[t].id
<1>1. i \in Ids
    BY DEF TypeOK, Ops
<1>2. /\ password' \in [Ids -> Passwords] /\ version' \in [Ids -> 0..MaxVersion]
      /\ password'[i] = p /\ version'[i] = version[i] + 1
      /\ \A j \in Ids \ {i} : password'[j] = password[j] /\ version'[j] = version[j]
    <2>1. version[i] \in 0..MaxVersion /\ version[i] < MaxVersion
        BY <1>1 DEF NewPassword, TypeOK
    <2>2. version[i] + 1 \in 0..MaxVersion
        BY <2>1, AccountsAssumption
    <2>3. password' = [password EXCEPT ![i] = p] /\ version' = [version EXCEPT ![i] = version[i] + 1]
        BY DEF NewPassword
    <2>4. password \in [Ids -> Passwords] /\ version \in [Ids -> 0..MaxVersion]
        BY DEF TypeOK
    <2> QED
        BY <1>1, <2>2, <2>3, <2>4
<1>3. cookies' \subseteq Cookies
    BY <1>1, <1>2 DEF Cookies, TypeOK
<1>4. TypeOK'
    BY EndKeeps, <1>2, <1>3 DEF TypeOK
<1>5. Counted'
    BY EndKeeps DEF Counted
<1>6. Holding'
    BY EndKeeps DEF Holding, TypeOK, Ops
<1>7. Fresh'
    <2> SUFFICES ASSUME NEW c \in cookies'
                 PROVE  /\ c.version <= version'[c.id]
                        /\ c.version = version'[c.id] => c.password = password'[c.id]
        BY DEF Fresh
    <2>1. CASE c \in cookies
        <3>1. c.id \in Ids /\ c.version \in 0..MaxVersion /\ version[c.id] \in 0..MaxVersion
            BY <2>1 DEF TypeOK, Cookies
        <3>2. c.version <= version[c.id] /\ (c.version = version[c.id] => c.password = password[c.id])
            BY <2>1 DEF Fresh
        <3>3. CASE c.id = i
            BY <3>1, <3>2, <3>3, <1>2, AccountsAssumption
        <3>4. CASE c.id # i
            BY <3>1, <3>2, <3>4, <1>2
        <3> QED
            BY <3>3, <3>4
    <2>2. CASE c \notin cookies
        <3>1. c.id = i /\ c.version = version'[i] /\ c.password = p
            BY <2>2
        <3>2. version'[i] \in 0..MaxVersion
            BY <1>1, <1>2
        <3> QED
            BY <3>1, <3>2, <1>2, AccountsAssumption
    <2> QED
        BY <2>1, <2>2
<1>8. Checked'
    <2> SUFFICES ASSUME NEW u \in Txs, step'[u] = "write"
                 PROVE  known'[u] = password'[op'[u].id]
        BY DEF Checked
    <2>1. u # t /\ step[u] = "write" /\ known'[u] = known[u] /\ op'[u] = op[u]
        BY EndKeeps
    <2>2. lock[op[u].id] = u /\ op[u].id \in Ids /\ known[u] = password[op[u].id]
        BY <2>1 DEF Holding, Checked, TypeOK, Ops
    <2>3. op[u].id # i
        BY <2>1, <2>2, AccountsAssumption
    <2> QED
        BY <2>1, <2>2, <2>3, <1>2
<1> QED
    BY <1>4, <1>5, <1>6, <1>7, <1>8

-----------------------------------------------------------------------------

\* Every step keeps the invariant.
LEMMA NextInv == Inv /\ [Next]_vars => Inv'
<1> SUFFICES ASSUME Inv, [Next]_vars PROVE Inv'
    OBVIOUS
<1> USE DEF Inv
<1>1. ASSUME NEW t \in Txs, NEW o \in Ops, Request(t, o) PROVE Inv'
    <2>1. TypeOK'
        BY <1>1 DEF Request, Goto, TypeOK, Steps, accounts
    <2>2. Counted' /\ Fresh'
        BY <1>1 DEF Request, accounts, Counted, Fresh
    <2>3. Holding' /\ Checked'
        BY <1>1 DEF Request, Goto, accounts, TypeOK, Holding, Checked
    <2> QED
        BY <2>1, <2>2, <2>3
<1>2. ASSUME NEW i \in Ids, NEW r \in Roles, Create(i, r) PROVE Inv'
    <2>1. i \notin live
        BY <1>2 DEF Create, TypeOK
    <2>2. TypeOK'
        BY <1>2 DEF Create, requests, TypeOK
    <2>3. Counted'
        BY <1>2, <2>1 DEF Create, requests, Counted, TypeOK
    <2>4. Holding' /\ Fresh' /\ Checked'
        BY <1>2 DEF Create, requests, Holding, Fresh, Checked
    <2> QED
        BY <2>2, <2>3, <2>4
<1>3. ASSUME NEW t \in Txs, Select(t) PROVE Inv'
    <2>1. TypeOK'
        BY <1>3 DEF Select, Goto, TypeOK, Steps, accounts
    <2>2. Counted' /\ Fresh'
        BY <1>3 DEF Select, accounts, Counted, Fresh
    <2>3. Holding' /\ Checked'
        BY <1>3 DEF Select, Goto, accounts, TypeOK, Holding, Checked
    <2> QED
        BY <2>1, <2>2, <2>3
<1>4. ASSUME NEW t \in Txs, NEW i \in Ids, LockRow(t, i) PROVE Inv'
    <2>1. /\ step' = step /\ op' = op /\ known' = known /\ cookies' = cookies /\ shifted' = shifted
          /\ step[t] = "lock" /\ lock[i] \in {Nobody, t}
          /\ UNCHANGED <<used, live, role, enabled, password, version>>
        BY <1>4 DEF LockRow, Free, accounts
    <2>2. lock' \in [Ids -> Txs \union {Nobody}]
        BY <1>4 DEF LockRow, TypeOK
    <2>3. todo' \in [Txs -> SUBSET Ids] /\ \A u \in Txs \ {t} : todo'[u] = todo[u]
        BY <1>4 DEF LockRow, TypeOK
    <2>4. \A u \in Txs \ {t}, j \in Ids : (lock'[j] = u) <=> (lock[j] = u)
        BY <1>4, <2>1, AccountsAssumption DEF LockRow, TypeOK
    <2>5. /\ found' \in [Txs -> SUBSET (Ids \X Roles)]
          /\ \A u \in Txs \ {t} : found'[u] = found[u]
          /\ \A p \in found'[t] : p \in found[t] \/ (p = <<i, role[i]>> /\ Privileged(i))
        BY <1>4 DEF LockRow, Counts, TypeOK
    <2>6. TypeOK'
        BY <2>1, <2>2, <2>3, <2>4, <2>5 DEF TypeOK
    <2>7. Counted'
        <3> SUFFICES ASSUME NEW u \in Txs, NEW j \in Ids, NEW r \in Roles, <<j, r>> \in found'[u]
                     PROVE  lock'[j] = u /\ j \in live' /\ j \in enabled' /\ role'[j] = r
            BY DEF Counted
        <3>1. CASE u # t
            BY <3>1, <2>1, <2>4, <2>5 DEF Counted
        <3>2. CASE u = t /\ <<j, r>> \in found[t]
            BY <3>2, <2>1, <1>4 DEF LockRow, TypeOK, Counted
        <3>3. CASE u = t /\ <<j, r>> \notin found[t]
            <4>1. j = i /\ r = role[i] /\ Privileged(i)
                BY <3>3, <2>5
            <4>2. lock'[i] = t
                BY <4>1, <1>4 DEF LockRow, Privileged, TypeOK
            <4> QED
                BY <3>3, <4>1, <4>2, <2>1 DEF Privileged
        <3> QED
            BY <3>1, <3>2, <3>3
    <2>8. Holding'
        BY <2>1, <2>4 DEF Holding, TypeOK, Ops
    <2>9. Fresh' /\ Checked'
        BY <2>1 DEF Fresh, Checked
    <2> QED
        BY <2>6, <2>7, <2>8, <2>9
<1>5. ASSUME NEW t \in Txs, LockTarget(t) \/ CheckOwn(t) PROVE Inv'
    <2> DEFINE i == op[t].id
    <2>1. /\ i \in Ids /\ i \in live /\ lock[i] \in {Nobody, t}
          /\ lock' = [lock EXCEPT ![i] = t]
          /\ op' = op /\ todo' = todo /\ found' = found /\ cookies' = cookies
          /\ UNCHANGED <<used, live, role, enabled, password, version>>
        BY <1>5 DEF LockTarget, CheckOwn, Free, accounts, TypeOK, Ops
    <2>2. /\ \A u \in Txs \ {t} : step'[u] = step[u] /\ known'[u] = known[u]
          /\ \A u \in Txs \ {t}, j \in Ids : (lock'[j] = u) <=> (lock[j] = u)
          /\ lock'[i] = t
        BY <1>5, <2>1, AccountsAssumption DEF LockTarget, CheckOwn, Goto, TypeOK
    <2>3. /\ step'[t] \in {"decide", "write"} /\ (step[t] = "lock" => todo[t] = {})
          /\ step' \in [Txs -> Steps] /\ known' \in [Txs -> Passwords] /\ shifted' = shifted
          /\ step'[t] = "write" => known'[t] = password[i]
        BY <1>5, <2>1 DEF LockTarget, CheckOwn, Goto, TypeOK, Steps
    <2>4. step[t] # "lock" => todo[t] = {}
        BY DEF TypeOK
    <2>5. TypeOK'
        BY <2>1, <2>2, <2>3, <2>4 DEF TypeOK
    <2>6. Counted'
        <3> SUFFICES ASSUME NEW u \in Txs, NEW j \in Ids, NEW r \in Roles, <<j, r>> \in found[u]
                     PROVE  lock'[j] = u /\ j \in live /\ j \in enabled /\ role[j] = r
            BY <2>1 DEF Counted
        <3>1. lock[j] = u /\ j \in live /\ j \in enabled /\ role[j] = r
            BY DEF Counted
        <3>2. lock'[j] = u
            BY <3>1, <2>1, <2>2 DEF TypeOK
        <3> QED
            BY <3>1, <3>2
    <2>7. Holding' /\ Checked'
        BY <2>1, <2>2, <2>3 DEF Holding, Checked, TypeOK, Ops
    <2>8. Fresh'
        BY <2>1 DEF Fresh
    <2> QED
        BY <2>5, <2>6, <2>7, <2>8
<1>6. ASSUME NEW t \in Txs, NoTarget(t) \/ Refuse(t) \/ Abort(t) PROVE Inv'
    BY <1>6, EndKeepsInv DEF NoTarget, Refuse, Abort
<1>7. ASSUME NEW t \in Txs, Disable(t) \/ Enable(t) \/ Delete(t) PROVE Inv'
    <2>1. op[t].id \in Ids
        BY DEF TypeOK, Ops
    <2>2. shifted' \in BOOLEAN
        BY <1>7 DEF Disable, Enable, Delete, Shift, TypeOK
    <2> QED
        BY <1>7, <2>1, <2>2, DecisionKeeps DEF Disable, Enable, Delete, TypeOK
<1>8. ASSUME NEW t \in Txs, NEW r \in Roles, SetRole(t, r) PROVE Inv'
    <2>1. shifted' \in BOOLEAN
        BY <1>8 DEF SetRole, Shift, TypeOK
    <2>2. role' \in [Ids -> Roles] /\ \A j \in Ids \ {op[t].id} : role'[j] = role[j]
        BY <1>8 DEF SetRole, TypeOK
    <2> QED
        BY <1>8, <2>1, <2>2, DecisionKeeps DEF SetRole, TypeOK
<1>9. ASSUME NEW t \in Txs, NEW p \in Passwords, Reset(t, p) PROVE Inv'
    BY <1>9, PasswordKeeps DEF Reset, Free
<1>10. ASSUME NEW t \in Txs, NEW p \in Passwords, ChangeOwn(t, p) PROVE Inv'
    <2>1. op[t].id \in live /\ lock[op[t].id] = t
        BY <1>10 DEF ChangeOwn, Holding
    <2> QED
        BY <1>10, <2>1, PasswordKeeps DEF ChangeOwn
<1>11. ASSUME NEW i \in Ids, Login(i) PROVE Inv'
    <2>1. cookies' \subseteq Cookies
        BY <1>11 DEF Login, TypeOK, Cookies, accounts
    <2>2. TypeOK'
        BY <1>11, <2>1 DEF Login, TypeOK, accounts, requests
    <2>3. Counted' /\ Holding' /\ Checked'
        BY <1>11 DEF Login, accounts, requests, Counted, Holding, Checked
    <2>4. Fresh'
        BY <1>11 DEF Login, accounts, TypeOK, Fresh
    <2> QED
        BY <2>2, <2>3, <2>4
<1>12. CASE UNCHANGED vars
    BY <1>12 DEF vars, accounts, requests, TypeOK, Counted, Holding, Fresh, Checked
<1> QED
    BY <1>1, <1>2, <1>3, <1>4, <1>5, <1>6, <1>7, <1>8, <1>9, <1>10, <1>11, <1>12
       DEF Next, Act

\* The inductive invariant holds throughout.
THEOREM Invariant == Spec => []Inv
BY InitInv, NextInv, PTL DEF Spec

(* The types, and that a request between its steps holds only what it      *)
(* asked for.                                                              *)
THEOREM TypeCorrect == Spec => []TypeOK
BY Invariant, PTL DEF Inv

(* No cookie is good for an account whose password is not the one it was   *)
(* issued for (auth.current_user, user_store.set_password).                *)
THEOREM SessionsEndWithPassword == Spec => []SessionMatchesPassword
<1>1. Inv => SessionMatchesPassword
    BY DEF Inv, Fresh, SessionMatchesPassword, Valid
<1> QED
    BY <1>1, Invariant, PTL

(* The current password is still the current one when the new one is       *)
(* written (user_store.change_own_password).                               *)
THEOREM ChangeIsAtomic == Spec => []NothingSlipsBetween
<1>1. Inv => NothingSlipsBetween
    BY DEF Inv, Checked, Holding, NothingSlipsBetween
<1> QED
    BY <1>1, Invariant, PTL

-----------------------------------------------------------------------------
\* A decision that passed the guard leaves another account of the role.
LEMMA GuardLeavesOne ==
    ASSUME Inv, NEW t \in Txs, NEW r \in {"admin", "user_admin"},
           op[t].id \in enabled, role[op[t].id] = r, ~Stranded(t)
    PROVE  \E j \in Enabled(r) : j # op[t].id
<1> DEFINE S == {j \in Ids : <<j, role[op[t].id]>> \in found[t]}
<1>1. S \in SUBSET Ids /\ ~(Cardinality(S) <= 1)
    BY DEF Stranded
<1>2. \E j \in S : j # op[t].id
    <2> HIDE DEF S
    <2> QED
        BY <1>1, Another
<1> QED
    BY <1>2 DEF Inv, TypeOK, Counted, Enabled, Roles

\* A role with an enabled account keeps one.
LEMMA NobodyStranded ==
    ASSUME Inv, [Next]_vars, NEW r \in {"admin", "user_admin"}, Enabled(r) # {}
    PROVE  Enabled(r)' # {}
<1> PICK e \in Enabled(r) : TRUE
    OBVIOUS
<1>1. e \in live /\ e \in enabled /\ role[e] = r /\ e \in Ids
    BY DEF Enabled, Inv, TypeOK
<1>2. CASE UNCHANGED <<live, role, enabled>>
    BY <1>2 DEF Enabled
<1>3. ASSUME NEW t \in Txs, Disable(t) \/ Delete(t) PROVE Enabled(r)' # {}
    <2>1. ~Stranded(t) /\ live' \in {live, live \ {op[t].id}}
          /\ enabled' \in {enabled, enabled \ {op[t].id}} /\ role' = role
        BY <1>3 DEF Disable, Delete
    <2>2. \E j \in Enabled(r) : j # op[t].id
        BY <1>1, <2>1, GuardLeavesOne DEF Enabled
    <2> QED
        BY <2>1, <2>2 DEF Enabled
<1>4. ASSUME NEW t \in Txs, Enable(t) PROVE Enabled(r)' # {}
    BY <1>1, <1>4 DEF Enable, Enabled
<1>5. ASSUME NEW t \in Txs, NEW q \in Roles, SetRole(t, q) PROVE Enabled(r)' # {}
    <2>1. /\ live' = live /\ enabled' = enabled /\ role' = [role EXCEPT ![op[t].id] = q]
          /\ q # role[op[t].id] => ~Stranded(t)
        BY <1>5 DEF SetRole
    <2>2. CASE q = role[op[t].id]
        BY <1>1, <2>1, <2>2 DEF Enabled, Inv, TypeOK
    <2>3. CASE q # role[op[t].id]
        <3>1. \E j \in Enabled(r) : j # op[t].id
            BY <1>1, <2>1, <2>3, GuardLeavesOne
        <3> QED
            BY <2>1, <3>1 DEF Enabled, Inv, TypeOK
    <2> QED
        BY <2>2, <2>3
<1>6. ASSUME NEW i \in Ids, NEW q \in Roles, Create(i, q) PROVE Enabled(r)' # {}
    BY <1>1, <1>6 DEF Create, Enabled, Inv, TypeOK
<1> QED
    BY <1>2, <1>3, <1>4, <1>5, <1>6
       DEF Next, Act, Request, Select, LockTarget, NoTarget, LockRow, Refuse, Reset,
           ChangeOwn, CheckOwn, Login, Abort, vars, accounts

(* Whatever requests overlap and however they are cut off, an enabled      *)
(* operator and an enabled account manager remain (user_store.py           *)
(* _lock_privileged_then_target, _stranded_role).                          *)
THEOREM RolesKept == Spec => NeverStranded
<1>1. Inv /\ [Next]_vars =>
        \A r \in {"admin", "user_admin"} : Enabled(r) # {} => Enabled(r)' # {}
    BY NobodyStranded
<1> QED
    BY <1>1, Invariant, PTL DEF Spec, NeverStranded

-----------------------------------------------------------------------------
\* While nobody's privileges shift, a request that is locking holds exactly
\* the privileged rows below those it has still to lock.
InOrder(t) ==
    /\ \A i \in todo[t] : Privileged(i)
    /\ \A i \in Ids : lock[i] = t <=> Privileged(i) /\ i \notin todo[t]
    /\ \A i \in Ids \ todo[t], j \in todo[t] : Privileged(i) => i < j

Views == ~shifted => \A t \in Txs : step[t] = "lock" => InOrder(t)

\* What others do leaves the view of a locking request as it is.
LEMMA ViewKept ==
    ASSUME TypeOK, NEW t \in Txs, InOrder(t),
           todo'[t] = todo[t],
           \A i \in Ids : (lock'[i] = t) <=> (lock[i] = t),
           \A i \in Ids : Privileged(i)' <=> Privileged(i)
    PROVE  InOrder(t)'
<1> HIDE DEF Privileged
<1>1. todo[t] \subseteq Ids
    BY DEF TypeOK
<1> QED
    BY <1>1 DEF InOrder

\* A change of an account keeps the privileges or is noticed.
LEMMA ChangeIsNoticed ==
    ASSUME TypeOK, NEW t \in Txs, NEW u \in Txs, u # t, step[u] = "lock",
           Disable(t) \/ Enable(t) \/ Delete(t) \/ \E r \in Roles : SetRole(t, r),
           ~shifted'
    PROVE  \A i \in Ids : Privileged(i)' <=> Privileged(i)
<1>1. Shift(t)
    BY DEF Disable, Enable, Delete, SetRole
<1>2. \A i \in Ids : Privileged(i)' = Privileged(i)
    BY <1>1 DEF Shift
<1> QED
    BY <1>2

\* Every step keeps the views of the locking requests while nobody's
\* privileges shift.
LEMMA ViewsStep == Inv /\ Views /\ [Next]_vars => Views'
<1> SUFFICES ASSUME Inv, Views, [Next]_vars, ~shifted',
                    NEW u \in Txs, step'[u] = "lock"
             PROVE  InOrder(u)'
    BY DEF Views
<1> USE DEF Inv
<1>1. ~shifted
    BY DEF Next, Act, Request, Create, Select, LockRow, LockTarget, NoTarget, Disable, Enable,
           SetRole, Delete, Refuse, Reset, CheckOwn, ChangeOwn, Login, Abort, Shift, vars
<1>2. step[u] = "lock" => InOrder(u)
    BY <1>1 DEF Views
<1>3. ASSUME UNCHANGED <<live, role, enabled>>
      PROVE  \A i \in Ids : Privileged(i)' <=> Privileged(i)
    BY <1>3 DEF Privileged
<1>4. ASSUME NEW t \in Txs, End(t)
      PROVE  /\ u # t /\ step[u] = "lock" /\ todo'[u] = todo[u]
             /\ \A i \in Ids : (lock'[i] = u) <=> (lock[i] = u)
    BY <1>4, EndKeeps
<1>5. CASE UNCHANGED vars
    BY <1>2, <1>3, <1>5, ViewKept DEF vars, accounts, requests
<1>6. ASSUME NEW t \in Txs, NEW o \in Ops, Request(t, o) PROVE InOrder(u)'
    <2>1. u # t /\ step[u] = "lock"
        BY <1>6 DEF Request, Goto, TypeOK
    <2> QED
        BY <2>1, <1>2, <1>3, <1>6, ViewKept DEF Request, accounts
<1>7. ASSUME NEW t \in Txs, Select(t) PROVE InOrder(u)'
    <2>1. CASE u # t
        <3>1. step[u] = "lock" /\ todo'[u] = todo[u]
            BY <2>1, <1>7 DEF Select, Goto, TypeOK
        <3> QED
            BY <3>1, <1>2, <1>3, <1>7, ViewKept DEF Select, accounts
    <2>2. CASE u = t
        <3>1. \A i \in Ids : lock[i] # u
            BY <2>2, <1>7 DEF Select, TypeOK
        <3>2. todo'[u] = {i \in Ids : Privileged(i)}
            BY <2>2, <1>7 DEF Select, TypeOK
        <3> HIDE DEF Privileged
        <3>3. \A i \in Ids : Privileged(i)' <=> Privileged(i)
            BY <1>3, <1>7 DEF Select, accounts
        <3> QED
            BY <3>1, <3>2, <3>3, <1>7 DEF Select, InOrder
    <2> QED
        BY <2>1, <2>2
<1>8. ASSUME NEW t \in Txs, NEW i \in Ids, LockRow(t, i) PROVE InOrder(u)'
    <2>1. /\ step' = step /\ lock[i] \in {Nobody, t} /\ First(t, i)
          /\ \A j \in Ids : Privileged(j)' <=> Privileged(j)
        BY <1>3, <1>8 DEF LockRow, Free, accounts
    <2>2. step[u] = "lock" /\ InOrder(u)
        BY <2>1, <1>2
    <2>3. CASE u # t
        <3>1. todo'[u] = todo[u] /\ \A j \in Ids : (lock'[j] = u) <=> (lock[j] = u)
            BY <2>1, <2>3, <1>8, AccountsAssumption DEF LockRow, TypeOK
        <3> QED
            BY <2>1, <2>2, <3>1, ViewKept
    <2>4. CASE u = t
        <3>1. Privileged(i) /\ i \in todo[u] /\ \A j \in todo[u] : i <= j
            BY <2>1, <2>2, <2>4 DEF InOrder, First
        <3>2. lock' = [lock EXCEPT ![i] = u] /\ todo'[u] = todo[u] \ {i}
            BY <2>4, <3>1, <1>8 DEF LockRow, Privileged, TypeOK
        <3>3. \A j \in Ids : lock'[j] = u <=> (lock[j] = u \/ j = i)
            BY <3>2 DEF TypeOK
        <3>4. todo[u] \subseteq Ids /\ Ids \subseteq Int
            BY AccountsAssumption DEF TypeOK
        <3> HIDE DEF Privileged
        <3>5. \A j \in todo'[u] : Privileged(j)'
            BY <2>1, <2>2, <3>2, <3>4 DEF InOrder
        <3>6. \A j \in Ids : lock'[j] = u <=> Privileged(j)' /\ j \notin todo'[u]
            BY <2>1, <2>2, <3>1, <3>2, <3>3 DEF InOrder
        <3>7. ASSUME NEW j \in Ids \ todo'[u], NEW k \in todo'[u], Privileged(j)' PROVE j < k
            <4>1. CASE j = i
                <5>1. k \in todo[u] /\ k # i /\ i <= k
                    BY <3>1, <3>2
                <5>2. k \in Int /\ i \in Int
                    BY <5>1, <3>4
                <5> QED
                    BY <4>1, <5>1, <5>2
            <4>2. CASE j # i
                <5>1. Privileged(j)
                    BY <2>1, <3>7
                <5>2. j \in Ids \ todo[u] /\ k \in todo[u]
                    BY <4>2, <3>2, <3>7
                <5> QED
                    BY <2>2, <5>1, <5>2 DEF InOrder
            <4> QED
                BY <4>1, <4>2
        <3> QED
            BY <3>5, <3>6, <3>7 DEF InOrder
    <2> QED
        BY <2>3, <2>4
<1>9. ASSUME NEW t \in Txs, LockTarget(t) \/ CheckOwn(t) PROVE InOrder(u)'
    <2>1. /\ u # t /\ step[u] = "lock" /\ todo'[u] = todo[u]
          /\ lock' = [lock EXCEPT ![op[t].id] = t] /\ lock[op[t].id] \in {Nobody, t}
        BY <1>9 DEF LockTarget, CheckOwn, Goto, Free, TypeOK
    <2>2. \A j \in Ids : (lock'[j] = u) <=> (lock[j] = u)
        BY <2>1, AccountsAssumption DEF TypeOK
    <2> QED
        BY <2>1, <2>2, <1>2, <1>3, <1>9, ViewKept DEF LockTarget, CheckOwn, accounts
<1>10. ASSUME NEW t \in Txs, NoTarget(t) \/ Refuse(t) \/ Abort(t) PROVE InOrder(u)'
    BY <1>2, <1>3, <1>4, <1>10, ViewKept DEF NoTarget, Refuse, Abort, accounts
<1>11. ASSUME NEW t \in Txs, Disable(t) \/ Enable(t) \/ Delete(t) \/ \E r \in Roles : SetRole(t, r)
       PROVE  InOrder(u)'
    <2>1. End(t)
        BY <1>11 DEF Disable, Enable, Delete, SetRole
    <2> QED
        BY <2>1, <1>2, <1>4, <1>11, ChangeIsNoticed, ViewKept
<1>12. ASSUME NEW t \in Txs, NEW p \in Passwords, Reset(t, p) \/ ChangeOwn(t, p) PROVE InOrder(u)'
    BY <1>2, <1>3, <1>4, <1>12, ViewKept DEF Reset, ChangeOwn
<1>13. ASSUME NEW i \in Ids, NEW r \in Roles, Create(i, r) PROVE InOrder(u)'
    <2>1. step[u] = "lock" /\ r = "user" /\ todo' = todo /\ lock' = lock
        BY <1>1, <1>13 DEF Create, requests
    <2>2. \A j \in Ids : Privileged(j)' <=> Privileged(j)
        BY <2>1, <1>13 DEF Create, Privileged, TypeOK
    <2> QED
        BY <2>1, <2>2, <1>2, ViewKept
<1>14. ASSUME NEW i \in Ids, Login(i) PROVE InOrder(u)'
    BY <1>2, <1>3, <1>14, ViewKept DEF Login, accounts, requests
<1> QED
    BY <1>5, <1>6, <1>7, <1>8, <1>9, <1>10, <1>11, <1>12, <1>13, <1>14 DEF Next, Act

\* Who waits and is waited for is locking.
LEMMA WaiterLocks ==
    ASSUME TypeOK, NEW t \in Txs, NEW u \in Txs, NEW v \in Txs,
           WaitsFor(t, u), WaitsFor(u, v)
    PROVE  step[u] = "lock"
<1>1. PICK i \in Wanted(t) : lock[i] = u
    BY DEF WaitsFor
<1>2. i \in Ids
    BY <1>1 DEF Wanted, First, TypeOK, Ops
<1>3. step[u] # "start"
    BY <1>1, <1>2 DEF TypeOK
<1>4. Wanted(u) # {}
    BY DEF WaitsFor
<1> QED
    BY <1>3, <1>4 DEF Wanted

\* Nobody waits for a request that waits for one that waits.
LEMMA NoChain ==
    ASSUME Inv, Views, ~shifted,
           NEW t \in Txs, NEW u \in Txs, NEW v \in Txs, NEW w \in Txs,
           WaitsFor(t, u), WaitsFor(u, v), WaitsFor(v, w)
    PROVE  FALSE
<1> USE DEF Inv
<1>1. step[u] = "lock" /\ step[v] = "lock" /\ u # v
    BY WaiterLocks DEF WaitsFor
<1>2. InOrder(u) /\ InOrder(v)
    BY <1>1 DEF Views
<1>3. PICK k \in Wanted(t) : lock[k] = u
    BY DEF WaitsFor
<1>4. PICK i \in Wanted(u) : lock[i] = v
    BY DEF WaitsFor
<1>5. k \in Ids /\ i \in Ids
    BY <1>3, <1>4 DEF Wanted, First, TypeOK, Ops
<1> HIDE DEF Privileged
<1>6. Privileged(i) /\ i \notin todo[v]
    BY <1>2, <1>4, <1>5 DEF InOrder
<1>7. i \in todo[u]
    BY <1>1, <1>2, <1>4, <1>5, <1>6 DEF InOrder
<1>8. Privileged(k) /\ k \notin todo[u]
    BY <1>2, <1>3, <1>5 DEF InOrder
<1>9. k \in todo[v]
    BY <1>1, <1>2, <1>3, <1>5, <1>8 DEF InOrder
<1>10. k < i
    BY <1>2, <1>5, <1>7, <1>8 DEF InOrder
<1>11. i < k
    BY <1>2, <1>5, <1>6, <1>9 DEF InOrder
<1> QED
    BY <1>5, <1>10, <1>11, AccountsAssumption

(* Requests that lock in the order of the ids never wait in a circle,      *)
(* however many they are, as long as nobody's privileges shift under one   *)
(* that is locking (user_store.py _lock_privileged_then_target).           *)
THEOREM DeadlockFree == Spec => []DeadlockNeedsShift
<1>1. Init => Views
    BY DEF Init, Views
<1>2. Inv /\ Views => DeadlockNeedsShift
    <2> SUFFICES ASSUME Inv, Views, ~shifted, NEW S \in SUBSET Txs, Deadlocked(S)
                 PROVE  FALSE
        BY DEF DeadlockNeedsShift
    <2>1. PICK t \in S : TRUE
        BY DEF Deadlocked
    <2>2. PICK u \in S : WaitsFor(t, u)
        BY <2>1 DEF Deadlocked
    <2>3. PICK v \in S : WaitsFor(u, v)
        BY <2>2 DEF Deadlocked
    <2>4. PICK w \in S : WaitsFor(v, w)
        BY <2>3 DEF Deadlocked
    <2> QED
        BY <2>1, <2>2, <2>3, <2>4, NoChain
<1> QED
    BY <1>1, <1>2, ViewsStep, Invariant, PTL DEF Spec
=============================================================================
