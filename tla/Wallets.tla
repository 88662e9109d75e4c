------------------------------ MODULE Wallets ------------------------------
(***************************************************************************)
(* Users, their wallets and the keys they own, with distribution of credit *)
(* switched on (auth/app_manager.rs; rows in storage/account_manager.rs).  *)
(* A request is let in by its owner's wallet before it is served, and      *)
(* charged to its owner's wallet when it is logged; meanwhile              *)
(* administrators create, change and delete users, assign keys and adjust  *)
(* wallets.                                                                *)
(*                                                                         *)
(* Every statement is a step, and so is every transaction (they BEGIN      *)
(* IMMEDIATE).  The driver has foreign keys enforced.                      *)
(***************************************************************************)
EXTENDS Integers, FiniteSets

CONSTANTS
    Users,
    Root,          \* the administrator of bootstrap_app_admin
    Keys,
    Requests,
    Threads,       \* what serves the administrators' calls
    Jobs,          \* what they may ask for: [op, user, next, key, credit]
    MostCost,      \* the most a request may cost, in credit
    MaxWallets,    \* bound: wallets ever made
    Lowest, Highest,   \* bound: no balance leaves -Lowest .. Highest
    None

User == [role : {"admin", "member"}, active : BOOLEAN]
New == [role |-> "new", active |-> FALSE]
Gone == [role |-> "gone", active |-> FALSE]

ASSUME RootAssumption == Root \in Users
ASSUME RequestsAssumption == IsFiniteSet(Requests) /\ Requests # {}
ASSUME CostAssumption == MostCost \in Nat \ {0}
ASSUME BoundsAssumption == MaxWallets \in Nat /\ Lowest \in Nat /\ Highest \in Nat
ASSUME JobsAssumption ==
    \A j \in Jobs :
       /\ j.op \in {"create", "update", "delete", "top up", "set available", "own key"}
       /\ j.user \in Users /\ j.next \in User /\ j.key \in Keys /\ j.credit \in Nat
       /\ j.op = "create" /\ j.next.role = "admin" => j.credit = 0
       /\ j.op = "create" => j.next.active
       /\ j.op = "top up" => j.credit > 0
ASSUME NoneAssumption == None \notin Nat \cup Users \cup [id : Nat, balance : Int]

VARIABLES
    user,          \* app_users: role and status; new before, gone after
    owner,         \* api_key_owners
    wallet,        \* app_wallets, by owner
    made,          \* wallets made so far: the source of their ids
    pc,            \* where each request is
    charging,      \* it is in wallet_charge_for_request, not in the precheck
    key, holder, purse,      \* its key, the owner and the wallet it has read
    step, job, row,          \* where each thread is, in what, and the row it has read
    admitted,      \* history: the wallet that has let each request in
    disturbed,     \* history: requests whose owner has changed since they came
    skewed,        \* history: wallets in debt for others than those they have let in
    overtaken      \* history: threads since whose first read the administrators changed

rows == <<user, owner, wallet, made>>
request == <<pc, charging, key, holder, purse, admitted>>
thread == <<step, job, row>>
vars == <<rows, request, thread, disturbed, skewed, overtaken>>

Exists(u) == user[u] \in User

\* ensure_user_can_own_wallet
CanOwnWallet(u) == user[u] = [role |-> "member", active |-> TRUE]

IsActiveAdmin(x) == x = [role |-> "admin", active |-> TRUE]
ActiveAdmins(x) == {u \in Users : IsActiveAdmin(x[u])}

Init ==
    /\ user = [u \in Users |-> IF u = Root THEN [role |-> "admin", active |-> TRUE] ELSE New]
    /\ owner = [k \in Keys |-> None]
    /\ wallet = [u \in Users |-> None]
    /\ made = 0
    /\ pc = [r \in Requests |-> "idle"]
    /\ charging = [r \in Requests |-> FALSE]
    /\ key = [r \in Requests |-> None]
    /\ holder = [r \in Requests |-> None]
    /\ purse = [r \in Requests |-> None]
    /\ step = [t \in Threads |-> "idle"]
    /\ job = [t \in Threads |-> None]
    /\ row = [t \in Threads |-> None]
    /\ admitted = [r \in Requests |-> None]
    /\ disturbed = {}
    /\ skewed = {}
    /\ overtaken = {}

-----------------------------------------------------------------------------
(* adjust_wallet_balance *)

WalletsOf(id) == {u \in Users : wallet[u] # None /\ wallet[u].id = id}

\* One transaction, on the wallet of that id; it fails if there is none.
Adjust(id, amount) ==
    /\ wallet' = [u \in Users |-> IF u \in WalletsOf(id)
                                  THEN [id |-> id, balance |-> wallet[u].balance + amount]
                                  ELSE wallet[u]]
    /\ \A u \in WalletsOf(id) : wallet'[u].balance \in -Lowest .. Highest

\* History: a wallet that has credit again is in nobody's debt.
Skew(us) == skewed' = {u \in skewed \cup us : wallet'[u] # None /\ wallet'[u].balance <= 0}

-----------------------------------------------------------------------------
(* Requests *)

Goto(r, label) == pc' = [pc EXCEPT ![r] = label]

Leave(r) ==
    /\ Goto(r, "idle")
    /\ charging' = [charging EXCEPT ![r] = FALSE]
    /\ key' = [key EXCEPT ![r] = None]
    /\ holder' = [holder EXCEPT ![r] = None]
    /\ purse' = [purse EXCEPT ![r] = None]
    /\ admitted' = [admitted EXCEPT ![r] = None]
    /\ disturbed' = disturbed \ {r}

Arrive(r, k) ==
    /\ pc[r] = "idle"
    /\ key' = [key EXCEPT ![r] = k]
    /\ Goto(r, "owner")
    /\ UNCHANGED <<rows, charging, holder, purse, admitted, thread, disturbed, skewed, overtaken>>

\* A key without an owner is neither held up nor charged.
FindOwner(r) ==
    /\ pc[r] = "owner"
    /\ \/ /\ owner[key[r]] # None
          /\ holder' = [holder EXCEPT ![r] = owner[key[r]]]
          /\ Goto(r, "user")
          /\ UNCHANGED <<charging, key, purse, admitted, disturbed>>
       \/ /\ owner[key[r]] = None /\ ~charging[r]
          /\ Goto(r, "serving")
          /\ UNCHANGED <<charging, key, holder, purse, admitted, disturbed>>
       \/ owner[key[r]] = None /\ charging[r] /\ Leave(r)
    /\ UNCHANGED <<rows, thread, skewed, overtaken>>

CheckUser(r) ==
    /\ pc[r] = "user"
    /\ \/ /\ CanOwnWallet(holder[r])
          /\ Goto(r, "wallet")
          /\ UNCHANGED <<charging, key, holder, purse, admitted, disturbed>>
       \/ ~CanOwnWallet(holder[r]) /\ Leave(r)
    /\ UNCHANGED <<rows, thread, skewed, overtaken>>

\* Mutant: any wallet will do.
IsWallet(w) == TRUE

\* balance_credit_micros > frozen_credit_micros; nothing is ever frozen.
HasCredit(w) == w.balance > 0

\* Mutant: the charge asks for credit as well.
OnlyWithCredit(r, w) == HasCredit(w)

MayGoOn(r, w) == charging[r] \/ HasCredit(w)

FindWallet(r) ==
    /\ pc[r] = "wallet"
    /\ LET w == wallet[holder[r]]
       IN  \/ /\ w # None /\ ~charging[r] /\ MayGoOn(r, w)
              /\ admitted' = [admitted EXCEPT ![r] = w.id]
              /\ holder' = [holder EXCEPT ![r] = None]
              /\ Goto(r, "serving")
              /\ UNCHANGED <<charging, key, purse, disturbed>>
           \/ /\ w # None /\ charging[r] /\ MayGoOn(r, w)
              /\ purse' = [purse EXCEPT ![r] = w.id]
              /\ holder' = [holder EXCEPT ![r] = None]
              /\ Goto(r, "adjust")
              /\ UNCHANGED <<charging, key, admitted, disturbed>>
           \/ /\ w = None
              /\ Leave(r)
           \/ /\ w # None /\ ~MayGoOn(r, w)
              /\ Leave(r)
    /\ UNCHANGED <<rows, thread, skewed, overtaken>>

\* The request is answered and logged; only a success is charged.
Serve(r, success) ==
    /\ pc[r] = "serving"
    /\ \/ /\ success
          /\ charging' = [charging EXCEPT ![r] = TRUE]
          /\ Goto(r, "owner")
          /\ UNCHANGED <<key, holder, purse, admitted, disturbed>>
       \/ ~success /\ Leave(r)
    /\ UNCHANGED <<rows, thread, skewed, overtaken>>

\* The charge; what rounds to nothing is not charged.
Charge(r, cost) ==
    /\ pc[r] = "adjust"
    /\ Adjust(purse[r], -cost)
    /\ Skew(IF admitted[r] = purse[r] THEN {} ELSE WalletsOf(purse[r]))
    /\ Leave(r)
    /\ UNCHANGED <<user, owner, made, thread, overtaken>>

\* A statement fails: the request is refused, or its charge given up ...
RequestFails(r) ==
    /\ pc[r] \in {"owner", "user", "wallet", "adjust"}
    /\ \/ ~charging[r] /\ Leave(r)
       \/ /\ charging[r]
          /\ Goto(r, "given up")
          /\ holder' = [holder EXCEPT ![r] = None]
          /\ purse' = [purse EXCEPT ![r] = None]
          /\ UNCHANGED <<charging, key, admitted, disturbed>>
    /\ UNCHANGED <<rows, thread, skewed, overtaken>>

\* ... of which only a line of the log tells.
LogChargeFailed(r) ==
    /\ pc[r] = "given up"
    /\ Leave(r)
    /\ UNCHANGED <<rows, thread, skewed, overtaken>>

-----------------------------------------------------------------------------
(* Administrators *)

Finish(t) ==
    /\ step' = [step EXCEPT ![t] = "idle"]
    /\ job' = [job EXCEPT ![t] = None]
    /\ row' = [row EXCEPT ![t] = None]

Proceed(t, label) == step' = [step EXCEPT ![t] = label] /\ UNCHANGED <<job, row>>

\* History: what the change that thread t makes to users and owners means to others.
Noted(t) ==
    /\ disturbed' = disturbed \cup
          {r \in Requests : /\ pc[r] # "idle" /\ (pc[r] = "owner" => charging[r])
                            /\ \/ owner'[key[r]] # owner[key[r]]
                               \/ owner[key[r]] # None /\ user'[owner[key[r]]] # user[owner[key[r]]]}
    /\ overtaken' = {s \in Threads : /\ step'[s] \in {"count", "role", "status", "delete"}
                                      /\ \/ s \in overtaken
                                         \/ s # t /\ ActiveAdmins(user') # ActiveAdmins(user)}

Begin(t, j) ==
    /\ step[t] = "idle"
    /\ step' = [step EXCEPT ![t] = IF j.op = "create" THEN "insert user" ELSE "read"]
    /\ job' = [job EXCEPT ![t] = j]
    /\ UNCHANGED <<rows, request, row, disturbed, skewed, overtaken>>

\* create_app_user; ids are random, so that nobody is created twice.
InsertUser(t) ==
    /\ step[t] = "insert user"
    /\ \/ /\ user[job[t].user] = New
          /\ user' = [user EXCEPT ![job[t].user] = job[t].next]
          /\ IF job[t].next.role = "member" THEN Proceed(t, "find") ELSE Finish(t)
       \/ /\ user[job[t].user] # New
          /\ Finish(t)
          /\ UNCHANGED user
    /\ UNCHANGED <<owner, wallet, made, request, skewed>>
    /\ Noted(t)

Retires(x, j) == IsActiveAdmin(x) /\ (j.op = "delete" \/ ~IsActiveAdmin(j.next))

\* The first read: who is to be changed, or whether the user may own a wallet.
ReadUser(t) ==
    /\ step[t] = "read"
    /\ LET j == job[t]
           x == user[j.user]
       IN  \/ /\ j.op \in {"update", "delete"} /\ Exists(j.user)
              /\ row' = [row EXCEPT ![t] = x]
              /\ step' = [step EXCEPT ![t] = CASE Retires(x, j) -> "count"
                                               [] ~Retires(x, j) /\ j.op = "update" -> "role"
                                               [] ~Retires(x, j) /\ j.op = "delete" -> "delete"]
              /\ UNCHANGED job
           \/ /\ j.op \notin {"update", "delete"} /\ CanOwnWallet(j.user)
              /\ Proceed(t, "find")
           \/ /\ IF j.op \in {"update", "delete"} THEN ~Exists(j.user) ELSE ~CanOwnWallet(j.user)
              /\ Finish(t)
    /\ UNCHANGED <<rows, request, disturbed, skewed, overtaken>>

\* Mutant: one is enough.
ManyOrOne(n) == n >= 1

EnoughAdmins(n) == n > 1

CountAdmins(t) ==
    /\ step[t] = "count"
    /\ IF EnoughAdmins(Cardinality(ActiveAdmins(user)))
       THEN Proceed(t, IF job[t].op = "update" THEN "role" ELSE "delete")
       ELSE Finish(t)
    /\ UNCHANGED <<rows, request, skewed>>
    /\ Noted(t)

\* update_app_user_role and update_app_user_status: only what differs from the row read
UpdateRole(t) ==
    /\ step[t] = "role"
    /\ LET u == job[t].user
           next == job[t].next
       IN  user' = IF Exists(u) /\ row[t].role # next.role
                   THEN [user EXCEPT ![u].role = next.role] ELSE user
    /\ Proceed(t, "status")
    /\ UNCHANGED <<owner, wallet, made, request, skewed>>
    /\ Noted(t)

UpdateStatus(t) ==
    /\ step[t] = "status"
    /\ LET u == job[t].user
           next == job[t].next
       IN  user' = IF Exists(u) /\ row[t].active # next.active
                   THEN [user EXCEPT ![u].active = next.active] ELSE user
    /\ step' = [step EXCEPT ![t] = "reread"]
    /\ row' = [row EXCEPT ![t] = None]
    /\ UNCHANGED job
    /\ UNCHANGED <<owner, wallet, made, request, skewed>>
    /\ Noted(t)

Reread(t) ==
    /\ step[t] = "reread"
    /\ IF Exists(job[t].user) /\ user[job[t].user].role = "member" THEN Proceed(t, "find") ELSE Finish(t)
    /\ UNCHANGED <<rows, request, disturbed, skewed, overtaken>>

\* delete_app_user: one transaction over the user's rows
DeleteUser(t) ==
    /\ step[t] = "delete"
    /\ LET u == job[t].user
       IN  /\ user' = [user EXCEPT ![u] = Gone]
           /\ owner' = [k \in Keys |-> IF owner[k] = u THEN None ELSE owner[k]]
           /\ wallet' = [wallet EXCEPT ![u] = None]
    /\ Finish(t)
    /\ Skew({})
    /\ UNCHANGED <<made, request>>
    /\ Noted(t)

\* What follows once the wallet is there.
Settled(t, w) ==
    /\ row' = [row EXCEPT ![t] = w]
    /\ step' = [step EXCEPT ![t] = IF job[t].op = "own key" THEN "upsert" ELSE "adjust"]
    /\ UNCHANGED job

NothingToAdjust(j, w) ==
    \/ j.op = "update"
    \/ j.op = "create" /\ j.credit = 0
    \/ j.op = "set available" /\ j.credit = w.balance

\* ensure_wallet_for_owner: find, else insert and find again
EnsureWallet(t) ==
    /\ step[t] \in {"find", "find again"}
    /\ LET w == wallet[job[t].user]
       IN  \/ w # None /\ ~NothingToAdjust(job[t], w) /\ Settled(t, w)
           \/ w # None /\ NothingToAdjust(job[t], w) /\ Finish(t)
           \/ w = None /\ step[t] = "find" /\ Proceed(t, "insert")
           \/ w = None /\ step[t] = "find again" /\ Finish(t)
    /\ UNCHANGED <<rows, request, disturbed, skewed, overtaken>>

\* UNIQUE(owner_kind, owner_id) refuses a second wallet.
InsertWallet(t) ==
    /\ step[t] = "insert"
    /\ LET u == job[t].user
       IN  \/ /\ wallet[u] = None /\ made < MaxWallets
              /\ made' = made + 1
              /\ wallet' = [wallet EXCEPT ![u] = [id |-> made', balance |-> 0]]
              /\ Proceed(t, "find again")
           \/ /\ wallet[u] # None
              /\ Finish(t)
              /\ UNCHANGED <<wallet, made>>
    /\ UNCHANGED <<user, owner, request, disturbed, skewed, overtaken>>

Amount(j, w) == IF j.op = "set available" THEN j.credit - w.balance ELSE j.credit

\* History: the difference was that of another balance.
Outdated(t) == {u \in WalletsOf(row[t].id) : job[t].op = "set available" /\ wallet[u] # row[t]}

AdjustWallet(t) ==
    /\ step[t] = "adjust"
    /\ Adjust(row[t].id, Amount(job[t], row[t]))
    /\ Skew(Outdated(t))
    /\ Finish(t)
    /\ UNCHANGED <<user, owner, made, request, disturbed, overtaken>>

\* Mutant: the user need not be there.
AnyUser(u) == TRUE

\* api_key_owners.owner_user_id REFERENCES app_users(id)
IsThere(u) == Exists(u)

UpsertOwner(t) ==
    /\ step[t] = "upsert"
    /\ owner' = IF IsThere(job[t].user) THEN [owner EXCEPT ![job[t].key] = job[t].user] ELSE owner
    /\ Finish(t)
    /\ UNCHANGED <<user, wallet, made, request, skewed>>
    /\ Noted(t)

\* A statement fails, and with it the call: what is done stays done.
CallFails(t) ==
    /\ step[t] # "idle"
    /\ Finish(t)
    /\ UNCHANGED <<rows, request, skewed>>
    /\ Noted(t)

-----------------------------------------------------------------------------
Next ==
    \/ \E r \in Requests :
          \/ \E k \in Keys : Arrive(r, k)
          \/ FindOwner(r) \/ CheckUser(r) \/ FindWallet(r)
          \/ \E success \in BOOLEAN : Serve(r, success)
          \/ \E cost \in 0 .. MostCost : Charge(r, cost)
          \/ RequestFails(r) \/ LogChargeFailed(r)
    \/ \E t \in Threads :
          \/ \E j \in Jobs : Begin(t, j)
          \/ InsertUser(t) \/ ReadUser(t) \/ CountAdmins(t)
          \/ UpdateRole(t) \/ UpdateStatus(t) \/ Reread(t) \/ DeleteUser(t)
          \/ EnsureWallet(t) \/ InsertWallet(t) \/ AdjustWallet(t) \/ UpsertOwner(t)
          \/ CallFails(t)

Spec == Init /\ [][Next]_vars

-----------------------------------------------------------------------------
(* Properties *)

Wallet == [id : 1 .. made, balance : -Lowest .. Highest]

RowsTypeOK ==
    /\ user \in [Users -> User \cup {New, Gone}]
    /\ owner \in [Keys -> Users \cup {None}]
    /\ \A k \in Keys : owner[k] # None => Exists(owner[k])
    /\ made \in 0 .. MaxWallets
    /\ wallet \in [Users -> Wallet \cup {None}]
    /\ \A u, v \in Users : wallet[u] # None /\ wallet[v] # None /\ wallet[u].id = wallet[v].id => u = v
    /\ skewed \subseteq {u \in Users : wallet[u] # None /\ wallet[u].balance <= 0}

RequestsTypeOK ==
    /\ pc \in [Requests -> {"idle", "owner", "user", "wallet", "serving", "adjust", "given up"}]
    /\ charging \in [Requests -> BOOLEAN]
    /\ key \in [Requests -> Keys \cup {None}]
    /\ holder \in [Requests -> Users \cup {None}]
    /\ purse \in [Requests -> 1 .. made \cup {None}]
    /\ admitted \in [Requests -> 1 .. made \cup {None}]
    /\ \A r \in Requests :
          /\ pc[r] # "idle" => key[r] \in Keys
          /\ pc[r] \in {"user", "wallet"} => holder[r] \in Users
          /\ pc[r] = "adjust" => charging[r] /\ purse[r] \in 1 .. made
          /\ pc[r] = "serving" => ~charging[r]
    /\ disturbed \subseteq Requests

\* What each step of a call is for, and what its row is.
StepTypeOK(t) ==
    /\ step[t] # "idle" => job[t] \in Jobs
    /\ step[t] = "insert user" => job[t].op = "create"
    /\ step[t] \in {"count", "role", "status", "delete"} => row[t] \in User
    /\ step[t] = "count" => job[t].op \in {"update", "delete"}
    /\ step[t] \in {"role", "status", "reread"} => job[t].op = "update"
    /\ step[t] = "delete" => job[t].op = "delete"
    /\ step[t] = "adjust" => row[t] \in Wallet

ThreadsTypeOK ==
    /\ step \in [Threads -> {"idle", "insert user", "read", "count", "role", "status", "reread",
                              "delete", "find", "insert", "find again", "adjust", "upsert"}]
    /\ job \in [Threads -> Jobs \cup {None}]
    /\ row \in [Threads -> User \cup Wallet \cup {None}]
    /\ \A t \in Threads : StepTypeOK(t)
    /\ overtaken \subseteq {t \in Threads : step[t] \in {"count", "role", "status", "delete"}}

TypeOK == RowsTypeOK /\ RequestsTypeOK /\ ThreadsTypeOK

\* The balance is looked at before a request and charged after it.  However requests and
\* administrators race, a wallet gets no deeper into debt than all requests at once cost;
\* unless it was charged for a request that another wallet (or none) has let in, the key
\* having changed hands, or was set by a difference to an outdated balance.
DebtIsBounded ==
    \A u \in Users :
       wallet[u] # None /\ u \notin skewed =>
          wallet[u].balance >= -(Cardinality(Requests) * MostCost)

\* A success of a key with an owner is charged, in debt or not, unless an administrator
\* has changed its owner since it came, or a statement fails.
Unbilled(r) == charging[r] /\ pc'[r] = "idle" /\ pc[r] \notin {"adjust", "given up"}
SuccessIsCharged ==
    [][\A r \in Requests : Unbilled(r) => admitted[r] = None \/ r \in disturbed]_vars

\* The last active administrator stays (update_app_user and delete_app_user refuse to
\* retire it), unless another call has changed the administrators between the reads and
\* the write of the call that retires it, or an update makes the administrator with its
\* first statement and unmakes it with its second.
LastAdminStays ==
    [][ActiveAdmins(user) # {} /\ ActiveAdmins(user)' = {} =>
          \E t \in Threads :
             /\ step[t] \in {"role", "status", "delete"} /\ step'[t] # step[t]
             /\ \/ t \in overtaken
                \/ step[t] = "status" /\ ~IsActiveAdmin(row[t])]_vars

=============================================================================
