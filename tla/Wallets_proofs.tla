--------------------------- MODULE Wallets_proofs ---------------------------
(***************************************************************************)
(* Credit and administrators for any number of users, keys, requests and   *)
(* administrators' calls.                                                  *)
(*                                                                         *)
(* None of the three properties is inductive.  What a wallet may owe       *)
(* depends on how many requests it has let in and not yet seen the end of  *)
(* (DebtIsCovered); that a success finds its wallet depends on what the    *)
(* request has seen, as long as nobody disturbs it (SeenStillHolds); that  *)
(* an administrator is left depends on what a call has read and counted,   *)
(* as long as nobody overtakes it (CountStillHolds).                       *)
(***************************************************************************)
EXTENDS Wallets, FiniteSetTheorems, TLAPS

\* The requests a wallet has let in and that have not left.
LetIn(id) == {r \in Requests : admitted[r] = id}

\* What it could still be charged for the others.
Allowance(id) == (Cardinality(Requests) - Cardinality(LetIn(id))) * MostCost

\* The deeper a wallet is in debt, the fewer requests it has let in are still to be charged.
DebtIsCovered ==
    \A u \in Users, id \in 1 .. made :
       wallet[u] # None /\ wallet[u].id = id /\ u \notin skewed => wallet[u].balance >= -Allowance(id)

\* A request has been let in by nobody before it is.
NotYetLetIn ==
    \A r \in Requests :
       \/ pc[r] = "idle"
       \/ pc[r] \in {"owner", "user", "wallet"} /\ ~charging[r]
       => admitted[r] = None

\* What a request has found of its key's owner is still so.
Sees(r) ==
    LET u == owner[key[r]]
    IN  /\ pc[r] \in {"user", "wallet"} => u # None /\ holder[r] = u
        /\ pc[r] = "wallet" => CanOwnWallet(u)
        /\ admitted[r] # None => u # None /\ CanOwnWallet(u) /\ wallet[u] # None

SeenStillHolds == \A r \in Requests \ disturbed : Sees(r)

\* What a call has found of the administrators is still so.
Counts(t) ==
    LET others == ActiveAdmins(user) \ {job[t].user}
    IN  /\ step[t] = "count" => Retires(row[t], job[t])
        /\ step[t] \in {"role", "status", "delete"} /\ Retires(row[t], job[t]) => others # {}
        /\ step[t] \in {"role", "delete"} /\ ~IsActiveAdmin(row[t]) => job[t].user \notin ActiveAdmins(user)

CountStillHolds == \A t \in Threads \ overtaken : Counts(t)

IInv == TypeOK /\ DebtIsCovered /\ NotYetLetIn /\ SeenStillHolds /\ CountStillHolds

-----------------------------------------------------------------------------
(* Types *)

\* What a request may do, and what a call may do.
RequestStep(r) ==
    \/ \E k \in Keys : Arrive(r, k)
    \/ FindOwner(r) \/ CheckUser(r) \/ FindWallet(r)
    \/ \E success \in BOOLEAN : Serve(r, success)
    \/ \E cost \in 0 .. MostCost : Charge(r, cost)
    \/ RequestFails(r) \/ LogChargeFailed(r)

CallStep(t) ==
    \/ \E j \in Jobs : Begin(t, j)
    \/ InsertUser(t) \/ ReadUser(t) \/ CountAdmins(t)
    \/ UpdateRole(t) \/ UpdateStatus(t) \/ Reread(t) \/ DeleteUser(t)
    \/ EnsureWallet(t) \/ InsertWallet(t) \/ AdjustWallet(t) \/ UpsertOwner(t)
    \/ CallFails(t)

LEMMA NextIsStep == Next <=> (\E r \in Requests : RequestStep(r)) \/ (\E t \in Threads : CallStep(t))
  BY DEF Next, RequestStep, CallStep

LEMMA InitTypeOK == Init => TypeOK
<1> SUFFICES ASSUME Init PROVE TypeOK
  OBVIOUS
<1>1. RowsTypeOK
  BY RootAssumption, BoundsAssumption DEF Init, RowsTypeOK, User, Wallet, New
<1>2. RequestsTypeOK
  BY DEF Init, RequestsTypeOK
<1>3. ThreadsTypeOK
  BY DEF Init, ThreadsTypeOK, StepTypeOK
<1> QED BY <1>1, <1>2, <1>3 DEF TypeOK

\* A request that leaves has nothing any more.
LEMMA LeaveTypeOK ==
  ASSUME RequestsTypeOK, made' = made, NEW r \in Requests, Leave(r) PROVE RequestsTypeOK'
  BY DEF RequestsTypeOK, Leave, Goto

LEMMA RequestsStepTypeOK ==
  ASSUME RowsTypeOK, RequestsTypeOK, NEW r \in Requests, RequestStep(r) PROVE RequestsTypeOK'
<1>1. ASSUME NEW k \in Keys, Arrive(r, k) PROVE RequestsTypeOK'
  BY <1>1 DEF Arrive, Goto, rows, RequestsTypeOK
<1>2. CASE FindOwner(r)
  <2>1. owner[key[r]] # None => owner[key[r]] \in Users
    BY <1>2 DEF FindOwner, RequestsTypeOK, RowsTypeOK
  <2>2. CASE Leave(r)
    BY <1>2, <2>2, LeaveTypeOK DEF FindOwner, rows
  <2>3. CASE ~Leave(r)
    <3>1. /\ made' = made /\ UNCHANGED <<charging, key, purse, admitted, disturbed>>
          /\ \/ /\ pc' = [pc EXCEPT ![r] = "user"] /\ owner[key[r]] \in Users
                /\ holder' = [holder EXCEPT ![r] = owner[key[r]]]
             \/ pc' = [pc EXCEPT ![r] = "serving"] /\ ~charging[r] /\ UNCHANGED holder
      BY <1>2, <2>1, <2>3 DEF FindOwner, Goto, rows
    <3>2. pc[r] = "owner"
      BY <1>2 DEF FindOwner
    <3> QED BY <3>1, <3>2 DEF RequestsTypeOK
  <2> QED BY <2>2, <2>3
<1>3. CASE CheckUser(r)
  BY <1>3, LeaveTypeOK DEF CheckUser, Goto, rows, RequestsTypeOK
<1>4. CASE FindWallet(r)
  <2>1. wallet[holder[r]] # None => wallet[holder[r]].id \in 1 .. made
    BY <1>4 DEF FindWallet, RequestsTypeOK, RowsTypeOK, Wallet
  <2>2. CASE Leave(r)
    BY <1>4, <2>2, LeaveTypeOK DEF FindWallet, rows
  <2>3. CASE ~Leave(r)
    <3> DEFINE w == wallet[holder[r]]
    <3>1. /\ made' = made /\ UNCHANGED <<charging, key, disturbed>>
          /\ holder' = [holder EXCEPT ![r] = None] /\ w.id \in 1 .. made
          /\ \/ /\ pc' = [pc EXCEPT ![r] = "serving"] /\ ~charging[r]
                /\ admitted' = [admitted EXCEPT ![r] = w.id] /\ UNCHANGED purse
             \/ /\ pc' = [pc EXCEPT ![r] = "adjust"] /\ charging[r]
                /\ purse' = [purse EXCEPT ![r] = w.id] /\ UNCHANGED admitted
      BY <1>4, <2>1, <2>3 DEF FindWallet, Goto, rows
    <3>2. pc[r] = "wallet"
      BY <1>4 DEF FindWallet
    <3> QED BY <3>1, <3>2 DEF RequestsTypeOK
  <2> QED BY <2>2, <2>3
<1>5. ASSUME NEW success \in BOOLEAN, Serve(r, success) PROVE RequestsTypeOK'
  BY <1>5, LeaveTypeOK DEF Serve, Goto, rows, RequestsTypeOK
<1>6. ASSUME NEW cost \in 0 .. MostCost, Charge(r, cost) PROVE RequestsTypeOK'
  BY <1>6, LeaveTypeOK DEF Charge
<1>7. CASE RequestFails(r)
  <2>1. CASE Leave(r)
    BY <1>7, <2>1, LeaveTypeOK DEF RequestFails, rows
  <2>2. CASE ~Leave(r)
    <3>1. /\ made' = made /\ UNCHANGED <<charging, key, admitted, disturbed>>
          /\ pc' = [pc EXCEPT ![r] = "given up"] /\ pc[r] # "idle"
          /\ holder' = [holder EXCEPT ![r] = None] /\ purse' = [purse EXCEPT ![r] = None]
      BY <1>7, <2>2 DEF RequestFails, Goto, rows
    <3> QED BY <3>1 DEF RequestsTypeOK
  <2> QED BY <2>1, <2>2
<1>8. CASE LogChargeFailed(r)
  BY <1>8, LeaveTypeOK DEF LogChargeFailed, rows
<1> QED BY <1>1, <1>2, <1>3, <1>4, <1>5, <1>6, <1>7, <1>8 DEF RequestStep

LEMMA WalletIsNotNone ==
  ASSUME RowsTypeOK, NEW w \in Wallet PROVE w # None
<1>1. 1 .. made \subseteq Nat /\ -Lowest .. Highest \subseteq Int
  BY BoundsAssumption DEF RowsTypeOK
<1>2. w \in [id : Nat, balance : Int]
  BY <1>1 DEF Wallet
<1> QED BY <1>2, NoneAssumption

\* An adjustment changes balances, and none of them beyond the bounds.
LEMMA AdjustTypeOK ==
  ASSUME RowsTypeOK, NEW id, NEW amount \in Int, Adjust(id, amount)
  PROVE  /\ wallet' \in [Users -> Wallet \cup {None}]
         /\ \A u \in Users : u \in WalletsOf(id) =>
                 wallet'[u] = [id |-> id, balance |-> wallet[u].balance + amount]
         /\ \A u \in Users : u \notin WalletsOf(id) => wallet'[u] = wallet[u]
         /\ \A u \in Users : wallet'[u] # None <=> wallet[u] # None
         /\ \A u \in Users : wallet[u] # None => wallet'[u].id = wallet[u].id
<1>1. \A u \in WalletsOf(id) : u \in Users /\ wallet[u] # None /\ wallet[u] \in Wallet /\ wallet[u].id = id
                           /\ id \in 1 .. made
  BY DEF WalletsOf, RowsTypeOK, Wallet
<1>2. \A u \in WalletsOf(id) :
         /\ wallet'[u] = [id |-> id, balance |-> wallet[u].balance + amount]
         /\ wallet'[u].balance \in -Lowest .. Highest
  BY <1>1 DEF Adjust
<1>3. \A u \in WalletsOf(id) : wallet'[u] \in Wallet /\ wallet'[u].id = wallet[u].id
  <2> SUFFICES ASSUME NEW u \in WalletsOf(id)
               PROVE  wallet'[u] \in Wallet /\ wallet'[u].id = wallet[u].id
    OBVIOUS
  <2> DEFINE b == wallet[u].balance + amount
  <2>1. wallet'[u] = [id |-> id, balance |-> b] /\ b \in -Lowest .. Highest
    BY <1>2
  <2> HIDE DEF b
  <2> QED BY <1>1, <2>1 DEF Wallet
<1>4. \A w \in Wallet : w # None
  BY WalletIsNotNone
<1>5. \A u \in Users : u \notin WalletsOf(id) => wallet'[u] = wallet[u]
  BY DEF Adjust
<1>6. wallet' \in [Users -> Wallet \cup {None}]
  BY <1>1, <1>3, <1>5 DEF Adjust, RowsTypeOK
<1> QED BY <1>1, <1>2, <1>3, <1>4, <1>5, <1>6

LEMMA AmountIsInteger ==
  ASSUME NEW j, j.credit \in Nat, NEW w \in Wallet PROVE Amount(j, w) \in Int /\ w.balance \in Int
<1>1. -Lowest .. Highest \subseteq Int
  BY BoundsAssumption
<1>2. w.balance \in Int
  BY <1>1 DEF Wallet
<1>3. j.credit - w.balance \in Int /\ j.credit \in Int
  BY <1>2
<1> QED BY <1>2, <1>3 DEF Amount

\* History: those in debt are so after an adjustment.
LEMMA SkewTypeOK ==
  ASSUME skewed \subseteq Users, NEW us \in SUBSET Users, Skew(us)
  PROVE  skewed' \subseteq {u \in Users : wallet'[u] # None /\ wallet'[u].balance <= 0}
  BY DEF Skew

LEMMA RequestRowsTypeOK ==
  ASSUME RowsTypeOK, RequestsTypeOK, NEW r \in Requests, RequestStep(r) PROVE RowsTypeOK'
<1>1. ASSUME NEW cost \in 0 .. MostCost, Charge(r, cost) PROVE RowsTypeOK'
  <2>1. Adjust(purse[r], -cost) /\ -cost \in Int /\ UNCHANGED <<user, owner, made>>
    BY <1>1, CostAssumption DEF Charge
  <2>2. skewed' \subseteq {u \in Users : wallet'[u] # None /\ wallet'[u].balance <= 0}
    BY <1>1, SkewTypeOK DEF Charge, WalletsOf, RowsTypeOK
  <2> QED BY <2>1, <2>2, AdjustTypeOK DEF RowsTypeOK, Exists, Wallet
<1>2. CASE UNCHANGED <<rows, skewed>>
  BY <1>2 DEF RowsTypeOK, rows, Exists, Wallet
<1> QED
  BY <1>1, <1>2 DEF RequestStep, Arrive, FindOwner, CheckUser, FindWallet, Serve, RequestFails,
     LogChargeFailed

LEMMA WalletsStay ==
  ASSUME made \in Nat, made' \in Nat, made' >= made PROVE Wallet \subseteq Wallet'
<1>1. 1 .. made \subseteq 1 .. made'
  OBVIOUS
<1> QED BY <1>1 DEF Wallet

\* The steps at which a call has read what it is about to change.
HasRead(s) == s \in {"count", "role", "status", "delete"}

\* A call comes to an end.
LEMMA FinishTypeOK ==
  ASSUME ThreadsTypeOK, NEW t \in Threads, Finish(t), Wallet \subseteq Wallet',
         overtaken' \subseteq {s \in Threads : HasRead(step'[s])}
  PROVE  ThreadsTypeOK'
<1>1. \A s \in Threads : StepTypeOK(s)'
  BY DEF ThreadsTypeOK, StepTypeOK, Finish
<1> QED BY <1>1 DEF ThreadsTypeOK, Finish, HasRead

\* A call goes on to its next step, with the row it has just read or none.
LEMMA GoOnTypeOK ==
  ASSUME ThreadsTypeOK, NEW t \in Threads, NEW label, NEW x \in User \cup Wallet \cup {None},
         label \in {"count", "role", "status", "reread", "delete", "find", "insert", "find again",
                   "adjust", "upsert"},
         step' = [step EXCEPT ![t] = label], job' = job, row' = [row EXCEPT ![t] = x],
         step[t] # "idle",
         HasRead(label) => x \in User,
         label = "count" => job[t].op \in {"update", "delete"},
         label \in {"role", "status", "reread"} => job[t].op = "update",
         label = "delete" => job[t].op = "delete",
         label = "adjust" => x \in Wallet,
         Wallet \subseteq Wallet',
         overtaken' \subseteq {s \in Threads : HasRead(step'[s])}
  PROVE  ThreadsTypeOK'
<1>1. \A s \in Threads : StepTypeOK(s)'
  BY DEF ThreadsTypeOK, StepTypeOK, HasRead
<1>2. step' \in [Threads -> {"idle", "insert user", "read", "count", "role", "status", "reread",
                            "delete", "find", "insert", "find again", "adjust", "upsert"}]
  BY DEF ThreadsTypeOK
<1> QED BY <1>1, <1>2 DEF ThreadsTypeOK, HasRead

LEMMA ProceedTypeOK ==
  ASSUME ThreadsTypeOK, NEW t \in Threads, NEW label, Proceed(t, label), step[t] # "idle",
         label \in {"count", "role", "status", "reread", "delete", "find", "insert", "find again",
                   "adjust", "upsert"},
         HasRead(label) => row[t] \in User,
         label = "count" => job[t].op \in {"update", "delete"},
         label \in {"role", "status", "reread"} => job[t].op = "update",
         label = "delete" => job[t].op = "delete",
         label = "adjust" => row[t] \in Wallet,
         Wallet \subseteq Wallet',
         overtaken' \subseteq {s \in Threads : HasRead(step'[s])}
  PROVE  ThreadsTypeOK'
<1>1. row' = [row EXCEPT ![t] = row[t]] /\ row[t] \in User \cup Wallet \cup {None}
  BY DEF Proceed, ThreadsTypeOK
<1> QED BY <1>1, GoOnTypeOK DEF Proceed

\* Only calls that have read are overtaken.
LEMMA OvertakenHaveRead ==
  ASSUME ThreadsTypeOK, NEW t \in Threads, CallStep(t)
  PROVE  overtaken' \subseteq {s \in Threads : HasRead(step'[s])}
<1>1. CASE Noted(t)
  BY <1>1 DEF Noted, HasRead
<1>2. CASE /\ overtaken' = overtaken /\ ~HasRead(step[t])
           /\ \E label : step' = [step EXCEPT ![t] = label]
  BY <1>2 DEF ThreadsTypeOK, HasRead
<1> QED
  BY <1>1, <1>2 DEF CallStep, Begin, InsertUser, ReadUser, CountAdmins, UpdateRole, UpdateStatus, Reread,
     DeleteUser, EnsureWallet, InsertWallet, AdjustWallet, UpsertOwner, CallFails, Finish, Proceed,
     Settled, HasRead

LEMMA WalletsAreKept ==
  ASSUME RowsTypeOK, NEW t \in Threads, CallStep(t)
  PROVE  /\ made \in Nat /\ made' \in 0 .. MaxWallets /\ made' >= made
         /\ Wallet \subseteq Wallet'
<1>1. made \in Nat /\ made' \in 0 .. MaxWallets /\ made' >= made
  <2>1. CASE InsertWallet(t)
    <3>1. (made' = made + 1 /\ made < MaxWallets) \/ made' = made
      BY <2>1 DEF InsertWallet
    <3> QED BY <3>1, BoundsAssumption DEF RowsTypeOK
  <2>2. CASE UNCHANGED made
    BY <2>2, BoundsAssumption DEF RowsTypeOK
  <2> QED
    BY <2>1, <2>2 DEF CallStep, Begin, InsertUser, ReadUser, CountAdmins, UpdateRole, UpdateStatus,
       Reread, DeleteUser, EnsureWallet, AdjustWallet, UpsertOwner, CallFails, rows
<1> QED BY <1>1, WalletsStay, BoundsAssumption

LEMMA ThreadsStepTypeOK ==
  ASSUME RowsTypeOK, ThreadsTypeOK, NEW t \in Threads, CallStep(t) PROVE ThreadsTypeOK'
<1>1. overtaken' \subseteq {s \in Threads : HasRead(step'[s])} /\ Wallet \subseteq Wallet'
  BY OvertakenHaveRead, WalletsAreKept
<1>2. ASSUME NEW j \in Jobs, Begin(t, j) PROVE ThreadsTypeOK'
  <2>1. \A s \in Threads : StepTypeOK(s)'
    BY <1>1, <1>2 DEF Begin, ThreadsTypeOK, StepTypeOK
  <2> QED BY <1>1, <1>2, <2>1 DEF Begin, ThreadsTypeOK, HasRead
<1>3. CASE InsertUser(t)
  BY <1>1, <1>3, ProceedTypeOK, FinishTypeOK DEF InsertUser, HasRead
<1>4. CASE ReadUser(t)
  <2>1. CASE Finish(t)
    BY <1>1, <2>1, FinishTypeOK
  <2>2. CASE Proceed(t, "find")
    BY <1>1, <1>4, <2>2, ProceedTypeOK DEF ReadUser, HasRead
  <2>3. CASE ~Finish(t) /\ ~Proceed(t, "find")
    <3>1. /\ job[t].op \in {"update", "delete"} /\ Exists(job[t].user)
          /\ row' = [row EXCEPT ![t] = user[job[t].user]] /\ job' = job
          /\ step[t] = "read"
      BY <1>4, <2>3 DEF ReadUser
    <3>2. PICK label \in {"count", "role", "delete"} :
             /\ step' = [step EXCEPT ![t] = label]
             /\ label = "role" => job[t].op = "update"
             /\ label = "delete" => job[t].op = "delete"
      BY <1>4, <2>3, <3>1 DEF ReadUser
    <3> QED BY <1>1, <3>1, <3>2, GoOnTypeOK DEF HasRead, Exists
  <2> QED BY <2>1, <2>2, <2>3
<1>5. CASE CountAdmins(t)
  BY <1>1, <1>5, ProceedTypeOK, FinishTypeOK DEF CountAdmins, HasRead, ThreadsTypeOK, StepTypeOK
<1>6. CASE UpdateRole(t)
  BY <1>1, <1>6, ProceedTypeOK DEF UpdateRole, HasRead, ThreadsTypeOK, StepTypeOK
<1>7. CASE UpdateStatus(t)
  BY <1>1, <1>7, GoOnTypeOK DEF UpdateStatus, HasRead, ThreadsTypeOK, StepTypeOK
<1>8. CASE Reread(t)
  BY <1>1, <1>8, ProceedTypeOK, FinishTypeOK DEF Reread, HasRead
<1>9. CASE DeleteUser(t) \/ AdjustWallet(t) \/ UpsertOwner(t) \/ CallFails(t)
  BY <1>1, <1>9, FinishTypeOK DEF DeleteUser, AdjustWallet, UpsertOwner, CallFails
<1>10. CASE EnsureWallet(t)
  <2>1. CASE Finish(t)
    BY <1>1, <2>1, FinishTypeOK
  <2>2. CASE Proceed(t, "insert")
    BY <1>1, <1>10, <2>2, ProceedTypeOK DEF EnsureWallet, HasRead
  <2>3. ASSUME wallet[job[t].user] # None, Settled(t, wallet[job[t].user]) PROVE ThreadsTypeOK'
    <3>1. step[t] # "idle" /\ job[t].user \in Users
      BY <1>10, JobsAssumption DEF EnsureWallet, ThreadsTypeOK, StepTypeOK
    <3>2. wallet[job[t].user] \in Wallet
      BY <2>3, <3>1 DEF RowsTypeOK
    <3>3. PICK label \in {"upsert", "adjust"} :
             /\ step' = [step EXCEPT ![t] = label] /\ job' = job
             /\ row' = [row EXCEPT ![t] = wallet[job[t].user]]
      BY <2>3 DEF Settled
    <3> QED BY <1>1, <3>1, <3>2, <3>3, GoOnTypeOK DEF HasRead
  <2> QED BY <1>10, <2>1, <2>2, <2>3 DEF EnsureWallet
<1>11. CASE InsertWallet(t)
  BY <1>1, <1>11, ProceedTypeOK, FinishTypeOK DEF InsertWallet, HasRead
<1> QED
  BY <1>2, <1>3, <1>4, <1>5, <1>6, <1>7, <1>8, <1>9, <1>10, <1>11 DEF CallStep

LEMMA CallRequestsTypeOK ==
  ASSUME RowsTypeOK, RequestsTypeOK, NEW t \in Threads, CallStep(t) PROVE RequestsTypeOK'
<1>1. 1 .. made \subseteq 1 .. made'
  BY WalletsAreKept, BoundsAssumption
<1>2. request' = request
  BY DEF CallStep, Begin, InsertUser, ReadUser, CountAdmins, UpdateRole, UpdateStatus, Reread,
     DeleteUser, EnsureWallet, InsertWallet, AdjustWallet, UpsertOwner, CallFails
<1>3. disturbed' = disturbed \/ Noted(t)
  BY DEF CallStep, Begin, InsertUser, ReadUser, CountAdmins, UpdateRole, UpdateStatus, Reread,
     DeleteUser, EnsureWallet, InsertWallet, AdjustWallet, UpsertOwner, CallFails
<1>4. disturbed' \subseteq Requests
  BY <1>3 DEF Noted, RequestsTypeOK
<1> QED BY <1>1, <1>2, <1>4 DEF RequestsTypeOK, request

LEMMA RequestThreadsTypeOK ==
  ASSUME ThreadsTypeOK, NEW r \in Requests, RequestStep(r) PROVE ThreadsTypeOK'
<1>1. UNCHANGED <<thread, overtaken, made>>
  BY DEF RequestStep, Arrive, FindOwner, CheckUser, FindWallet, Serve, Charge, RequestFails,
     LogChargeFailed, rows
<1> QED BY <1>1 DEF ThreadsTypeOK, StepTypeOK, thread, Wallet

\* What the rows of users may become: those of others stay, and nobody who was there is
\* new again.
LEMMA CallRowsTypeOK ==
  ASSUME RowsTypeOK, ThreadsTypeOK, NEW t \in Threads, CallStep(t) PROVE RowsTypeOK'
<1>1. made' \in 0 .. MaxWallets /\ made \in Nat /\ made' >= made /\ Wallet \subseteq Wallet'
  BY WalletsAreKept
<1>2. step[t] # "idle" => job[t] \in Jobs /\ job[t].user \in Users /\ job[t].next \in User
                          /\ job[t].key \in Keys /\ job[t].credit \in Nat
  BY JobsAssumption DEF ThreadsTypeOK, StepTypeOK
<1>3. CASE UNCHANGED <<rows, skewed>>
  BY <1>3 DEF RowsTypeOK, rows, Exists, Wallet
<1>4. ASSUME UNCHANGED <<owner, wallet, made, skewed>>, user' \in [Users -> User \cup {New, Gone}],
             \A u \in Users : Exists(u) => Exists(u)'
      PROVE  RowsTypeOK'
  BY <1>4 DEF RowsTypeOK, Wallet
<1>5. CASE InsertUser(t)
  <2>1. user' \in [Users -> User \cup {New, Gone}]
    BY <1>2, <1>5 DEF InsertUser, RowsTypeOK
  <2>2. \A u \in Users : Exists(u) => Exists(u)'
    BY <1>2, <1>5 DEF InsertUser, RowsTypeOK, Exists
  <2> QED BY <1>4, <1>5, <2>1, <2>2 DEF InsertUser
<1>6. ASSUME NEW u \in Users, Exists(u), NEW x \in User, user' = [user EXCEPT ![u] = x],
             UNCHANGED <<owner, wallet, made, skewed>>
      PROVE  RowsTypeOK'
  BY <1>4, <1>6 DEF RowsTypeOK, Exists
<1>7. CASE UpdateRole(t)
  <2>1. CASE user' = user
    BY <1>4, <1>7, <2>1 DEF UpdateRole, RowsTypeOK, Exists
  <2>2. CASE user' # user
    <3> DEFINE u == job[t].user
               x == [user[u] EXCEPT !.role = job[t].next.role]
    <3>1. u \in Users /\ Exists(u) /\ user' = [user EXCEPT ![u] = x]
      BY <1>2, <1>7, <2>2 DEF UpdateRole
    <3>2. x \in User
      BY <1>2, <1>7, <3>1 DEF UpdateRole, Exists, User
    <3> QED BY <1>6, <1>7, <3>1, <3>2 DEF UpdateRole
  <2> QED BY <2>1, <2>2
<1>8. CASE UpdateStatus(t)
  <2>1. CASE user' = user
    BY <1>4, <1>8, <2>1 DEF UpdateStatus, RowsTypeOK, Exists
  <2>2. CASE user' # user
    <3> DEFINE u == job[t].user
               x == [user[u] EXCEPT !.active = job[t].next.active]
    <3>1. u \in Users /\ Exists(u) /\ user' = [user EXCEPT ![u] = x]
      BY <1>2, <1>8, <2>2 DEF UpdateStatus
    <3>2. x \in User
      BY <1>2, <1>8, <3>1 DEF UpdateStatus, Exists, User
    <3> QED BY <1>6, <1>8, <3>1, <3>2 DEF UpdateStatus
  <2> QED BY <2>1, <2>2
<1>9. CASE DeleteUser(t)
  <2>1. skewed' \subseteq {u \in Users : wallet'[u] # None /\ wallet'[u].balance <= 0}
    BY <1>9, SkewTypeOK DEF DeleteUser, RowsTypeOK
  <2>2. /\ job[t].user \in Users /\ made' = made
        /\ user' = [user EXCEPT ![job[t].user] = Gone]
        /\ owner' = [k \in Keys |-> IF owner[k] = job[t].user THEN None ELSE owner[k]]
        /\ wallet' = [wallet EXCEPT ![job[t].user] = None]
    BY <1>2, <1>9 DEF DeleteUser
  <2>3. \A k \in Keys : owner'[k] # None => Exists(owner[k])'
    <3>1. \A v \in Users : v # job[t].user /\ Exists(v) => Exists(v)'
      BY <2>2 DEF RowsTypeOK, Exists
    <3> QED BY <2>2, <3>1 DEF RowsTypeOK
  <2>4. wallet' \in [Users -> Wallet' \cup {None}] /\ user' \in [Users -> User \cup {New, Gone}]
    BY <1>1, <2>2 DEF RowsTypeOK
  <2>5. owner' \in [Keys -> Users \cup {None}]
    BY <2>2 DEF RowsTypeOK
  <2>6. \A u \in Users : wallet'[u] # None => wallet'[u] = wallet[u]
    BY <2>2 DEF RowsTypeOK
  <2> QED BY <1>1, <2>1, <2>2, <2>3, <2>4, <2>5, <2>6 DEF RowsTypeOK
<1>10. CASE InsertWallet(t)
  <2>1. CASE UNCHANGED <<wallet, made>>
    BY <1>3, <1>10, <2>1 DEF InsertWallet, rows
  <2>2. CASE ~UNCHANGED <<wallet, made>>
    <3> DEFINE u == job[t].user
               w == [id |-> made', balance |-> 0]
    <3>1. /\ u \in Users /\ wallet[u] = None /\ made' = made + 1
          /\ wallet' = [wallet EXCEPT ![u] = w]
          /\ UNCHANGED <<user, owner, skewed>>
      BY <1>2, <1>10, <2>2 DEF InsertWallet
    <3>2. w \in Wallet' /\ w.id = made'
      BY <1>1, <3>1, BoundsAssumption DEF Wallet
    <3>3. wallet' \in [Users -> Wallet' \cup {None}]
      BY <1>1, <3>1, <3>2 DEF RowsTypeOK
    <3>4. \A v \in Users : wallet[v] # None => wallet[v].id # made'
      BY <1>1, <3>1 DEF RowsTypeOK, Wallet
    <3>5. \A v, x \in Users : wallet'[v] # None /\ wallet'[x] # None /\ wallet'[v].id = wallet'[x].id
                              => v = x
      BY <3>1, <3>2, <3>4 DEF RowsTypeOK
    <3>6. u \notin skewed
      BY <3>1 DEF RowsTypeOK
    <3> QED BY <1>1, <3>1, <3>3, <3>5, <3>6 DEF RowsTypeOK, Exists
  <2> QED BY <2>1, <2>2
<1>11. CASE AdjustWallet(t)
  <2>1. /\ Adjust(row[t].id, Amount(job[t], row[t])) /\ Skew(Outdated(t))
        /\ UNCHANGED <<user, owner, made>>
    BY <1>11 DEF AdjustWallet
  <2>2. row[t] \in Wallet /\ job[t].credit \in Nat
    BY <1>2, <1>11 DEF AdjustWallet, ThreadsTypeOK, StepTypeOK
  <2>3. Amount(job[t], row[t]) \in Int
    BY <2>2, AmountIsInteger
  <2>4. skewed' \subseteq {u \in Users : wallet'[u] # None /\ wallet'[u].balance <= 0}
    BY <2>1, SkewTypeOK DEF Outdated, WalletsOf, RowsTypeOK
  <2> QED BY <2>1, <2>3, <2>4, AdjustTypeOK DEF RowsTypeOK, Exists, Wallet
<1>12. CASE UpsertOwner(t)
  BY <1>2, <1>12 DEF UpsertOwner, IsThere, RowsTypeOK, Exists, Wallet
<1> QED
  BY <1>3, <1>5, <1>7, <1>8, <1>9, <1>10, <1>11, <1>12 DEF CallStep, Begin, ReadUser, CountAdmins,
     Reread, EnsureWallet, CallFails, rows

LEMMA NextTypeOK == TypeOK /\ [Next]_vars => TypeOK'
<1> SUFFICES ASSUME TypeOK, [Next]_vars PROVE TypeOK'
  OBVIOUS
<1>1. ASSUME NEW r \in Requests, RequestStep(r) PROVE TypeOK'
  BY <1>1, RequestRowsTypeOK, RequestsStepTypeOK, RequestThreadsTypeOK DEF TypeOK
<1>2. ASSUME NEW t \in Threads, CallStep(t) PROVE TypeOK'
  BY <1>2, CallRowsTypeOK, CallRequestsTypeOK, ThreadsStepTypeOK DEF TypeOK
<1>3. CASE UNCHANGED vars
  BY <1>3 DEF vars, rows, request, thread, TypeOK, RowsTypeOK, RequestsTypeOK, ThreadsTypeOK, StepTypeOK,
     Wallet, Exists
<1> QED BY <1>1, <1>2, <1>3, NextIsStep

-----------------------------------------------------------------------------
(* Debt *)

LEMMA AllowanceIsNatural ==
  ASSUME NEW id
  PROVE  /\ IsFiniteSet(LetIn(id)) /\ Cardinality(LetIn(id)) \in Nat
         /\ Cardinality(Requests) \in Nat /\ Cardinality(LetIn(id)) <= Cardinality(Requests)
         /\ Allowance(id) \in Nat /\ Allowance(id) <= Cardinality(Requests) * MostCost
<1>1. LetIn(id) \in SUBSET Requests
  BY DEF LetIn
<1>2. /\ IsFiniteSet(LetIn(id)) /\ Cardinality(LetIn(id)) \in Nat
      /\ Cardinality(Requests) \in Nat /\ Cardinality(LetIn(id)) <= Cardinality(Requests)
  BY <1>1, RequestsAssumption, FS_Subset, FS_CardinalityType
<1>3. \A n, m, c \in Nat : m <= n => (n - m) * c \in Nat /\ (n - m) * c <= n * c
  OBVIOUS
<1> QED BY <1>2, <1>3, CostAssumption DEF Allowance

\* A request that leaves leaves its allowance to the others.
LEMMA AllowanceGrows ==
  ASSUME NEW id, LetIn(id)' \subseteq LetIn(id)
  PROVE  /\ Allowance(id)' \in Nat /\ Allowance(id)' >= Allowance(id)
         /\ \A r \in LetIn(id) : r \notin LetIn(id)' => Allowance(id)' >= Allowance(id) + MostCost
<1> DEFINE n == Cardinality(Requests)
           m == Cardinality(LetIn(id))
           k == Cardinality(LetIn(id)')
<1>1. LetIn(id)' \in SUBSET LetIn(id) /\ LetIn(id)' \in SUBSET Requests
  BY DEF LetIn
<1>2. n \in Nat /\ m \in Nat /\ m <= n /\ IsFiniteSet(LetIn(id))
  BY AllowanceIsNatural
<1>3. k \in Nat /\ k <= m /\ (k = m => LetIn(id)' = LetIn(id))
  BY <1>1, <1>2, FS_Subset, FS_CardinalityType
<1>4. \A c \in Nat : (n - k) * c \in Nat /\ (n - k) * c >= (n - m) * c
  BY <1>2, <1>3
<1>5. \A c \in Nat : k < m => (n - k) * c >= (n - m) * c + c
  BY <1>2, <1>3
<1>6. ASSUME NEW r \in LetIn(id), r \notin LetIn(id)' PROVE k < m
  <2>1. LetIn(id)' # LetIn(id)
    BY <1>6
  <2> QED BY <1>2, <1>3, <2>1
<1>7. Allowance(id)' = (n - k) * MostCost /\ Allowance(id) = (n - m) * MostCost
  BY DEF Allowance
<1> HIDE DEF n, m, k
<1> QED BY <1>4, <1>5, <1>6, <1>7, CostAssumption

LEMMA LeaveFreesAllowance ==
  ASSUME RequestsTypeOK, NEW r \in Requests, Leave(r), NEW id, id # None
  PROVE  /\ LetIn(id)' \subseteq LetIn(id)
         /\ admitted[r] = id => r \in LetIn(id) /\ r \notin LetIn(id)'
  BY DEF RequestsTypeOK, Leave, LetIn

LEMMA WalletParts ==
  ASSUME RowsTypeOK, NEW u \in Users, wallet[u] # None
  PROVE  wallet[u] \in Wallet /\ wallet[u].id \in 1 .. made /\ wallet[u].balance \in Int
<1>1. wallet[u] \in Wallet
  BY DEF RowsTypeOK
<1>2. -Lowest .. Highest \subseteq Int
  BY BoundsAssumption
<1> QED BY <1>1, <1>2 DEF Wallet

\* Balances that stay cover what they did, while requests leave.
LEMMA DebtStaysCovered ==
  ASSUME RowsTypeOK, DebtIsCovered, NEW u \in Users, NEW id \in 1 .. made,
         wallet[u] # None, wallet[u].id = id, u \notin skewed, LetIn(id)' \subseteq LetIn(id)
  PROVE  wallet[u].balance >= -(Allowance(id)')
<1>1. wallet[u].balance >= -Allowance(id) /\ wallet[u].balance \in Int
  BY WalletParts DEF DebtIsCovered
<1> QED BY <1>1, AllowanceIsNatural, AllowanceGrows

\* A balance that is not negative covers everything.
LEMMA CreditCovers ==
  ASSUME NEW id, NEW b \in Nat, LetIn(id)' \subseteq Requests PROVE b >= -(Allowance(id)')
<1>1. LetIn(id)' \in SUBSET Requests
  OBVIOUS
<1> DEFINE n == Cardinality(Requests)
           k == Cardinality(LetIn(id)')
<1>2. n \in Nat /\ k \in Nat /\ k <= n
  BY <1>1, RequestsAssumption, FS_Subset, FS_CardinalityType
<1>3. \A c \in Nat : (n - k) * c \in Nat
  BY <1>2
<1>4. Allowance(id)' = (n - k) * MostCost
  BY DEF Allowance
<1> HIDE DEF n, k
<1> QED BY <1>3, <1>4, CostAssumption

\* A charge takes no more than the allowance its request leaves, unless it is skewed.
LEMMA ChargeIsCovered ==
  ASSUME RowsTypeOK, RequestsTypeOK, DebtIsCovered, NEW r \in Requests,
         NEW cost \in 0 .. MostCost, Charge(r, cost)
  PROVE  DebtIsCovered'
<1>1. /\ Adjust(purse[r], -cost) /\ Leave(r) /\ made' = made /\ purse[r] \in 1 .. made
      /\ cost \in Nat /\ cost <= MostCost /\ -cost \in Int
  <2>1. Adjust(purse[r], -cost) /\ Leave(r) /\ made' = made /\ purse[r] \in 1 .. made
    BY DEF Charge, RequestsTypeOK
  <2>2. cost \in Nat /\ cost <= MostCost /\ -cost \in Int
    BY CostAssumption
  <2> QED BY <2>1, <2>2
<1> SUFFICES ASSUME NEW u \in Users, NEW id \in 1 .. made,
                    wallet'[u] # None, wallet'[u].id = id, u \notin skewed'
             PROVE  wallet'[u].balance >= -(Allowance(id)')
  BY <1>1 DEF DebtIsCovered
<1>2. id \in Nat /\ id # None
  BY NoneAssumption
<1>3. wallet[u] # None /\ wallet[u].id = id /\ wallet[u].balance \in Int
  BY <1>1, AdjustTypeOK, WalletParts
<1>4. LetIn(id)' \subseteq LetIn(id) /\ LetIn(id)' \subseteq Requests
  BY <1>1, <1>2, LeaveFreesAllowance DEF LetIn
<1>5. CASE u \notin WalletsOf(purse[r])
  <2>1. wallet'[u] = wallet[u]
    BY <1>1, <1>5, AdjustTypeOK
  <2>2. u \notin skewed
    BY <1>3, <2>1 DEF Charge, Skew, RowsTypeOK
  <2> QED BY <1>3, <1>4, <2>1, <2>2, DebtStaysCovered
<1>6. CASE u \in WalletsOf(purse[r])
  <2>1. wallet'[u].balance = wallet[u].balance - cost /\ purse[r] = id
    <3>1. wallet'[u] = [id |-> purse[r], balance |-> wallet[u].balance + (-cost)]
      BY <1>1, <1>6, AdjustTypeOK
    <3>2. purse[r] = id
      BY <1>6, <1>3 DEF WalletsOf
    <3> QED BY <1>1, <1>3, <3>1, <3>2
  <2>2. CASE wallet'[u].balance > 0
    BY <1>1, <1>3, <1>4, <2>1, <2>2, CreditCovers
  <2>3. CASE ~(wallet'[u].balance > 0)
    <3>1. u \notin skewed /\ admitted[r] = id
      BY <1>1, <1>3, <1>6, <2>1, <2>3 DEF Charge, Skew
    <3>2. Allowance(id)' >= Allowance(id) + MostCost /\ Allowance(id)' \in Nat
      BY <1>1, <1>2, <1>4, <3>1, LeaveFreesAllowance, AllowanceGrows
    <3>3. wallet[u].balance >= -Allowance(id) /\ Allowance(id) \in Nat
      BY <1>3, <3>1, AllowanceIsNatural DEF DebtIsCovered
    <3> QED BY <1>1, <1>3, <2>1, <3>2, <3>3, CostAssumption
  <2> QED BY <2>2, <2>3
<1> QED BY <1>5, <1>6

LEMMA RequestDebtIsCovered ==
  ASSUME RowsTypeOK, RequestsTypeOK, DebtIsCovered, NEW r \in Requests, RequestStep(r)
  PROVE  DebtIsCovered'
<1>1. ASSUME NEW cost \in 0 .. MostCost, Charge(r, cost) PROVE DebtIsCovered'
  BY <1>1, ChargeIsCovered
<1>2. ASSUME UNCHANGED <<rows, skewed>>, admitted' = admitted \/ Leave(r) PROVE DebtIsCovered'
  <2> SUFFICES ASSUME NEW u \in Users, NEW id \in 1 .. made,
                      wallet[u] # None, wallet[u].id = id, u \notin skewed
               PROVE  wallet[u].balance >= -(Allowance(id)')
    BY <1>2 DEF DebtIsCovered, rows
  <2>1. id # None
    BY NoneAssumption
  <2>2. LetIn(id)' \subseteq LetIn(id)
    BY <1>2, <2>1, LeaveFreesAllowance DEF LetIn
  <2> QED BY <2>2, DebtStaysCovered
<1>3. CASE FindWallet(r)
  <2>1. CASE admitted' = admitted \/ Leave(r)
    BY <1>2, <1>3, <2>1 DEF FindWallet
  <2>2. CASE ~(admitted' = admitted \/ Leave(r))
    <3> DEFINE w == wallet[holder[r]]
    <3>1. /\ w # None /\ w.balance > 0 /\ admitted' = [admitted EXCEPT ![r] = w.id]
          /\ UNCHANGED <<rows, skewed>> /\ holder[r] \in Users
      BY <1>3, <2>2 DEF FindWallet, MayGoOn, HasCredit, RequestsTypeOK
    <3> SUFFICES ASSUME NEW u \in Users, NEW id \in 1 .. made,
                        wallet[u] # None, wallet[u].id = id, u \notin skewed
                 PROVE  wallet[u].balance >= -(Allowance(id)')
      BY <3>1 DEF DebtIsCovered, rows
    <3>2. CASE u = holder[r]
      <4>1. wallet[u].balance \in Nat
        BY <3>1, <3>2, WalletParts
      <4>2. LetIn(id)' \subseteq Requests
        BY DEF LetIn
      <4> QED BY <4>1, <4>2, CreditCovers
    <3>3. CASE u # holder[r]
      <4>1. w.id # id
        BY <3>1, <3>3 DEF RowsTypeOK
      <4>2. LetIn(id)' \subseteq LetIn(id)
        BY <3>1, <4>1 DEF LetIn, RequestsTypeOK
      <4> QED BY <4>2, DebtStaysCovered
    <3> QED BY <3>2, <3>3
  <2> QED BY <2>1, <2>2
<1> QED
  BY <1>1, <1>2, <1>3 DEF RequestStep, Arrive, FindOwner, CheckUser, Serve, RequestFails,
     LogChargeFailed

LEMMA AdjustWalletIsCovered ==
  ASSUME RowsTypeOK, ThreadsTypeOK, DebtIsCovered, NEW t \in Threads, AdjustWallet(t)
  PROVE  DebtIsCovered'
<1>1. /\ Adjust(row[t].id, Amount(job[t], row[t])) /\ Skew(Outdated(t))
      /\ made' = made /\ admitted' = admitted
  BY DEF AdjustWallet, request
<1>2. row[t] \in Wallet /\ job[t].credit \in Nat
  BY JobsAssumption DEF AdjustWallet, ThreadsTypeOK, StepTypeOK
<1>3. row[t].balance \in Int
  BY <1>2, AmountIsInteger
<1>4. Amount(job[t], row[t]) \in Int
  BY <1>2, AmountIsInteger
<1> SUFFICES ASSUME NEW u \in Users, NEW id \in 1 .. made,
                    wallet'[u] # None, wallet'[u].id = id, u \notin skewed'
             PROVE  wallet'[u].balance >= -(Allowance(id)')
  BY <1>1 DEF DebtIsCovered
<1>5. wallet[u] # None /\ wallet[u].id = id /\ wallet[u].balance \in Int
  BY <1>1, <1>4, AdjustTypeOK, WalletParts
<1>6. LetIn(id)' \subseteq LetIn(id) /\ LetIn(id)' \subseteq Requests
  BY <1>1 DEF LetIn
<1>7. CASE u \notin WalletsOf(row[t].id)
  <2>1. wallet'[u] = wallet[u]
    BY <1>1, <1>4, <1>7, AdjustTypeOK
  <2>2. u \notin skewed
    BY <1>1, <1>5, <2>1 DEF Skew, RowsTypeOK
  <2> QED BY <1>5, <1>6, <2>1, <2>2, DebtStaysCovered
<1>8. CASE u \in WalletsOf(row[t].id)
  <2>1. wallet'[u].balance = wallet[u].balance + Amount(job[t], row[t])
    <3>1. wallet'[u] = [id |-> row[t].id, balance |-> wallet[u].balance + Amount(job[t], row[t])]
      BY <1>1, <1>4, <1>8, AdjustTypeOK
    <3> QED BY <3>1
  <2>2. CASE wallet'[u].balance > 0
    BY <1>4, <1>5, <1>6, <2>1, <2>2, CreditCovers
  <2>3. CASE ~(wallet'[u].balance > 0)
    <3>1. u \notin skewed /\ u \notin Outdated(t)
      <4>1. wallet'[u].balance <= 0
        BY <1>4, <1>5, <2>1, <2>3
      <4> QED BY <1>1, <4>1 DEF Skew
    <3>2. CASE job[t].op = "set available"
      <4>1. row[t] = wallet[u] /\ Amount(job[t], row[t]) = job[t].credit - row[t].balance
        BY <1>8, <3>1, <3>2 DEF Outdated, Amount
      <4>2. wallet'[u].balance = job[t].credit
        BY <1>2, <1>3, <2>1, <4>1
      <4> QED BY <1>2, <1>6, <4>2, CreditCovers
    <3>3. CASE job[t].op # "set available"
      <4>1. wallet'[u].balance = wallet[u].balance + job[t].credit
        BY <2>1, <3>3 DEF Amount
      <4>2. wallet[u].balance >= -(Allowance(id)')
        BY <1>5, <1>6, <3>1, DebtStaysCovered
      <4>3. Allowance(id)' \in Nat
        BY <1>6, AllowanceGrows
      <4> QED BY <1>2, <1>5, <4>1, <4>2, <4>3
    <3> QED BY <3>2, <3>3
  <2> QED BY <2>2, <2>3
<1> QED BY <1>7, <1>8

LEMMA CallDebtIsCovered ==
  ASSUME RowsTypeOK, ThreadsTypeOK, DebtIsCovered, NEW t \in Threads, CallStep(t)
  PROVE  DebtIsCovered'
<1>1. CASE AdjustWallet(t)
  BY <1>1, AdjustWalletIsCovered
<1>2. ASSUME admitted' = admitted, made' = made,
             \A u \in Users : wallet'[u] # None => wallet'[u] = wallet[u] /\ (u \notin skewed' => u \notin skewed)
      PROVE  DebtIsCovered'
  <2> SUFFICES ASSUME NEW u \in Users, NEW id \in 1 .. made,
                      wallet'[u] # None, wallet'[u].id = id, u \notin skewed'
               PROVE  wallet'[u].balance >= -(Allowance(id)')
    BY <1>2 DEF DebtIsCovered
  <2>1. wallet'[u] = wallet[u] /\ u \notin skewed
    BY <1>2
  <2>2. LetIn(id)' \subseteq LetIn(id)
    BY <1>2 DEF LetIn
  <2> QED BY <2>1, <2>2, DebtStaysCovered
<1>3. CASE DeleteUser(t)
  <2>1. /\ admitted' = admitted /\ made' = made /\ job[t].user \in Users
        /\ wallet' = [wallet EXCEPT ![job[t].user] = None]
    BY <1>3, JobsAssumption DEF DeleteUser, request, ThreadsTypeOK, StepTypeOK
  <2>2. \A u \in Users : wallet'[u] # None => wallet'[u] = wallet[u]
    BY <2>1 DEF RowsTypeOK
  <2>3. \A u \in Users : wallet'[u] # None /\ u \in skewed => u \in skewed'
    BY <1>3, <2>2 DEF DeleteUser, Skew, RowsTypeOK
  <2> QED BY <1>2, <2>1, <2>2, <2>3
<1>4. CASE InsertWallet(t)
  <2>1. CASE UNCHANGED <<wallet, made>>
    BY <1>2, <1>4, <2>1 DEF InsertWallet, request
  <2>2. CASE ~UNCHANGED <<wallet, made>>
    <3> DEFINE v == job[t].user
               w == [id |-> made', balance |-> 0]
    <3>1. /\ v \in Users /\ wallet[v] = None /\ made' = made + 1 /\ made \in Nat
          /\ wallet' = [wallet EXCEPT ![v] = w] /\ admitted' = admitted /\ skewed' = skewed
      <4>1. made \in Nat
        BY BoundsAssumption DEF RowsTypeOK
      <4>2. step[t] = "insert" /\ v \in Users
        BY <1>4, JobsAssumption DEF InsertWallet, ThreadsTypeOK, StepTypeOK
      <4>3. /\ wallet[v] = None /\ made' = made + 1 /\ wallet' = [wallet EXCEPT ![v] = w]
        BY <1>4, <2>2 DEF InsertWallet
      <4> QED BY <1>4, <4>1, <4>2, <4>3 DEF InsertWallet, request
    <3> SUFFICES ASSUME NEW u \in Users, NEW id \in 1 .. made',
                        wallet'[u] # None, wallet'[u].id = id, u \notin skewed
                 PROVE  wallet'[u].balance >= -(Allowance(id)')
      BY <3>1 DEF DebtIsCovered
    <3>2. LetIn(id)' \subseteq LetIn(id) /\ LetIn(id)' \subseteq Requests
      BY <3>1 DEF LetIn
    <3>3. CASE u = v
      <4>1. wallet'[u].balance = 0
        BY <3>1, <3>3 DEF RowsTypeOK
      <4> QED BY <3>2, <4>1, CreditCovers
    <3>4. CASE u # v
      <4>1. wallet'[u] = wallet[u]
        BY <3>1, <3>4 DEF RowsTypeOK
      <4>2. id \in 1 .. made
        BY <4>1, WalletParts
      <4> QED BY <3>2, <4>1, <4>2, DebtStaysCovered
    <3> QED BY <3>3, <3>4
  <2> QED BY <2>1, <2>2
<1>5. CASE UNCHANGED <<wallet, made, admitted, skewed>>
  BY <1>2, <1>5
<1> QED
  BY <1>1, <1>3, <1>4, <1>5 DEF CallStep, Begin, InsertUser, ReadUser, CountAdmins, UpdateRole,
     UpdateStatus, Reread, EnsureWallet, UpsertOwner, CallFails, rows, request

-----------------------------------------------------------------------------
(* What a request has seen *)

LEMMA RequestNotYetLetIn ==
  ASSUME RequestsTypeOK, NotYetLetIn, NEW r \in Requests, RequestStep(r) PROVE NotYetLetIn'
<1>1. CASE Leave(r)
  BY <1>1 DEF NotYetLetIn, RequestsTypeOK, Leave, Goto
<1>2. CASE FindWallet(r) /\ ~Leave(r)
  BY <1>2 DEF NotYetLetIn, RequestsTypeOK, FindWallet, Goto
<1>3. CASE ~FindWallet(r) /\ ~Leave(r)
  BY <1>3 DEF NotYetLetIn, RequestsTypeOK, RequestStep, Arrive, FindOwner, CheckUser, Serve, Charge,
     RequestFails, LogChargeFailed, Goto
<1> QED BY <1>1, <1>2, <1>3

LEMMA RequestSeenStillHolds ==
  ASSUME RowsTypeOK, RequestsTypeOK, NotYetLetIn, SeenStillHolds, NEW r \in Requests, RequestStep(r)
  PROVE  SeenStillHolds'
<1>1. UNCHANGED <<user, owner>> /\ \A u \in Users : wallet[u] # None => wallet'[u] # None
  <2>1. ASSUME NEW cost \in 0 .. MostCost, Charge(r, cost) PROVE \A u \in Users : wallet[u] # None => wallet'[u] # None
    <3>1. -cost \in Int /\ Adjust(purse[r], -cost)
      BY <2>1, CostAssumption DEF Charge
    <3> QED BY <3>1, AdjustTypeOK
  <2> QED
    BY <2>1 DEF RequestStep, Arrive, FindOwner, CheckUser, FindWallet, Serve, Charge, RequestFails,
       LogChargeFailed, rows
<1>2. disturbed \subseteq disturbed' \cup {r}
  BY DEF RequestStep, Arrive, FindOwner, CheckUser, FindWallet, Serve, Charge, RequestFails,
     LogChargeFailed, Leave
<1>3. ASSUME NEW q \in Requests \ disturbed', q # r PROVE Sees(q)'
  <2>1. Sees(q) /\ (pc[q] # "idle" => key[q] \in Keys) /\ (pc[q] = "idle" => admitted[q] = None)
    BY <1>2, <1>3 DEF SeenStillHolds, Sees, RequestsTypeOK, NotYetLetIn
  <2>2. pc'[q] = pc[q] /\ key'[q] = key[q] /\ holder'[q] = holder[q] /\ admitted'[q] = admitted[q]
    BY <1>3 DEF RequestStep, Arrive, FindOwner, CheckUser, FindWallet, Serve, Charge, RequestFails,
       LogChargeFailed, Leave, Goto, RequestsTypeOK
  <2> QED BY <1>1, <2>1, <2>2 DEF Sees, CanOwnWallet, RowsTypeOK
<1>4. ASSUME r \notin disturbed' PROVE Sees(r)'
  <2>1. CASE Leave(r)
    BY <2>1 DEF Sees, Leave, Goto, RequestsTypeOK
  <2>2. CASE ~Leave(r)
    <3>1. /\ Sees(r) /\ (pc[r] # "idle" => key[r] \in Keys)
          /\ pc[r] = "idle" => admitted[r] = None
      BY <1>4, <2>2 DEF SeenStillHolds, RequestStep, Arrive, FindOwner, CheckUser, FindWallet, Serve, Charge,
         RequestFails, LogChargeFailed, RequestsTypeOK, NotYetLetIn
    <3>2. owner[key[r]] \in Users \/ owner[key[r]] = None \/ pc[r] = "idle"
      BY <3>1 DEF RowsTypeOK
    <3>3. CASE FindWallet(r)
      BY <1>1, <2>2, <3>1, <3>2, <3>3 DEF FindWallet, Goto, Sees, RequestsTypeOK, CanOwnWallet
    <3>4. ASSUME NEW k \in Keys, Arrive(r, k) PROVE Sees(r)'
      BY <3>1, <3>4 DEF Arrive, Goto, Sees, RequestsTypeOK
    <3>5. CASE FindOwner(r)
      <4>1. UNCHANGED <<user, owner, wallet, key, admitted>> /\ pc[r] = "owner"
        BY <2>2, <3>5 DEF FindOwner, rows
      <4>2. \/ owner[key[r]] # None /\ holder'[r] = owner[key[r]] /\ pc'[r] = "user"
            \/ pc'[r] = "serving"
        BY <2>2, <3>5 DEF FindOwner, Goto, RequestsTypeOK
      <4> QED BY <3>1, <4>1, <4>2 DEF Sees, CanOwnWallet
    <3>6. CASE CheckUser(r)
      BY <1>1, <2>2, <3>1, <3>2, <3>6 DEF CheckUser, Goto, Sees, RequestsTypeOK, CanOwnWallet
    <3>7. ASSUME NEW success \in BOOLEAN, Serve(r, success) PROVE Sees(r)'
      BY <1>1, <2>2, <3>1, <3>2, <3>7 DEF Serve, Goto, Sees, RequestsTypeOK, CanOwnWallet
    <3>8. CASE RequestFails(r)
      BY <1>1, <2>2, <3>1, <3>2, <3>8 DEF RequestFails, Goto, Sees, RequestsTypeOK, CanOwnWallet
    <3> QED
      BY <2>2, <3>3, <3>4, <3>5, <3>6, <3>7, <3>8 DEF RequestStep, Charge, LogChargeFailed
  <2> QED BY <2>1, <2>2
<1> QED BY <1>3, <1>4 DEF SeenStillHolds

LEMMA CallSeenStillHolds ==
  ASSUME RowsTypeOK, RequestsTypeOK, ThreadsTypeOK, NotYetLetIn, SeenStillHolds,
         NEW t \in Threads, CallStep(t)
  PROVE  NotYetLetIn' /\ SeenStillHolds'
<1>1. request' = request
  BY DEF CallStep, Begin, InsertUser, ReadUser, CountAdmins, UpdateRole, UpdateStatus, Reread,
     DeleteUser, EnsureWallet, InsertWallet, AdjustWallet, UpsertOwner, CallFails
<1>2. NotYetLetIn'
  BY <1>1 DEF NotYetLetIn, request
<1> SUFFICES ASSUME NEW r \in Requests, r \notin disturbed' PROVE Sees(r)'
  BY <1>2 DEF SeenStillHolds
<1>3. CASE pc[r] = "idle" \/ (pc[r] = "owner" /\ ~charging[r])
  BY <1>1, <1>3 DEF Sees, NotYetLetIn, request
<1>4. CASE ~(pc[r] = "idle" \/ (pc[r] = "owner" /\ ~charging[r]))
  <2>1. \/ UNCHANGED <<user, owner, disturbed>>
        \/ Noted(t)
    BY DEF CallStep, Begin, InsertUser, ReadUser, CountAdmins, UpdateRole, UpdateStatus, Reread,
       DeleteUser, EnsureWallet, InsertWallet, AdjustWallet, UpsertOwner, CallFails, rows
  <2>2. /\ r \notin disturbed /\ owner'[key[r]] = owner[key[r]]
        /\ owner[key[r]] # None => user'[owner[key[r]]] = user[owner[key[r]]]
    BY <1>4, <2>1 DEF Noted, RequestsTypeOK
  <2>3. Sees(r) /\ key[r] \in Keys
    BY <1>4, <2>2 DEF SeenStillHolds, RequestsTypeOK
  <2>4. ASSUME NEW u \in Users, CanOwnWallet(u), wallet[u] # None, user'[u] = user[u] PROVE wallet'[u] # None
    <3>1. CASE DeleteUser(t)
      <4>1. /\ job[t].user \in Users /\ user' = [user EXCEPT ![job[t].user] = Gone]
            /\ wallet' = [wallet EXCEPT ![job[t].user] = None]
        BY <3>1, JobsAssumption DEF DeleteUser, ThreadsTypeOK, StepTypeOK
      <4>2. user[u] # Gone
        BY <2>4 DEF CanOwnWallet, Gone
      <4> QED BY <2>4, <4>1, <4>2 DEF RowsTypeOK
    <3>2. CASE InsertWallet(t)
      <4>1. wallet' = wallet \/ (wallet[job[t].user] = None /\ \E w : wallet' = [wallet EXCEPT ![job[t].user] = w])
        BY <3>2 DEF InsertWallet
      <4> QED BY <2>4, <4>1 DEF RowsTypeOK
    <3>3. CASE AdjustWallet(t)
      <4>1. Adjust(row[t].id, Amount(job[t], row[t])) /\ row[t] \in Wallet /\ job[t].credit \in Nat
        BY <3>3, JobsAssumption DEF AdjustWallet, ThreadsTypeOK, StepTypeOK
      <4>2. Amount(job[t], row[t]) \in Int
        BY <4>1, AmountIsInteger
      <4> QED BY <2>4, <4>1, <4>2, AdjustTypeOK
    <3>4. CASE UNCHANGED wallet
      BY <2>4, <3>4
    <3> QED
      BY <3>1, <3>2, <3>3, <3>4 DEF CallStep, Begin, InsertUser, ReadUser, CountAdmins, UpdateRole,
         UpdateStatus, Reread, EnsureWallet, UpsertOwner, CallFails, rows
  <2>5. owner[key[r]] \in Users \/ owner[key[r]] = None
    BY <2>3 DEF RowsTypeOK
  <2> QED BY <1>1, <2>2, <2>3, <2>4, <2>5 DEF Sees, CanOwnWallet, request
<1> QED BY <1>3, <1>4

-----------------------------------------------------------------------------
(* What a call has read and counted *)

\* One call's part of CountStillHolds, which depends on users by their administrators only.
LEMMA CountsDependOnAdmins ==
  ASSUME NEW t \in Threads, Counts(t), ActiveAdmins(user)' = ActiveAdmins(user),
         step'[t] = step[t], row'[t] = row[t], job'[t] = job[t]
  PROVE  Counts(t)'
  BY DEF Counts, Retires

LEMMA RequestCountStillHolds ==
  ASSUME CountStillHolds, NEW r \in Requests, RequestStep(r) PROVE CountStillHolds'
<1>1. UNCHANGED <<user, thread, overtaken>>
  BY DEF RequestStep, Arrive, FindOwner, CheckUser, FindWallet, Serve, Charge, RequestFails,
     LogChargeFailed, rows
<1> QED BY <1>1, CountsDependOnAdmins DEF CountStillHolds, thread, ActiveAdmins

\* The calls of others.
LEMMA OthersCountStillHolds ==
  ASSUME ThreadsTypeOK, CountStillHolds, NEW t \in Threads, CallStep(t),
         NEW s \in Threads \ overtaken', s # t
  PROVE  Counts(s)'
<1>1. step'[s] = step[s] /\ row'[s] = row[s] /\ job'[s] = job[s]
  BY DEF CallStep, Begin, InsertUser, ReadUser, CountAdmins, UpdateRole, UpdateStatus, Reread,
     DeleteUser, EnsureWallet, InsertWallet, AdjustWallet, UpsertOwner, CallFails, Finish, Proceed,
     Settled, ThreadsTypeOK
<1>2. \/ UNCHANGED <<user, overtaken>>
      \/ Noted(t)
  BY DEF CallStep, Begin, InsertUser, ReadUser, CountAdmins, UpdateRole, UpdateStatus, Reread,
     DeleteUser, EnsureWallet, InsertWallet, AdjustWallet, UpsertOwner, CallFails, rows
<1>3. CASE ~HasRead(step[s])
  BY <1>1, <1>3 DEF Counts, HasRead
<1>4. CASE HasRead(step[s])
  <2>1. ActiveAdmins(user)' = ActiveAdmins(user) /\ s \notin overtaken
    BY <1>1, <1>2, <1>4 DEF Noted, HasRead, ActiveAdmins
  <2> QED BY <1>1, <2>1, CountsDependOnAdmins DEF CountStillHolds
<1> QED BY <1>3, <1>4

\* More than one administrator: one besides any user.
LEMMA ManyAreOthers ==
  ASSUME NEW S, NEW u, EnoughAdmins(Cardinality(S)) PROVE S \ {u} # {}
<1> SUFFICES ASSUME S \ {u} = {} PROVE FALSE
  OBVIOUS
<1>1. S = {} \/ S = {u}
  OBVIOUS
<1>2. Cardinality(S) = 0 \/ Cardinality(S) = 1
  BY <1>1, FS_EmptySet, FS_Singleton
<1> QED BY <1>2 DEF EnoughAdmins

\* The call that takes a step, by its step.
LEMMA OwnCountStillHolds ==
  ASSUME RowsTypeOK, ThreadsTypeOK, CountStillHolds, NEW t \in Threads, CallStep(t), t \notin overtaken'
  PROVE  Counts(t)'
<1>1. CASE ~HasRead(step'[t])
  BY <1>1 DEF Counts, HasRead
<1>2. CASE ReadUser(t) /\ HasRead(step'[t])
  <2> DEFINE j == job[t]
             x == user[j.user]
  <2>0. ~Finish(t) /\ ~Proceed(t, "find")
    BY <1>2 DEF HasRead, Finish, Proceed, ThreadsTypeOK
  <2>1. /\ j \in Jobs /\ j.user \in Users /\ UNCHANGED user /\ job'[t] = j /\ row'[t] = x
        /\ j.op \in {"update", "delete"}
        /\ step'[t] = "count" => Retires(x, j)
        /\ step'[t] \in {"role", "delete"} => ~Retires(x, j)
        /\ step'[t] \in {"count", "role", "delete"}
    <3>1. /\ step[t] = "read" /\ UNCHANGED <<user, job>> /\ j.op \in {"update", "delete"}
          /\ row' = [row EXCEPT ![t] = x]
          /\ step' = [step EXCEPT ![t] = CASE Retires(x, j) -> "count"
                                          [] ~Retires(x, j) /\ j.op = "update" -> "role"
                                          [] ~Retires(x, j) /\ j.op = "delete" -> "delete"]
      BY <1>2, <2>0 DEF ReadUser, rows
    <3>2. j \in Jobs /\ j.user \in Users
      BY <3>1, JobsAssumption DEF ThreadsTypeOK, StepTypeOK
    <3> QED BY <3>1, <3>2 DEF ThreadsTypeOK
  <2>2. ~IsActiveAdmin(x) => j.user \notin ActiveAdmins(user)
    BY DEF ActiveAdmins
  <2> QED BY <2>1, <2>2 DEF Counts, ActiveAdmins, Retires
<1>3. CASE CountAdmins(t) /\ HasRead(step'[t])
  <2>1. /\ EnoughAdmins(Cardinality(ActiveAdmins(user))) /\ UNCHANGED user
        /\ step[t] = "count" /\ step'[t] \in {"role", "delete"} /\ row'[t] = row[t] /\ job'[t] = job[t]
    BY <1>3 DEF CountAdmins, HasRead, ThreadsTypeOK, Finish, Proceed, rows
  <2>2. t \notin overtaken
    BY <1>3, <2>1 DEF CountAdmins, Noted
  <2>3. Retires(row[t], job[t])
    BY <2>1, <2>2 DEF CountStillHolds, Counts
  <2>4. ActiveAdmins(user) \ {job[t].user} # {}
    BY <2>1, ManyAreOthers
  <2> QED BY <2>1, <2>3, <2>4 DEF Counts, ActiveAdmins, Retires
<1>4. CASE UpdateRole(t)
  <2>1. /\ step[t] = "role" /\ step'[t] = "status" /\ row'[t] = row[t] /\ job'[t] = job[t]
        /\ \A u \in Users : u # job[t].user => user'[u] = user[u]
    BY <1>4 DEF UpdateRole, Proceed, ThreadsTypeOK, RowsTypeOK
  <2>2. t \notin overtaken
    BY <1>4, <2>1 DEF UpdateRole, Noted
  <2>3. Retires(row[t], job[t]) => ActiveAdmins(user) \ {job[t].user} # {}
    BY <2>1, <2>2 DEF CountStillHolds, Counts
  <2>4. ActiveAdmins(user)' \ {job[t].user} = ActiveAdmins(user) \ {job[t].user}
    BY <2>1 DEF ActiveAdmins
  <2> QED BY <2>1, <2>3, <2>4 DEF Counts, Retires
<1> QED
  BY <1>1, <1>2, <1>3, <1>4 DEF CallStep, Begin, InsertUser, UpdateStatus, Reread, DeleteUser,
     EnsureWallet, InsertWallet, AdjustWallet, UpsertOwner, CallFails, Finish, Proceed, Settled, HasRead,
     ThreadsTypeOK

LEMMA CallCountStillHolds ==
  ASSUME RowsTypeOK, ThreadsTypeOK, CountStillHolds, NEW t \in Threads, CallStep(t)
  PROVE  CountStillHolds'
  BY OthersCountStillHolds, OwnCountStillHolds DEF CountStillHolds

-----------------------------------------------------------------------------
(* The invariant and what follows from it *)

LEMMA InitIInv == Init => IInv
<1> SUFFICES ASSUME Init PROVE IInv
  OBVIOUS
<1>1. DebtIsCovered
  BY DEF Init, DebtIsCovered
<1>2. NotYetLetIn /\ SeenStillHolds
  BY DEF Init, NotYetLetIn, SeenStillHolds, Sees
<1>3. CountStillHolds
  BY DEF Init, CountStillHolds, Counts
<1> QED BY <1>1, <1>2, <1>3, InitTypeOK DEF IInv

LEMMA NextIInv == IInv /\ [Next]_vars => IInv'
<1> SUFFICES ASSUME IInv, [Next]_vars PROVE IInv'
  OBVIOUS
<1>1. TypeOK'
  BY NextTypeOK DEF IInv
<1>2. ASSUME NEW r \in Requests, RequestStep(r) PROVE IInv'
  BY <1>1, <1>2, RequestDebtIsCovered, RequestNotYetLetIn, RequestSeenStillHolds, RequestCountStillHolds
     DEF IInv, TypeOK
<1>3. ASSUME NEW t \in Threads, CallStep(t) PROVE IInv'
  BY <1>1, <1>3, CallDebtIsCovered, CallSeenStillHolds, CallCountStillHolds DEF IInv, TypeOK
<1>4. CASE UNCHANGED vars
  <2>1. DebtIsCovered'
    BY <1>4 DEF IInv, vars, rows, request, DebtIsCovered, Allowance, LetIn
  <2>2. NotYetLetIn' /\ SeenStillHolds'
    BY <1>4 DEF IInv, vars, rows, request, NotYetLetIn, SeenStillHolds, Sees, CanOwnWallet
  <2>3. CountStillHolds'
    BY <1>4 DEF IInv, vars, rows, thread, CountStillHolds, Counts, ActiveAdmins
  <2> QED BY <1>1, <2>1, <2>2, <2>3 DEF IInv
<1> QED BY <1>2, <1>3, <1>4, NextIsStep

LEMMA Inductive == Spec => []IInv
  BY InitIInv, NextIInv, PTL DEF Spec

\* Type correctness of the rows, the requests and the administrators' calls.
THEOREM WalletTypeCorrect == Spec => []TypeOK
  BY Inductive, PTL DEF IInv

\* However many requests and calls race, and whatever they cost: a wallet owes no more
\* than all requests at once may cost, unless it paid for another's or was set by an
\* outdated difference.
THEOREM DebtBounded == Spec => []DebtIsBounded
<1>1. IInv => DebtIsBounded
  <2> SUFFICES ASSUME IInv, NEW u \in Users, wallet[u] # None, u \notin skewed
               PROVE  wallet[u].balance >= -(Cardinality(Requests) * MostCost)
    BY DEF DebtIsBounded
  <2>1. PICK id \in 1 .. made : wallet[u].id = id
    BY WalletParts DEF IInv, TypeOK
  <2>2. wallet[u].balance \in Int /\ wallet[u].balance >= -Allowance(id)
    BY <2>1, WalletParts DEF IInv, TypeOK, DebtIsCovered
  <2>3. Allowance(id) \in Nat /\ Allowance(id) <= Cardinality(Requests) * MostCost
        /\ Cardinality(Requests) * MostCost \in Int
    BY AllowanceIsNatural, CostAssumption
  <2> QED BY <2>2, <2>3
<1> QED BY <1>1, Inductive, PTL

\* Every success that its owner's wallet has let in is charged to it, unless an
\* administrator or a failing statement comes between.
THEOREM SuccessCharged == Spec => SuccessIsCharged
<1>1. ASSUME IInv, [Next]_vars, NEW r \in Requests, Unbilled(r) PROVE admitted[r] = None \/ r \in disturbed
  <2> SUFFICES ASSUME admitted[r] # None, r \notin disturbed PROVE FALSE
    OBVIOUS
  <2>1. /\ charging[r] /\ pc'[r] = "idle" /\ pc[r] \notin {"idle", "adjust", "given up", "serving"}
        /\ Sees(r) /\ RequestsTypeOK
    BY <1>1 DEF Unbilled, IInv, TypeOK, RequestsTypeOK, NotYetLetIn, SeenStillHolds
  <2>2. CASE RequestStep(r)
    <3>1. Leave(r) /\ (FindOwner(r) \/ CheckUser(r) \/ FindWallet(r))
      BY <2>1, <2>2 DEF RequestStep, Arrive, FindOwner, CheckUser, FindWallet, Serve, Charge,
         RequestFails, LogChargeFailed, Goto, RequestsTypeOK
    <3>2. CASE FindOwner(r)
      BY <2>1, <3>2 DEF FindOwner, Goto, RequestsTypeOK, Sees
    <3>3. CASE CheckUser(r)
      BY <2>1, <3>3 DEF CheckUser, Goto, RequestsTypeOK, Sees
    <3>4. CASE FindWallet(r)
      BY <2>1, <3>4 DEF FindWallet, MayGoOn, Goto, RequestsTypeOK, Sees
    <3> QED BY <3>1, <3>2, <3>3, <3>4
  <2>3. ASSUME NEW q \in Requests, q # r, RequestStep(q) PROVE FALSE
    BY <2>1, <2>3 DEF RequestStep, Arrive, FindOwner, CheckUser, FindWallet, Serve, Charge,
       RequestFails, LogChargeFailed, Leave, Goto, RequestsTypeOK
  <2>4. ASSUME NEW t \in Threads, CallStep(t) PROVE FALSE
    <3>1. request' = request
      BY <2>4 DEF CallStep, Begin, InsertUser, ReadUser, CountAdmins, UpdateRole, UpdateStatus, Reread,
         DeleteUser, EnsureWallet, InsertWallet, AdjustWallet, UpsertOwner, CallFails
    <3> QED BY <2>1, <3>1 DEF request
  <2>5. CASE UNCHANGED vars
    BY <2>1, <2>5 DEF vars, request
  <2> QED BY <1>1, <2>2, <2>3, <2>4, <2>5, NextIsStep
<1>2. IInv /\ [Next]_vars => [\A r \in Requests : Unbilled(r) => admitted[r] = None \/ r \in disturbed]_vars
  BY <1>1
<1> QED BY <1>2, Inductive, PTL DEF Spec, SuccessIsCharged

\* The administrators are never all gone, unless two calls overtake each other, or an
\* update takes back the administrator it has made.
THEOREM LastAdministratorStays == Spec => LastAdminStays
<1> DEFINE Excused(t) ==
             /\ step[t] \in {"role", "status", "delete"} /\ step'[t] # step[t]
             /\ \/ t \in overtaken
                \/ step[t] = "status" /\ ~IsActiveAdmin(row[t])
<1>1. ASSUME IInv, [Next]_vars, ActiveAdmins(user) # {}, ActiveAdmins(user)' = {}
      PROVE  \E t \in Threads : Excused(t)
  <2>1. user' # user
    BY <1>1 DEF ActiveAdmins
  <2>2. PICK t \in Threads : CallStep(t)
    <3>1. ASSUME NEW r \in Requests, RequestStep(r) PROVE FALSE
      BY <2>1, <3>1 DEF RequestStep, Arrive, FindOwner, CheckUser, FindWallet, Serve, Charge,
         RequestFails, LogChargeFailed, rows
    <3> QED BY <1>1, <2>1, <3>1, NextIsStep DEF vars, rows
  <2> DEFINE u == job[t].user
  <2>3. TypeOK /\ (step[t] # "idle" => u \in Users /\ job[t].next \in User)
    BY <1>1, JobsAssumption DEF IInv, TypeOK, ThreadsTypeOK, StepTypeOK
  <2>4. ActiveAdmins(user)' \ {u} = ActiveAdmins(user) \ {u}
    <3>1. \A v \in Users : v # u => user'[v] = user[v]
      BY <2>1, <2>2, <2>3 DEF CallStep, Begin, InsertUser, ReadUser, CountAdmins, UpdateRole, UpdateStatus,
         Reread, DeleteUser, EnsureWallet, InsertWallet, AdjustWallet, UpsertOwner, CallFails, rows,
         TypeOK, RowsTypeOK
    <3> QED BY <3>1 DEF ActiveAdmins
  <2>5. u \in ActiveAdmins(user) /\ ActiveAdmins(user) \ {u} = {}
    BY <1>1, <2>4
  <2>6. step[t] \in {"role", "status", "delete"} /\ step'[t] # step[t]
    <3>1. ~InsertUser(t)
      <4>1. ~IsActiveAdmin(New)
        <5>1. New.role # [role |-> "admin", active |-> TRUE].role
          BY DEF New
        <5> QED BY <5>1 DEF IsActiveAdmin
      <4>2. InsertUser(t) => user[u] = New
        BY <2>1 DEF InsertUser
      <4> QED BY <2>5, <4>1, <4>2 DEF ActiveAdmins
    <3>2. UpdateRole(t) \/ UpdateStatus(t) \/ DeleteUser(t)
      BY <2>1, <2>2, <3>1 DEF CallStep, Begin, ReadUser, CountAdmins, Reread, EnsureWallet, InsertWallet,
         AdjustWallet, UpsertOwner, CallFails, rows
    <3> QED BY <2>3, <3>2 DEF UpdateRole, UpdateStatus, DeleteUser, Proceed, Finish, TypeOK, ThreadsTypeOK
  <2>7. ASSUME t \notin overtaken PROVE step[t] = "status" /\ ~IsActiveAdmin(row[t])
    <3>1. Counts(t)
      BY <1>1, <2>7 DEF IInv, CountStillHolds
    <3>2. ~Retires(row[t], job[t])
      BY <2>5, <2>6, <3>1 DEF Counts
    <3>3. step[t] \in {"role", "delete"} => IsActiveAdmin(row[t])
      BY <2>5, <3>1 DEF Counts
    <3> SUFFICES ASSUME IsActiveAdmin(row[t]) PROVE FALSE
      BY <2>6, <3>3
    <3>4. job[t].op # "delete" /\ IsActiveAdmin(job[t].next)
      BY <3>2 DEF Retires
    <3>5. step[t] # "delete"
      BY <2>2, <2>3, <3>4 DEF TypeOK, ThreadsTypeOK, StepTypeOK
    <3>6. row[t].role = job[t].next.role /\ row[t].active = job[t].next.active
      BY <3>4 DEF IsActiveAdmin
    <3> QED
      BY <2>1, <2>2, <2>6, <3>5, <3>6 DEF CallStep, Begin, InsertUser, ReadUser, CountAdmins, UpdateRole,
         UpdateStatus, Reread, DeleteUser, EnsureWallet, InsertWallet, AdjustWallet, UpsertOwner,
         CallFails, rows
  <2> QED BY <2>6, <2>7
<1>2. IInv /\ [Next]_vars =>
        [ActiveAdmins(user) # {} /\ ActiveAdmins(user)' = {} => \E t \in Threads : Excused(t)]_vars
  BY <1>1
<1> QED BY <1>2, Inductive, PTL DEF Spec, LastAdminStays

=============================================================================
