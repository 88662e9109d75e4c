---------------------------- MODULE TokenRefresh ----------------------------
(***************************************************************************)
(* The rotating refresh token of one account and the threads that redeem   *)
(* it: refresh_and_persist_access_token (usage_token_refresh.rs), called   *)
(* by the token poller, the usage refresh, the gateway after a 401, ...,   *)
(* and resolve_openai_bearer_token (gateway/auth/token_exchange.rs).  Each *)
(* has a lock per account of its own.                                      *)
(*                                                                         *)
(* The authorization server answers each redemption with grant number      *)
(* issued + 1.  A grant has a new access token and, if the server rotates, *)
(* a new refresh token; the old one is spent then.  Every statement on the *)
(* token row and every request to the server is a step of its own.         *)
(* The server refuses nothing but a spent refresh token.  Accounts that    *)
(* are deleted or have no refresh token are left out.                      *)
(***************************************************************************)
EXTENDS Naturals

CONSTANTS
    Threads,
    MaxGrants,   \* bound on the grants of the server
    None

ASSUME MaxGrantsAssumption == MaxGrants \in Nat \ {0}
ASSUME NoneIsNoThread == None \notin Threads

Grant == 1 .. MaxGrants
Token == [refresh : Grant, access : Grant, key : BOOLEAN]
Path == {"refresh", "exchange"}

VARIABLES
    row,           \* the account's row of tokens; key: api_key_access_token is set
    issued,        \* the server's last grant
    spent,         \* who redeemed a refresh token that the server has replaced
    refreshLock,   \* TOKEN_REFRESH_LOCKS[account]
    exchangeLock,  \* ACCOUNT_TOKEN_EXCHANGE_LOCKS[account]
    pc,
    token,         \* each thread's copy of the row
    original,      \* the copy it entered the refresh with
    mishap         \* history: an answer or a write was lost, or a thread wrote a
                   \* refresh token that another had redeemed

vars == <<row, issued, spent, refreshLock, exchangeLock, pc, token, original, mishap>>
server == <<issued, spent>>
locks == <<refreshLock, exchangeLock>>

First == [refresh |-> 1, access |-> 1, key |-> FALSE]

Init ==
    /\ row = First
    /\ issued = 1
    /\ spent = [n \in Grant |-> None]
    /\ refreshLock = None /\ exchangeLock = None
    /\ pc = [t \in Threads |-> "idle"]
    /\ token = [t \in Threads |-> First]
    /\ original = [t \in Threads |-> First]
    /\ mishap = FALSE

At(t, label) == pc[t] = label
Goto(t, label) == pc' = [pc EXCEPT ![t] = label]

IsSpent(n) == spent[n] # None

WithKey(copy, key) == [refresh |-> copy.refresh, access |-> copy.access, key |-> key]

-----------------------------------------------------------------------------
(* The copy a request, a poller or a command works with *)

LoadToken(t) ==
    /\ At(t, "idle")
    /\ token' = [token EXCEPT ![t] = row]
    /\ Goto(t, "holding")
    /\ UNCHANGED <<row, server, locks, original, mishap>>

\* The copy is gone with its owner; First stands for none.
DropToken(t) ==
    /\ At(t, "holding")
    /\ Goto(t, "idle")
    /\ token' = [token EXCEPT ![t] = First]
    /\ original' = [original EXCEPT ![t] = First]
    /\ UNCHANGED <<row, server, locks, mishap>>

\* complete_login and the sign-in with given tokens: a new family of tokens.
SignIn ==
    /\ issued < MaxGrants
    /\ issued' = issued + 1
    /\ \E key \in BOOLEAN : row' = [refresh |-> issued + 1, access |-> issued + 1, key |-> key]
    /\ UNCHANGED <<spent, locks, pc, token, original, mishap>>

-----------------------------------------------------------------------------
(* The authorization server and the row, for either path *)

\* Mutant: the new refresh token is not taken over.
KeepRefresh(old, rotates) == old

\* if let Some(refresh_token) = refreshed.refresh_token
NextRefresh(old, rotates) == IF rotates THEN issued + 1 ELSE old

\* The server accepts the refresh token of t.
Granted(t, path, keys) ==
    /\ ~IsSpent(token[t].refresh)
    /\ issued < MaxGrants
    /\ issued' = issued + 1
    /\ \E rotates \in BOOLEAN, key \in keys :
          /\ spent' = IF rotates THEN [spent EXCEPT ![token[t].refresh] = [by |-> t, path |-> path]]
                      ELSE spent
          /\ token' = [token EXCEPT ![t] =
                [refresh |-> NextRefresh(token[t].refresh, rotates), access |-> issued + 1, key |-> key]]

\* The server accepts it and the answer does not arrive.
AnswerLost(t, path) ==
    /\ ~IsSpent(token[t].refresh)
    /\ issued < MaxGrants
    /\ issued' = issued + 1
    /\ spent' = [spent EXCEPT ![token[t].refresh] = [by |-> t, path |-> path]]
    /\ mishap' = TRUE

\* insert_token replaces the whole row.
InsertToken(t, copy) ==
    /\ row' = copy
    /\ mishap' = (mishap \/ (IsSpent(copy.refresh) /\ spent[copy.refresh].by # t))

-----------------------------------------------------------------------------
(* refresh_and_persist_access_token *)

LockRefresh(t) ==
    /\ At(t, "holding") /\ refreshLock = None
    /\ refreshLock' = t
    /\ original' = [original EXCEPT ![t] = token[t]]
    /\ Goto(t, "reread")
    /\ UNCHANGED <<row, server, exchangeLock, token, mishap>>

\* Mutant: the guard of the lock outlives its call.
StayLocked == UNCHANGED refreshLock

UnlockRefresh == refreshLock' = None

\* Mutant: the copy is used without a look at the row.
NeverChanged(t) == FALSE

Changed(t) ==
    \/ row.access # original[t].access
    \/ row.refresh # original[t].refresh

\* find_token_by_account_id under the lock
Reread(t) ==
    /\ At(t, "reread")
    /\ IF Changed(t)
       THEN /\ token' = [token EXCEPT ![t] = row]
            /\ UnlockRefresh
            /\ Goto(t, "refreshed")
       ELSE /\ token' = [token EXCEPT ![t] = WithKey(token[t], row.key)]
            /\ Goto(t, "redeem")
            /\ UNCHANGED refreshLock
    /\ UNCHANGED <<row, server, exchangeLock, original, mishap>>

\* refresh_access_token and, with a new id_token, obtain_api_key
Redeem(t) ==
    /\ At(t, "redeem")
    /\ Granted(t, "refresh", {token[t].key, TRUE})
    /\ Goto(t, "save")
    /\ UNCHANGED <<row, locks, original, mishap>>

\* The first attempt is granted without an answer; the second, with the client
\* rebuilt, fails too or is told that the token is spent.
RedeemLost(t) ==
    /\ At(t, "redeem")
    /\ AnswerLost(t, "refresh")
    /\ \/ Goto(t, "recover") /\ UNCHANGED refreshLock
       \/ Goto(t, "holding") /\ UnlockRefresh
    /\ UNCHANGED <<row, exchangeLock, token, original>>

RedeemRefused(t) ==
    /\ At(t, "redeem") /\ IsSpent(token[t].refresh)
    /\ Goto(t, "recover")
    /\ UNCHANGED <<row, server, locks, token, original, mishap>>

\* The server or the network fails, or the row cannot be read.
RefreshFails(t) ==
    /\ pc[t] \in {"reread", "redeem", "recover"}
    /\ UnlockRefresh
    /\ Goto(t, "holding")
    /\ UNCHANGED <<row, server, exchangeLock, token, original, mishap>>

Save(t) ==
    /\ At(t, "save")
    /\ InsertToken(t, token[t])
    /\ UnlockRefresh
    /\ Goto(t, "refreshed")
    /\ UNCHANGED <<server, exchangeLock, token, original>>

SaveFails(t) ==
    /\ At(t, "save")
    /\ mishap' = TRUE
    /\ UnlockRefresh
    /\ Goto(t, "holding")
    /\ UNCHANGED <<row, server, exchangeLock, token, original>>

\* Mutant: a lost race is not recovered from.
NeverReplaced(t) == FALSE

Replaced(t) == row.refresh # original[t].refresh

\* recover_refresh_race_from_latest_token
Recover(t) ==
    /\ At(t, "recover") /\ Replaced(t)
    /\ token' = [token EXCEPT ![t] = row]
    /\ UnlockRefresh
    /\ Goto(t, "refreshed")
    /\ UNCHANGED <<row, server, exchangeLock, original, mishap>>

\* The error gets to the caller, which takes the account out of service.
GiveUp(t) ==
    /\ At(t, "recover") /\ ~Replaced(t)
    /\ UnlockRefresh
    /\ Goto(t, "holding")
    /\ UNCHANGED <<row, server, exchangeLock, token, original, mishap>>

UseRefreshed(t) ==
    /\ At(t, "refreshed")
    /\ Goto(t, "holding")
    /\ UNCHANGED <<row, server, locks, token, original, mishap>>

\* try_refresh_websocket_bearer clears a key it had before and writes its copy back,
\* without a lock.
ClearKey(t) ==
    /\ At(t, "refreshed")
    /\ token' = [token EXCEPT ![t] = WithKey(token[t], FALSE)]
    /\ InsertToken(t, WithKey(token[t], FALSE))
    /\ Goto(t, "holding")
    /\ UNCHANGED <<server, locks, original>>

-----------------------------------------------------------------------------
(* resolve_openai_bearer_token; a key may have expired whenever it is looked at *)

LockExchange(t) ==
    /\ At(t, "holding") /\ exchangeLock = None
    /\ exchangeLock' = t
    /\ Goto(t, "cached")
    /\ UNCHANGED <<row, server, refreshLock, token, original, mishap>>

LeaveExchange(t) ==
    /\ exchangeLock' = None
    /\ Goto(t, "holding")

FindCached(t) ==
    /\ At(t, "cached")
    /\ \/ /\ token[t].key \/ row.key
          /\ token' = [token EXCEPT ![t] = WithKey(token[t], TRUE)]
          /\ LeaveExchange(t)
       \/ /\ Goto(t, "exchange")
          /\ UNCHANGED <<token, exchangeLock>>
    /\ UNCHANGED <<row, server, refreshLock, original, mishap>>

\* obtain_api_key with the access token, then with the id_token
ExchangeKey(t) ==
    /\ pc[t] \in {"exchange", "reexchange"}
    /\ token' = [token EXCEPT ![t] = WithKey(token[t], TRUE)]
    /\ Goto(t, "persist")
    /\ UNCHANGED <<row, server, locks, original, mishap>>

\* exchange_and_persist_api_key_access_token ignores a failed write.
PersistKey(t) ==
    /\ At(t, "persist")
    /\ \/ InsertToken(t, token[t])
       \/ mishap' = TRUE /\ UNCHANGED row
    /\ LeaveExchange(t)
    /\ UNCHANGED <<server, refreshLock, token, original>>

ExchangeFails(t) ==
    /\ At(t, "exchange")
    /\ Goto(t, "xredeem")
    /\ UNCHANGED <<row, server, locks, token, original, mishap>>

RedeemForExchange(t) ==
    /\ At(t, "xredeem")
    /\ Granted(t, "exchange", {token[t].key})
    /\ Goto(t, "xsave")
    /\ UNCHANGED <<row, locks, original, mishap>>

RedeemForExchangeLost(t) ==
    /\ At(t, "xredeem")
    /\ AnswerLost(t, "exchange")
    /\ LeaveExchange(t)
    /\ UNCHANGED <<row, refreshLock, token, original>>

\* The refresh is refused or fails, or the second exchange fails: the access token
\* serves instead, or the account is taken out of service.
FallBack(t) ==
    /\ pc[t] \in {"xredeem", "reexchange"}
    /\ LeaveExchange(t)
    /\ UNCHANGED <<row, server, refreshLock, token, original, mishap>>

SaveForExchange(t) ==
    /\ At(t, "xsave")
    /\ \/ InsertToken(t, token[t])
       \/ mishap' = TRUE /\ UNCHANGED row
    /\ Goto(t, "reexchange")
    /\ UNCHANGED <<server, locks, token, original>>

-----------------------------------------------------------------------------
Next ==
    \/ SignIn
    \/ \E t \in Threads :
          \/ LoadToken(t) \/ DropToken(t)
          \/ LockRefresh(t) \/ Reread(t) \/ Redeem(t) \/ RedeemLost(t) \/ RedeemRefused(t)
          \/ RefreshFails(t) \/ Save(t) \/ SaveFails(t) \/ Recover(t) \/ GiveUp(t)
          \/ UseRefreshed(t) \/ ClearKey(t)
          \/ LockExchange(t) \/ FindCached(t) \/ ExchangeKey(t) \/ PersistKey(t)
          \/ ExchangeFails(t) \/ RedeemForExchange(t) \/ RedeemForExchangeLost(t)
          \/ FallBack(t) \/ SaveForExchange(t)

Spec == Init /\ [][Next]_vars

-----------------------------------------------------------------------------
(* Properties *)

InRefresh == {"reread", "redeem", "save", "recover"}
InExchange == {"cached", "exchange", "persist", "xredeem", "xsave", "reexchange"}
Label == InRefresh \cup InExchange \cup {"idle", "holding", "refreshed"}

\* A lock is held by the one thread that is inside.
LocksHeld ==
    \A t \in Threads :
       /\ refreshLock = t <=> pc[t] \in InRefresh
       /\ exchangeLock = t <=> pc[t] \in InExchange

TypeOK ==
    /\ row \in Token
    /\ issued \in Grant
    /\ spent \in [Grant -> {None} \cup [by : Threads, path : Path]]
    /\ refreshLock \in Threads \cup {None}
    /\ exchangeLock \in Threads \cup {None}
    /\ pc \in [Threads -> Label]
    /\ token \in [Threads -> Token]
    /\ original \in [Threads -> Token]
    /\ mishap \in BOOLEAN
    /\ LocksHeld

\* The row holds a spent refresh token only while the thread that redeemed it has
\* the next one in hand to be saved, unless an answer, a write or a race with a
\* stale copy has already cost the account its token.
RowStaysRedeemable ==
    IsSpent(row.refresh) /\ ~mishap =>
       /\ pc[spent[row.refresh].by] \in {"save", "xsave"}
       /\ ~IsSpent(token[spent[row.refresh].by].refresh)

\* Threads that queue for the refresh lock with the same token do not redeem it one
\* after the other: a token about to be sent is spent only if the exchange, which
\* takes another lock, has redeemed it, or it had been lost before.
QueuedRefreshSeesNewToken ==
    \A t \in Threads :
       At(t, "redeem") /\ IsSpent(token[t].refresh) /\ ~mishap =>
          spent[token[t].refresh].path = "exchange"

\* recover_refresh_race: losing the race for the refresh token does not cost the
\* account its place in service, unless the winner has not saved yet.
RaceIsNoReasonToGiveUp ==
    [][\A t \in Threads : GiveUp(t) /\ ~mishap => \E u \in Threads : At(u, "xsave")]_vars

=============================================================================
