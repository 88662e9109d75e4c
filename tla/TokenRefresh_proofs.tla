------------------------- MODULE TokenRefresh_proofs -------------------------
(***************************************************************************)
(* What becomes of the account's refresh token, for any number of threads  *)
(* and grants.                                                             *)
(*                                                                         *)
(* The argument: a token that was rotated is known to its redeemer alone   *)
(* until it is saved, so nobody can spend it in between; and whoever spent *)
(* the token in the row is therefore still about to save its successor.    *)
(***************************************************************************)
EXTENDS TokenRefresh, TLAPS

\* Nobody knows a grant the server has not made.
OnlyIssued ==
    /\ row.refresh <= issued /\ row.access <= issued
    /\ \A t \in Threads : token[t].refresh <= issued /\ token[t].access <= issued
    /\ \A n \in Grant : n > issued => ~IsSpent(n)

\* A rotated token that is to be saved is known to the thread that got it alone.
Rotated(t) == pc[t] \in {"save", "xsave"} /\ token[t].refresh = token[t].access
PrivateUntilSaved ==
    \A t \in Threads : Rotated(t) =>
       /\ token[t].refresh # First.refresh
       /\ token[t].refresh # row.refresh
       /\ \A u \in Threads \ {t} : token[t].refresh # token[u].refresh

\* The spent token of the row has a successor, and its redeemer is about to save it.
Saving(n) ==
    LET t == spent[n].by
    IN  /\ pc[t] = IF spent[n].path = "refresh" THEN "save" ELSE "xsave"
        /\ token[t].refresh = token[t].access
        /\ ~IsSpent(token[t].refresh)
SpentRowIsReplaced == IsSpent(row.refresh) /\ ~mishap => Saving(row.refresh)

\* Nobody works with a token it has redeemed itself.
NobodyKeepsOwnSpent ==
    ~mishap => \A t \in Threads :
       pc[t] # "idle" /\ IsSpent(token[t].refresh) => spent[token[t].refresh].by # t

\* Up to the redemption, the refresh token is the one the call came with; it has been
\* refused when the call looks for a replacement.
OriginalKept ==
    \A t \in Threads :
       /\ pc[t] \in {"reread", "redeem", "recover"} => token[t].refresh = original[t].refresh
       /\ pc[t] = "recover" /\ ~mishap => IsSpent(original[t].refresh)

IInv ==
    /\ TypeOK
    /\ OnlyIssued
    /\ PrivateUntilSaved
    /\ SpentRowIsReplaced
    /\ NobodyKeepsOwnSpent
    /\ OriginalKept
    /\ QueuedRefreshSeesNewToken

LEMMA InitIInv == Init => IInv
<1> SUFFICES ASSUME Init PROVE IInv
  OBVIOUS
<1>1. 1 \in Grant /\ First \in Token /\ First.refresh = 1 /\ First.access = 1
  BY MaxGrantsAssumption DEF Grant, Token, First
<1>2. \A n \in Grant : ~IsSpent(n)
  BY DEF Init, IsSpent
<1>3. LocksHeld
  BY NoneIsNoThread DEF Init, LocksHeld, InRefresh, InExchange
<1>4. TypeOK
  BY <1>1, <1>3 DEF Init, TypeOK, Label
<1>5. OnlyIssued /\ PrivateUntilSaved /\ OriginalKept
  BY <1>1, <1>2 DEF Init, OnlyIssued, PrivateUntilSaved, Rotated, OriginalKept
<1>6. SpentRowIsReplaced /\ NobodyKeepsOwnSpent /\ QueuedRefreshSeesNewToken
  BY <1>1, <1>2 DEF Init, SpentRowIsReplaced, NobodyKeepsOwnSpent, QueuedRefreshSeesNewToken, At
<1> QED BY <1>4, <1>5, <1>6 DEF IInv

-----------------------------------------------------------------------------
(* Types and locks *)

\* A token with another key is a token.
LEMMA WithKeyIsToken ==
  ASSUME NEW copy \in Token, NEW key \in BOOLEAN
  PROVE  /\ WithKey(copy, key) \in Token
         /\ WithKey(copy, key).refresh = copy.refresh
         /\ WithKey(copy, key).access = copy.access
  BY DEF WithKey, Token

Work(t) ==
    \/ LoadToken(t) \/ DropToken(t)
    \/ LockRefresh(t) \/ Reread(t) \/ Redeem(t) \/ RedeemLost(t) \/ RedeemRefused(t)
    \/ RefreshFails(t) \/ Save(t) \/ SaveFails(t) \/ Recover(t) \/ GiveUp(t)
    \/ UseRefreshed(t) \/ ClearKey(t)
    \/ LockExchange(t) \/ FindCached(t) \/ ExchangeKey(t) \/ PersistKey(t)
    \/ ExchangeFails(t) \/ RedeemForExchange(t) \/ RedeemForExchangeLost(t)
    \/ FallBack(t) \/ SaveForExchange(t)

\* Where a step of t goes, and what it does to the locks.
LEMMA Moves ==
  ASSUME TypeOK, NEW t \in Threads, Work(t)
  PROVE  /\ \E l \in Label : pc' = [pc EXCEPT ![t] = l]
         /\ refreshLock' \in Threads \cup {None} /\ exchangeLock' \in Threads \cup {None}
         /\ LocksHeld'
<1> USE NoneIsNoThread DEF TypeOK, LocksHeld, Label, InRefresh, InExchange, At, Goto, locks
<1>1. CASE LoadToken(t) BY <1>1 DEF LoadToken
<1>2. CASE DropToken(t) BY <1>2 DEF DropToken
<1>3. CASE LockRefresh(t) BY <1>3 DEF LockRefresh
<1>4. CASE Reread(t) BY <1>4 DEF Reread, UnlockRefresh
<1>5. CASE Redeem(t) BY <1>5 DEF Redeem
<1>6. CASE RedeemLost(t) BY <1>6 DEF RedeemLost, UnlockRefresh
<1>7. CASE RedeemRefused(t) BY <1>7 DEF RedeemRefused
<1>8. CASE RefreshFails(t) BY <1>8 DEF RefreshFails, UnlockRefresh
<1>9. CASE Save(t) BY <1>9 DEF Save, UnlockRefresh
<1>10. CASE SaveFails(t) BY <1>10 DEF SaveFails, UnlockRefresh
<1>11. CASE Recover(t) BY <1>11 DEF Recover, UnlockRefresh
<1>12. CASE GiveUp(t) BY <1>12 DEF GiveUp, UnlockRefresh
<1>13. CASE UseRefreshed(t) BY <1>13 DEF UseRefreshed
<1>14. CASE ClearKey(t) BY <1>14 DEF ClearKey
<1>15. CASE LockExchange(t) BY <1>15 DEF LockExchange
<1>16. CASE FindCached(t)
  <2>1. pc[t] = "cached" /\ refreshLock' = refreshLock /\ exchangeLock = t
    BY <1>16 DEF FindCached
  <2>2. CASE exchangeLock' = None /\ pc' = [pc EXCEPT ![t] = "holding"]
    BY <2>1, <2>2
  <2>3. CASE exchangeLock' = exchangeLock /\ pc' = [pc EXCEPT ![t] = "exchange"]
    BY <2>1, <2>3
  <2> QED BY <1>16, <2>2, <2>3 DEF FindCached, LeaveExchange
<1>17. CASE ExchangeKey(t) BY <1>17 DEF ExchangeKey
<1>18. CASE PersistKey(t) BY <1>18 DEF PersistKey, LeaveExchange
<1>19. CASE ExchangeFails(t) BY <1>19 DEF ExchangeFails
<1>20. CASE RedeemForExchange(t) BY <1>20 DEF RedeemForExchange
<1>21. CASE RedeemForExchangeLost(t) BY <1>21 DEF RedeemForExchangeLost, LeaveExchange
<1>22. CASE FallBack(t) BY <1>22 DEF FallBack, LeaveExchange
<1>23. CASE SaveForExchange(t) BY <1>23 DEF SaveForExchange
<1> QED BY <1>1, <1>2, <1>3, <1>4, <1>5, <1>6, <1>7, <1>8, <1>9, <1>10, <1>11, <1>12, <1>13, <1>14, <1>15, <1>16, <1>17, <1>18, <1>19, <1>20, <1>21, <1>22, <1>23 DEF Work

\* What the server grants, and to whom.
LEMMA GrantEffect ==
  ASSUME TypeOK, NEW t \in Threads, NEW path \in Path, NEW keys \in SUBSET BOOLEAN,
         Granted(t, path, keys)
  PROVE  /\ ~IsSpent(token[t].refresh) /\ issued < MaxGrants /\ issued' = issued + 1
         /\ issued' \in Grant
         /\ spent' \in [Grant -> {None} \cup [by : Threads, path : Path]]
         /\ token' \in [Threads -> Token]
         /\ \A u \in Threads \ {t} : token'[u] = token[u]
         /\ token'[t].access = issued + 1
         /\ \/ token'[t].refresh = token[t].refresh /\ spent' = spent
            \/ /\ token'[t].refresh = issued + 1
               /\ spent' = [spent EXCEPT ![token[t].refresh] = [by |-> t, path |-> path]]
<1>1. PICK rotates \in BOOLEAN, key \in keys :
         /\ spent' = IF rotates THEN [spent EXCEPT ![token[t].refresh] = [by |-> t, path |-> path]]
                     ELSE spent
         /\ token' = [token EXCEPT ![t] =
               [refresh |-> NextRefresh(token[t].refresh, rotates), access |-> issued + 1, key |-> key]]
  BY DEF Granted
<1>2. issued' = issued + 1 /\ issued < MaxGrants /\ ~IsSpent(token[t].refresh)
  BY DEF Granted
<1>3. issued + 1 \in Grant /\ token[t].refresh \in Grant /\ token[t] \in Token
  BY <1>2, MaxGrantsAssumption DEF TypeOK, Grant, Token
<1>4. NextRefresh(token[t].refresh, rotates) = IF rotates THEN issued + 1 ELSE token[t].refresh
  BY DEF NextRefresh
<1> DEFINE new == [refresh |-> NextRefresh(token[t].refresh, rotates), access |-> issued + 1, key |-> key]
           record == [by |-> t, path |-> path]
<1>5. new \in Token /\ new.access = issued + 1 /\ new.refresh = IF rotates THEN issued + 1 ELSE token[t].refresh
  BY <1>3, <1>4 DEF Token
<1>6. record \in [by : Threads, path : Path]
  OBVIOUS
<1>7. token' = [token EXCEPT ![t] = new] /\ spent' = IF rotates THEN [spent EXCEPT ![token[t].refresh] = record] ELSE spent
  BY <1>1
<1> HIDE DEF new, record
<1>8. token' \in [Threads -> Token] /\ token'[t] = new /\ \A u \in Threads \ {t} : token'[u] = token[u]
  BY <1>5, <1>7 DEF TypeOK
<1>9. spent' \in [Grant -> {None} \cup [by : Threads, path : Path]]
  BY <1>3, <1>6, <1>7 DEF TypeOK
<1> QED BY <1>2, <1>3, <1>5, <1>7, <1>8, <1>9 DEF record

LEMMA LossTypes ==
  ASSUME TypeOK, NEW t \in Threads, NEW path \in Path, AnswerLost(t, path)
  PROVE  /\ issued' \in Grant /\ mishap'
         /\ spent' \in [Grant -> {None} \cup [by : Threads, path : Path]]
<1>1. issued + 1 \in Grant /\ token[t].refresh \in Grant
  BY MaxGrantsAssumption DEF TypeOK, AnswerLost, Grant, Token
<1>2. [by |-> t, path |-> path] \in [by : Threads, path : Path]
  OBVIOUS
<1> QED BY <1>1, <1>2 DEF TypeOK, AnswerLost

LEMMA TypeOKStep ==
  ASSUME TypeOK, NEW t \in Threads, Work(t) PROVE TypeOK'
<1>1. /\ pc' \in [Threads -> Label]
      /\ refreshLock' \in Threads \cup {None} /\ exchangeLock' \in Threads \cup {None}
      /\ LocksHeld'
  BY Moves DEF TypeOK
<1>2. \A key \in BOOLEAN : WithKey(token[t], key) \in Token
  BY WithKeyIsToken DEF TypeOK
<1>3. /\ row' \in Token
      /\ issued' \in Grant
      /\ spent' \in [Grant -> {None} \cup [by : Threads, path : Path]]
      /\ token' \in [Threads -> Token]
      /\ original' \in [Threads -> Token]
      /\ mishap' \in BOOLEAN
  <2>0. First \in Token
    BY MaxGrantsAssumption DEF First, Token, Grant
  <2>00. /\ row \in Token /\ row.key \in BOOLEAN /\ token[t] \in Token /\ token[t].refresh \in Grant
      /\ token[t].key \in BOOLEAN /\ issued \in Nat
    BY DEF TypeOK, Token, Grant
  <2>1. CASE LoadToken(t) BY <1>2, <2>0, <2>00, <2>1 DEF TypeOK, LoadToken, server, locks
  <2>2. CASE DropToken(t) BY <1>2, <2>0, <2>00, <2>2 DEF TypeOK, DropToken, server, locks
  <2>3. CASE LockRefresh(t) BY <1>2, <2>0, <2>00, <2>3 DEF TypeOK, LockRefresh, server, locks
  <2>4. CASE Reread(t) BY <1>2, <2>0, <2>00, <2>4 DEF TypeOK, Reread, server, locks
  <2>5. CASE Redeem(t)
    <3>1. {token[t].key, TRUE} \in SUBSET BOOLEAN /\ "refresh" \in Path
      BY <2>00 DEF Path
    <3>2. Granted(t, "refresh", {token[t].key, TRUE})
      BY <2>5 DEF Redeem
    <3> QED BY <2>5, <3>1, <3>2, GrantEffect DEF Redeem, TypeOK
  <2>6. CASE RedeemLost(t) BY <2>6, LossTypes DEF RedeemLost, TypeOK, Path
  <2>7. CASE RedeemRefused(t) BY <1>2, <2>0, <2>00, <2>7 DEF TypeOK, RedeemRefused, server, locks
  <2>8. CASE RefreshFails(t) BY <1>2, <2>0, <2>00, <2>8 DEF TypeOK, RefreshFails, server, locks
  <2>9. CASE Save(t) BY <1>2, <2>0, <2>00, <2>9 DEF TypeOK, Save, server, locks, InsertToken
  <2>10. CASE SaveFails(t) BY <1>2, <2>0, <2>00, <2>10 DEF TypeOK, SaveFails, server, locks
  <2>11. CASE Recover(t) BY <1>2, <2>0, <2>00, <2>11 DEF TypeOK, Recover, server, locks
  <2>12. CASE GiveUp(t) BY <1>2, <2>0, <2>00, <2>12 DEF TypeOK, GiveUp, server, locks
  <2>13. CASE UseRefreshed(t) BY <1>2, <2>0, <2>00, <2>13 DEF TypeOK, UseRefreshed, server, locks
  <2>14. CASE ClearKey(t) BY <1>2, <2>0, <2>00, <2>14 DEF TypeOK, ClearKey, server, locks, InsertToken
  <2>15. CASE LockExchange(t) BY <1>2, <2>0, <2>00, <2>15 DEF TypeOK, LockExchange, server, locks
  <2>16. CASE FindCached(t) BY <1>2, <2>0, <2>00, <2>16 DEF TypeOK, FindCached, server, locks
  <2>17. CASE ExchangeKey(t) BY <1>2, <2>0, <2>00, <2>17 DEF TypeOK, ExchangeKey, server, locks
  <2>18. CASE PersistKey(t) BY <1>2, <2>0, <2>00, <2>18 DEF TypeOK, PersistKey, server, locks, InsertToken
  <2>19. CASE ExchangeFails(t) BY <1>2, <2>0, <2>00, <2>19 DEF TypeOK, ExchangeFails, server, locks
  <2>20. CASE RedeemForExchange(t)
    <3>1. {token[t].key} \in SUBSET BOOLEAN /\ "exchange" \in Path
      BY <2>00 DEF Path
    <3>2. Granted(t, "exchange", {token[t].key})
      BY <2>20 DEF RedeemForExchange
    <3> QED BY <2>20, <3>1, <3>2, GrantEffect DEF RedeemForExchange, TypeOK
  <2>21. CASE RedeemForExchangeLost(t) BY <2>21, LossTypes DEF RedeemForExchangeLost, TypeOK, Path
  <2>22. CASE FallBack(t) BY <1>2, <2>0, <2>00, <2>22 DEF TypeOK, FallBack, server, locks
  <2>23. CASE SaveForExchange(t) BY <1>2, <2>0, <2>00, <2>23 DEF TypeOK, SaveForExchange, server, locks, InsertToken
  <2> QED BY <2>1, <2>2, <2>3, <2>4, <2>5, <2>6, <2>7, <2>8, <2>9, <2>10, <2>11, <2>12, <2>13, <2>14, <2>15, <2>16, <2>17, <2>18, <2>19, <2>20, <2>21, <2>22, <2>23 DEF Work
<1> QED BY <1>1, <1>3 DEF TypeOK

-----------------------------------------------------------------------------
(* The way of the refresh token *)

LEMMA Ranges ==
  ASSUME TypeOK
  PROVE  /\ \A m \in Grant : m \in Nat \ {0}
         /\ issued \in Nat \ {0} /\ row.refresh \in Grant /\ row.access \in Grant
         /\ \A u \in Threads : token[u].refresh \in Grant /\ token[u].access \in Grant
<1>1. \A m \in Grant : m \in Nat \ {0}
  BY MaxGrantsAssumption DEF Grant
<1>2. issued \in Grant /\ row.refresh \in Grant /\ row.access \in Grant
  BY DEF TypeOK, Token
<1>3. \A u \in Threads : token[u].refresh \in Grant /\ token[u].access \in Grant
  BY DEF TypeOK, Token
<1> QED BY <1>1, <1>2, <1>3

SamePair(x, y) == x.refresh = y.refresh /\ x.access = y.access

\* Steps that read the row, wait for a lock or the server, or change a key.
Quiet(t) ==
    \/ LoadToken(t) \/ DropToken(t) \/ Reread(t) \/ Recover(t)
    \/ LockRefresh(t) \/ RedeemRefused(t) \/ RefreshFails(t) \/ GiveUp(t) \/ UseRefreshed(t)
    \/ LockExchange(t) \/ FindCached(t) \/ ExchangeKey(t) \/ ExchangeFails(t) \/ FallBack(t)

\* The row and the server stay, and t keeps its pair of tokens or takes another from
\* the row, far from any save.
LEMMA QuietEffect ==
  ASSUME TypeOK, NEW t \in Threads, Quiet(t)
  PROVE  /\ row' = row /\ issued' = issued /\ spent' = spent /\ mishap' = mishap
         /\ \A u \in Threads \ {t} : token'[u] = token[u] /\ pc'[u] = pc[u]
         /\ pc[t] \notin {"save", "xsave"} /\ pc'[t] \notin {"save", "xsave"}
         /\ \/ pc[t] # "idle" /\ SamePair(token'[t], token[t])
            \/ pc[t] \in {"idle", "reread", "recover"} /\ token'[t] = row
            \/ pc'[t] = "idle" /\ token'[t] = First
<1>1. \A key \in BOOLEAN : SamePair(WithKey(token[t], key), token[t])
  BY WithKeyIsToken DEF TypeOK, SamePair
<1>2. row.key \in BOOLEAN /\ SamePair(token[t], token[t])
  BY DEF TypeOK, Token, SamePair
<1> USE DEF TypeOK, At, Goto, server
<1>3. CASE LoadToken(t) \/ DropToken(t)
  BY <1>3 DEF LoadToken, DropToken
<1>4. CASE Reread(t)
  BY <1>1, <1>2, <1>4 DEF Reread
<1>5. CASE FindCached(t)
  BY <1>1, <1>2, <1>5 DEF FindCached, LeaveExchange
<1>6. CASE ExchangeKey(t)
  BY <1>1, <1>6 DEF ExchangeKey
<1>7. CASE Recover(t)
  BY <1>7 DEF Recover
<1>8. CASE LockRefresh(t) \/ LockExchange(t) \/ UseRefreshed(t) \/ ExchangeFails(t) \/ FallBack(t)
  BY <1>2, <1>8 DEF LockRefresh, LockExchange, UseRefreshed, ExchangeFails, FallBack, LeaveExchange
<1>9. CASE RedeemRefused(t) \/ RefreshFails(t) \/ GiveUp(t)
  BY <1>2, <1>9 DEF RedeemRefused, RefreshFails, GiveUp
<1> QED BY <1>3, <1>4, <1>5, <1>6, <1>7, <1>8, <1>9 DEF Quiet

LEMMA QuietKeepsToken ==
  ASSUME IInv, NEW t \in Threads, Quiet(t)
  PROVE  OnlyIssued' /\ PrivateUntilSaved' /\ SpentRowIsReplaced' /\ NobodyKeepsOwnSpent'
<1> USE QuietEffect DEF IInv, SamePair
<1>1. /\ First.refresh = 1 /\ First.access = 1
      /\ issued \in Nat \ {0} /\ row.refresh \in Grant
      /\ \A u \in Threads : token[u].refresh \in Grant /\ token[u].access \in Grant
  BY Ranges DEF First
<1>2. OnlyIssued'
  BY <1>1 DEF OnlyIssued, IsSpent
<1>3. PrivateUntilSaved'
  BY <1>1 DEF PrivateUntilSaved, Rotated
<1>4. SpentRowIsReplaced'
  <2> SUFFICES ASSUME IsSpent(row.refresh), ~mishap PROVE Saving(row.refresh)'
    BY DEF SpentRowIsReplaced, IsSpent
  <2>1. Saving(row.refresh) /\ spent[row.refresh].by \in Threads
    BY <1>1 DEF SpentRowIsReplaced, TypeOK, IsSpent
  <2> DEFINE u == spent[row.refresh].by
  <2>2. /\ pc[u] = IF spent[row.refresh].path = "refresh" THEN "save" ELSE "xsave"
        /\ token[u].refresh = token[u].access /\ spent[token[u].refresh] = None
    BY <2>1 DEF Saving, IsSpent
  <2>3. row' = row /\ spent' = spent /\ pc[t] \notin {"save", "xsave"}
    OBVIOUS
  <2>4. u # t
    BY <2>2, <2>3
  <2>5. pc'[u] = pc[u] /\ token'[u] = token[u]
    BY <2>1, <2>4
  <2> QED BY <2>2, <2>3, <2>5 DEF Saving, IsSpent
<1>5. NobodyKeepsOwnSpent'
  BY <1>1 DEF NobodyKeepsOwnSpent, SpentRowIsReplaced, Saving, IsSpent
<1> QED BY <1>2, <1>3, <1>4, <1>5

\* Steps that write the row, or try to.
Writes(t) == Save(t) \/ ClearKey(t) \/ PersistKey(t) \/ SaveForExchange(t)

LEMMA WriteEffect ==
  ASSUME TypeOK, NEW t \in Threads, Writes(t)
  PROVE  /\ issued' = issued /\ spent' = spent /\ original' = original
         /\ \A u \in Threads : SamePair(token'[u], token[u])
         /\ \A u \in Threads \ {t} : pc'[u] = pc[u]
         /\ pc[t] # "idle" /\ pc'[t] \notin {"idle", "save", "xsave"} \cup InRefresh
         /\ \/ /\ SamePair(row', token[t])
               /\ mishap' = (mishap \/ (IsSpent(token[t].refresh) /\ spent[token[t].refresh].by # t))
            \/ row' = row /\ mishap'
<1>1. \A key \in BOOLEAN : SamePair(WithKey(token[t], key), token[t])
  BY WithKeyIsToken DEF TypeOK, SamePair
<1>2. \A u \in Threads : SamePair(token[u], token[u])
  BY DEF SamePair
<1> USE DEF TypeOK, At, Goto, server, InRefresh
<1>3. CASE Save(t)
  BY <1>2, <1>3 DEF Save, InsertToken
<1>4. CASE ClearKey(t)
  <2>1. SamePair(WithKey(token[t], FALSE), token[t])
    BY <1>1
  <2>2. token'[t] = WithKey(token[t], FALSE) /\ \A u \in Threads \ {t} : token'[u] = token[u]
    BY <1>4 DEF ClearKey
  <2>3. \A u \in Threads : SamePair(token'[u], token[u])
    BY <1>2, <2>1, <2>2
  <2> QED BY <1>4, <2>1, <2>3 DEF ClearKey, InsertToken, SamePair
<1>5. CASE PersistKey(t)
  BY <1>2, <1>5 DEF PersistKey, InsertToken, LeaveExchange
<1>6. CASE SaveForExchange(t)
  BY <1>2, <1>6 DEF SaveForExchange, InsertToken
<1> QED BY <1>3, <1>4, <1>5, <1>6 DEF Writes

LEMMA WritesKeepToken ==
  ASSUME IInv, NEW t \in Threads, Writes(t)
  PROVE  OnlyIssued' /\ PrivateUntilSaved' /\ SpentRowIsReplaced' /\ NobodyKeepsOwnSpent'
<1>1. /\ issued \in Nat \ {0} /\ row.refresh \in Grant
      /\ \A u \in Threads : token[u].refresh \in Grant /\ token[u].access \in Grant
  BY Ranges DEF IInv
<1>2. /\ issued' = issued /\ spent' = spent
      /\ \A u \in Threads : SamePair(token'[u], token[u])
      /\ \A u \in Threads \ {t} : pc'[u] = pc[u]
      /\ pc[t] # "idle" /\ pc'[t] \notin {"idle", "save", "xsave"} \cup InRefresh
      /\ \/ /\ SamePair(row', token[t])
            /\ mishap' = (mishap \/ (IsSpent(token[t].refresh) /\ spent[token[t].refresh].by # t))
         \/ row' = row /\ mishap'
  BY WriteEffect DEF IInv
<1>3. OnlyIssued'
  BY <1>1, <1>2 DEF IInv, OnlyIssued, IsSpent, SamePair
<1>4. PrivateUntilSaved'
  <2> SUFFICES ASSUME NEW u \in Threads, Rotated(u)'
               PROVE  /\ token'[u].refresh # First.refresh
                      /\ token'[u].refresh # row'.refresh
                      /\ \A v \in Threads \ {u} : token'[u].refresh # token'[v].refresh
    BY DEF PrivateUntilSaved, First
  <2>1. u # t
    BY <1>2 DEF Rotated, InRefresh
  <2>2. Rotated(u)
    BY <1>2, <2>1 DEF Rotated, SamePair
  <2>3. /\ token[u].refresh # First.refresh /\ token[u].refresh # row.refresh
        /\ \A v \in Threads \ {u} : token[u].refresh # token[v].refresh
    BY <2>2 DEF IInv, PrivateUntilSaved
  <2>4. \A v \in Threads : token'[v].refresh = token[v].refresh
    BY <1>2 DEF SamePair
  <2>5. row'.refresh = token[t].refresh \/ row' = row
    BY <1>2 DEF SamePair
  <2> QED BY <2>1, <2>3, <2>4, <2>5
<1>5. SpentRowIsReplaced'
  <2> SUFFICES ASSUME spent[row'.refresh] # None, ~mishap' PROVE FALSE
    BY <1>2 DEF SpentRowIsReplaced, IsSpent
  <2>1. /\ row'.refresh = token[t].refresh /\ ~mishap
        /\ ~(IsSpent(token[t].refresh) /\ spent[token[t].refresh].by # t)
    BY <1>2 DEF SamePair
  <2> QED BY <1>2, <2>1 DEF IInv, NobodyKeepsOwnSpent, IsSpent
<1>6. NobodyKeepsOwnSpent'
  <2> SUFFICES ASSUME ~mishap', NEW u \in Threads, pc'[u] # "idle", spent'[token'[u].refresh] # None
               PROVE  spent'[token'[u].refresh].by # u
    BY DEF NobodyKeepsOwnSpent, IsSpent
  <2>1. spent' = spent /\ token'[u].refresh = token[u].refresh /\ ~mishap
    BY <1>2 DEF SamePair
  <2>2. pc[u] # "idle"
    BY <1>2
  <2>3. spent[token[u].refresh].by # u
    BY <2>1, <2>2 DEF NobodyKeepsOwnSpent, IsSpent, IInv
  <2> QED BY <2>1, <2>3
<1> QED BY <1>3, <1>4, <1>5, <1>6

\* Steps that cost the account something.
Loses(t) == RedeemLost(t) \/ RedeemForExchangeLost(t) \/ SaveFails(t)

LEMMA LossEffect ==
  ASSUME TypeOK, NEW t \in Threads, Loses(t)
  PROVE  /\ row' = row /\ token' = token /\ original' = original /\ mishap'
         /\ issued' \in Nat /\ issued' >= issued
         /\ \A n \in Grant : IsSpent(n)' => IsSpent(n) \/ n = token[t].refresh
         /\ \A n \in Grant : IsSpent(n) => IsSpent(n)'
         /\ \A u \in Threads \ {t} : pc'[u] = pc[u]
         /\ pc'[t] \in {"recover", "holding"}
         /\ pc[t] \in {"redeem", "xredeem", "save"}
<1>1. issued \in Nat /\ token[t].refresh \in Grant
  BY DEF TypeOK, Token, Grant
<1> USE DEF TypeOK, At, Goto, server, IsSpent, AnswerLost
<1>2. CASE RedeemLost(t)
  BY <1>1, <1>2 DEF RedeemLost
<1>3. CASE RedeemForExchangeLost(t)
  BY <1>1, <1>3 DEF RedeemForExchangeLost, LeaveExchange
<1>4. CASE SaveFails(t)
  BY <1>1, <1>4 DEF SaveFails
<1> QED BY <1>2, <1>3, <1>4 DEF Loses

LEMMA LossesKeepToken ==
  ASSUME IInv, NEW t \in Threads, Loses(t)
  PROVE  OnlyIssued' /\ PrivateUntilSaved' /\ SpentRowIsReplaced' /\ NobodyKeepsOwnSpent'
<1> USE DEF IInv
<1>1. /\ \A m \in Grant : m \in Nat \ {0}
      /\ issued \in Nat \ {0} /\ row.refresh \in Grant /\ row.access \in Grant
      /\ \A u \in Threads : token[u].refresh \in Grant /\ token[u].access \in Grant
  BY Ranges
<1>2. OnlyIssued'
  <2>1. /\ row' = row /\ token' = token /\ issued' \in Nat /\ issued' >= issued
        /\ \A n \in Grant : IsSpent(n)' => IsSpent(n) \/ n = token[t].refresh
    BY LossEffect
  <2>2. row.refresh <= issued' /\ row.access <= issued'
    BY <1>1, <2>1 DEF OnlyIssued
  <2>3. \A u \in Threads : token[u].refresh <= issued' /\ token[u].access <= issued'
    BY <1>1, <2>1 DEF OnlyIssued
  <2>4. \A n \in Grant : n > issued' => ~IsSpent(n)'
    BY <1>1, <2>1, <2>3 DEF OnlyIssued
  <2> QED BY <2>1, <2>2, <2>3, <2>4 DEF OnlyIssued
<1>3. PrivateUntilSaved'
  BY LossEffect DEF PrivateUntilSaved, Rotated
<1> QED BY <1>2, <1>3, LossEffect DEF SpentRowIsReplaced, NobodyKeepsOwnSpent

\* The server replaces the token of t by one that nobody has seen, or leaves it.
Grants(t) == Redeem(t) \/ RedeemForExchange(t)
PathOf(t) == IF At(t, "redeem") THEN "refresh" ELSE "exchange"

LEMMA GrantsEffect ==
  ASSUME TypeOK, NEW t \in Threads, Grants(t)
  PROVE  /\ row' = row /\ original' = original /\ mishap' = mishap
         /\ pc[t] \in {"redeem", "xredeem"}
         /\ pc' = [pc EXCEPT ![t] = IF PathOf(t) = "refresh" THEN "save" ELSE "xsave"]
         /\ PathOf(t) \in Path
         /\ \E keys \in SUBSET BOOLEAN : Granted(t, PathOf(t), keys)
<1>1. token[t].key \in BOOLEAN
  BY DEF TypeOK, Token
<1>2. CASE Redeem(t)
  <2>1. pc[t] = "redeem" /\ PathOf(t) = "refresh"
    BY <1>2 DEF Redeem, At, PathOf
  <2> QED BY <1>1, <1>2, <2>1 DEF Redeem, Goto, Path
<1>3. CASE RedeemForExchange(t)
  <2>1. pc[t] = "xredeem" /\ PathOf(t) = "exchange"
    BY <1>3 DEF RedeemForExchange, At, PathOf
  <2> QED BY <1>1, <1>3, <2>1 DEF RedeemForExchange, Goto, Path
<1> QED BY <1>2, <1>3 DEF Grants

LEMMA GrantsKeepToken ==
  ASSUME IInv, NEW t \in Threads, Grants(t)
  PROVE  OnlyIssued' /\ PrivateUntilSaved' /\ SpentRowIsReplaced' /\ NobodyKeepsOwnSpent'
<1> USE DEF IInv
<1> DEFINE n == token[t].refresh
           record == [by |-> t, path |-> PathOf(t)]
<1>1. /\ \A m \in Grant : m \in Nat \ {0}
      /\ issued \in Nat \ {0} /\ row.refresh \in Grant /\ row.access \in Grant /\ n \in Grant
      /\ \A u \in Threads : token[u].refresh \in Grant /\ token[u].access \in Grant
  BY Ranges
<1>2. /\ row' = row /\ mishap' = mishap /\ pc[t] \in {"redeem", "xredeem"}
      /\ pc'[t] = (IF PathOf(t) = "refresh" THEN "save" ELSE "xsave")
      /\ \A u \in Threads \ {t} : pc'[u] = pc[u]
  BY GrantsEffect DEF TypeOK
<1>3. /\ ~IsSpent(n) /\ issued' = issued + 1 /\ issued' \in Grant
      /\ \A u \in Threads \ {t} : token'[u] = token[u]
      /\ token'[t].access = issued + 1
      /\ \/ token'[t].refresh = n /\ spent' = spent
         \/ token'[t].refresh = issued + 1 /\ spent' = [spent EXCEPT ![n] = record]
  BY GrantsEffect, GrantEffect
<1>4. record.by = t /\ record.path = PathOf(t)
  OBVIOUS
<1> HIDE DEF n, record
<1>5. /\ \A m \in Grant \ {n} : spent'[m] = spent[m]
      /\ spent'[n] \in {spent[n], record}
      /\ spent'[n] # None => spent'[n] = record /\ token'[t].refresh = issued + 1
      /\ spent'[issued + 1] = None
  <2>1. issued + 1 # n /\ ~IsSpent(issued + 1)
    BY <1>1, <1>3 DEF OnlyIssued, n
  <2>2. spent \in [Grant -> {None} \cup [by : Threads, path : Path]]
    BY DEF TypeOK
  <2>3. issued + 1 \in Grant
    BY <1>3
  <2>4. CASE spent' = spent /\ token'[t].refresh = n
    <3>1. spent[n] = None
      BY <1>3 DEF IsSpent
    <3> QED BY <2>1, <2>3, <2>4, <3>1 DEF IsSpent
  <2>5. CASE spent' = [spent EXCEPT ![n] = record] /\ token'[t].refresh = issued + 1
    BY <1>1, <2>1, <2>2, <2>3, <2>5 DEF IsSpent
  <2> QED BY <1>3, <2>4, <2>5
<1>6. OnlyIssued'
  <2>1. \A u \in Threads : token'[u].refresh <= issued + 1 /\ token'[u].access <= issued + 1
    <3> TAKE u \in Threads
    <3>1. token[u].refresh \in Nat /\ token[u].access \in Nat /\ issued \in Nat
          /\ token[u].refresh <= issued /\ token[u].access <= issued
          /\ n \in Nat /\ n <= issued
      BY <1>1 DEF OnlyIssued, n
    <3> QED BY <1>3, <3>1
  <2>2. ASSUME NEW m \in Grant, m > issued + 1 PROVE spent'[m] = None
    <3>1. m \in Nat /\ issued \in Nat /\ n \in Nat /\ n <= issued
      BY <1>1 DEF OnlyIssued, n
    <3>2. m > issued /\ m # n
      BY <2>2, <3>1
    <3> QED BY <1>5, <3>2 DEF OnlyIssued, IsSpent
  <2>3. row.refresh <= issued + 1 /\ row.access <= issued + 1
    BY <1>1 DEF OnlyIssued
  <2> QED BY <1>2, <1>3, <2>1, <2>2, <2>3 DEF OnlyIssued, IsSpent
<1>7. PrivateUntilSaved'
  <2>0. First.refresh = 1
    BY DEF First
  <2> SUFFICES ASSUME NEW u \in Threads, Rotated(u)'
               PROVE  /\ token'[u].refresh # First.refresh /\ token'[u].refresh # row.refresh
                      /\ \A v \in Threads \ {u} : token'[u].refresh # token'[v].refresh
    BY <1>2 DEF PrivateUntilSaved, First
  <2>1. CASE u = t
    <3>1. token'[t].refresh = issued + 1
      BY <1>1, <1>3, <2>1 DEF Rotated, OnlyIssued, n
    <3> QED BY <1>1, <1>3, <2>0, <2>1, <3>1 DEF OnlyIssued
  <2>2. CASE u # t
    <3>1. Rotated(u) /\ token'[u] = token[u]
      BY <1>2, <1>3, <2>2 DEF Rotated
    <3> QED BY <1>1, <1>3, <2>2, <3>1 DEF PrivateUntilSaved, OnlyIssued, n
  <2> QED BY <2>1, <2>2
<1>8. SpentRowIsReplaced'
  <2> SUFFICES ASSUME spent'[row.refresh] # None, ~mishap PROVE Saving(row.refresh)'
    BY <1>2 DEF SpentRowIsReplaced, IsSpent
  <2>1. CASE row.refresh = n
    <3>1. spent'[row.refresh] = record /\ token'[t].refresh = issued + 1
      BY <1>3, <1>5, <2>1 DEF IsSpent
    <3>2. spent'[row'.refresh].by = t /\ spent'[row'.refresh].path = PathOf(t)
      BY <1>2, <1>4, <3>1
    <3>3. spent'[token'[t].refresh] = None /\ token'[t].refresh = token'[t].access
      BY <1>3, <1>5, <3>1
    <3> QED BY <1>2, <3>2, <3>3 DEF Saving, IsSpent
  <2>2. CASE row.refresh # n
    <3>1. spent'[row.refresh] = spent[row.refresh] /\ IsSpent(row.refresh)
      BY <1>1, <1>5, <2>2 DEF IsSpent
    <3> DEFINE b == spent[row.refresh].by
    <3>2. Saving(row.refresh) /\ b \in Threads
      BY <1>1, <3>1 DEF SpentRowIsReplaced, TypeOK, IsSpent
    <3>3. b # t /\ Rotated(b) /\ token[b].refresh # n
      BY <1>2, <3>2 DEF Saving, Rotated, PrivateUntilSaved, n
    <3>4. token'[b] = token[b] /\ pc'[b] = pc[b] /\ spent'[token[b].refresh] = None
      BY <1>1, <1>2, <1>3, <1>5, <3>2, <3>3 DEF Saving, IsSpent
    <3> QED BY <1>2, <3>1, <3>2, <3>4 DEF Saving, IsSpent
  <2> QED BY <2>1, <2>2
<1>9. NobodyKeepsOwnSpent'
  <2> SUFFICES ASSUME ~mishap, NEW u \in Threads, pc'[u] # "idle", spent'[token'[u].refresh] # None
               PROVE  spent'[token'[u].refresh].by # u
    BY <1>2 DEF NobodyKeepsOwnSpent, IsSpent
  <2>1. CASE u = t
    <3>1. spent'[token'[t].refresh] = None
      BY <1>3, <1>5 DEF IsSpent
    <3> QED BY <2>1, <3>1
  <2>2. CASE u # t
    <3>1. token'[u] = token[u] /\ pc[u] # "idle" /\ token[u].refresh \in Grant
      BY <1>1, <1>2, <1>3, <2>2
    <3>2. CASE token[u].refresh = n /\ spent'[n] = record
      BY <1>4, <2>2, <3>1, <3>2
    <3>3. CASE spent'[token[u].refresh] = spent[token[u].refresh]
      BY <3>1, <3>3 DEF NobodyKeepsOwnSpent, IsSpent
    <3> QED BY <1>5, <3>1, <3>2, <3>3
  <2> QED BY <2>1, <2>2
<1> QED BY <1>6, <1>7, <1>8, <1>9

LEMMA SignInIInv == ASSUME IInv, SignIn PROVE IInv'
<1> USE DEF IInv
<1>1. /\ \A m \in Grant : m \in Nat \ {0}
      /\ issued \in Nat \ {0} /\ issued + 1 \in Grant
      /\ \A u \in Threads : token[u].refresh \in Grant /\ token[u].access \in Grant
  BY MaxGrantsAssumption DEF SignIn, TypeOK, Token, Grant
<1>2. /\ issued' = issued + 1 /\ row'.refresh = issued + 1 /\ row'.access = issued + 1
      /\ row' \in Token
      /\ spent' = spent /\ refreshLock' = refreshLock /\ exchangeLock' = exchangeLock
      /\ pc' = pc /\ token' = token /\ original' = original /\ mishap' = mishap
  BY <1>1 DEF SignIn, locks, Token
<1>3. TypeOK'
  BY <1>1, <1>2 DEF TypeOK, LocksHeld
<1>4. ~IsSpent(issued + 1)
  BY <1>1 DEF OnlyIssued
<1>5. OnlyIssued'
  <2>1. \A u \in Threads : token[u].refresh <= issued + 1 /\ token[u].access <= issued + 1
    <3> TAKE u \in Threads
    <3>1. token[u].refresh \in Nat /\ token[u].access \in Nat /\ issued \in Nat
          /\ token[u].refresh <= issued /\ token[u].access <= issued
      BY <1>1 DEF OnlyIssued
    <3> QED BY <3>1
  <2>2. ASSUME NEW m \in Grant, m > issued + 1 PROVE spent[m] = None
    <3>1. m > issued
      BY <1>1, <2>2
    <3> QED BY <3>1 DEF OnlyIssued, IsSpent
  <2> QED BY <1>1, <1>2, <2>1, <2>2 DEF OnlyIssued, IsSpent
<1>6. PrivateUntilSaved'
  BY <1>1, <1>2 DEF PrivateUntilSaved, Rotated, OnlyIssued
<1>7. SpentRowIsReplaced'
  BY <1>2, <1>4 DEF SpentRowIsReplaced, IsSpent
<1>8. NobodyKeepsOwnSpent' /\ OriginalKept' /\ QueuedRefreshSeesNewToken'
  BY <1>2 DEF NobodyKeepsOwnSpent, OriginalKept, QueuedRefreshSeesNewToken, IsSpent, At
<1> QED BY <1>3, <1>5, <1>6, <1>7, <1>8

-----------------------------------------------------------------------------
(* Inside the refresh *)

\* A spent token stays spent, with the same redeemer.
LEMMA SpentForEver ==
  ASSUME IInv, NEW t \in Threads, Work(t), NEW n \in Grant, IsSpent(n)
  PROVE  spent'[n] = spent[n]
<1> USE DEF IInv
<1>1. CASE Grants(t)
  <2>1. /\ token[t].refresh \in Grant /\ ~IsSpent(token[t].refresh)
        /\ \/ spent' = spent
           \/ spent' = [spent EXCEPT ![token[t].refresh] = [by |-> t, path |-> PathOf(t)]]
    BY <1>1, GrantsEffect, GrantEffect DEF TypeOK, Token
  <2>2. n # token[t].refresh
    BY <2>1
  <2> QED BY <2>1, <2>2 DEF TypeOK
<1>2. CASE ~Grants(t)
  BY <1>2, QuietEffect, WriteEffect
  DEF Work, Grants, Quiet, Writes, RedeemLost, RedeemForExchangeLost, SaveFails, AnswerLost,
      IsSpent, TypeOK, server
<1> QED BY <1>1, <1>2

LEMMA OriginalKeptStep ==
  ASSUME IInv, NEW t \in Threads, Work(t) PROVE OriginalKept'
<1> USE DEF IInv
<1>1. \A u \in Threads : token[u].refresh \in Grant /\ original[u].refresh \in Grant
  BY DEF TypeOK, Token
<1>2. \A u \in Threads \ {t} :
         pc'[u] = pc[u] /\ token'[u] = token[u] /\ original'[u] = original[u]
  <2>1. CASE Grants(t)
    <3>1. /\ original' = original /\ PathOf(t) \in Path
          /\ pc' = [pc EXCEPT ![t] = IF PathOf(t) = "refresh" THEN "save" ELSE "xsave"]
      BY <2>1, GrantsEffect
    <3>2. PICK keys \in SUBSET BOOLEAN : Granted(t, PathOf(t), keys)
      BY <2>1, GrantsEffect
    <3>3. \A u \in Threads \ {t} : token'[u] = token[u]
      BY <3>1, <3>2, GrantEffect
    <3>4. \A u \in Threads \ {t} : pc'[u] = pc[u]
      BY <3>1 DEF TypeOK
    <3> QED BY <3>1, <3>3, <3>4
  <2> USE DEF TypeOK, Goto, locks, server
  <2>2. CASE Quiet(t)
    BY <2>2, QuietEffect
    DEF Quiet, LoadToken, DropToken, Reread, Recover, LockRefresh, RedeemRefused, RefreshFails,
        GiveUp, UseRefreshed, LockExchange, FindCached, ExchangeKey, ExchangeFails, FallBack
  <2>3. CASE Writes(t)
    BY <2>3, WriteEffect DEF Writes, Save, ClearKey, PersistKey, SaveForExchange
  <2>4. CASE Loses(t)
    BY <2>4, LossEffect
  <2> QED BY <2>1, <2>2, <2>3, <2>4 DEF Work, Quiet, Writes, Loses, Grants
<1>3. \A u \in Threads \ {t} :
         /\ pc'[u] \in {"reread", "redeem", "recover"} => token'[u].refresh = original'[u].refresh
         /\ pc'[u] = "recover" /\ ~mishap => IsSpent(original[u].refresh)'
  BY <1>1, <1>2, SpentForEver DEF OriginalKept, IsSpent
<1>4. /\ pc'[t] \in {"reread", "redeem", "recover"} => token'[t].refresh = original'[t].refresh
      /\ pc'[t] = "recover" /\ ~mishap' => IsSpent(original[t].refresh)'
  <2> USE DEF TypeOK, Goto, At, IsSpent
  <2>1. CASE LockRefresh(t)
    BY <2>1 DEF LockRefresh
  <2>2. CASE Reread(t)
    <3>1. WithKey(token[t], row.key).refresh = token[t].refresh
      BY DEF WithKey
    <3> QED BY <2>2, <3>1 DEF Reread, OriginalKept
  <2>3. CASE RedeemRefused(t)
    BY <2>3 DEF RedeemRefused, OriginalKept, server
  <2>4. CASE RedeemLost(t)
    BY <2>4 DEF RedeemLost, OriginalKept, AnswerLost
  <2>5. ASSUME pc'[t] \in {"reread", "redeem", "recover"}
        PROVE  LockRefresh(t) \/ Reread(t) \/ RedeemRefused(t) \/ RedeemLost(t)
    <3>1. CASE Grants(t)
      BY <2>5, <3>1, GrantsEffect
    <3>2. CASE Writes(t)
      BY <2>5, <3>2, WriteEffect DEF InRefresh
    <3>3. CASE SaveFails(t) \/ RedeemForExchangeLost(t)
      BY <2>5, <3>3 DEF SaveFails, RedeemForExchangeLost, LeaveExchange
    <3>4. CASE LoadToken(t) \/ DropToken(t) \/ Recover(t) \/ RefreshFails(t) \/ GiveUp(t) \/ UseRefreshed(t)
      BY <2>5, <3>4 DEF LoadToken, DropToken, Recover, RefreshFails, GiveUp, UseRefreshed
    <3>5. CASE LockExchange(t) \/ FindCached(t) \/ ExchangeKey(t) \/ ExchangeFails(t) \/ FallBack(t)
      BY <2>5, <3>5 DEF LockExchange, FindCached, ExchangeKey, ExchangeFails, FallBack, LeaveExchange
    <3> QED BY <3>1, <3>2, <3>3, <3>4, <3>5 DEF Work, Grants, Writes
  <2> QED BY <2>1, <2>2, <2>3, <2>4, <2>5
<1>5. mishap => mishap'
  BY QuietEffect, WriteEffect, LossEffect, GrantsEffect DEF Work, Quiet, Writes, Loses, Grants
<1> QED BY <1>3, <1>4, <1>5 DEF OriginalKept

\* While one thread is inside the refresh, only the exchange can spend its token.
LEMMA QueuedStep ==
  ASSUME IInv, TypeOK', NEW t \in Threads, Work(t) PROVE QueuedRefreshSeesNewToken'
<1> USE DEF IInv
<1> SUFFICES ASSUME NEW u \in Threads, pc'[u] = "redeem", spent'[token'[u].refresh] # None,
                    ~mishap'
             PROVE  spent'[token'[u].refresh].path = "exchange"
  BY DEF QueuedRefreshSeesNewToken, IsSpent, At
<1>1. ~mishap /\ \A v \in Threads : token[v].refresh \in Grant
  BY QuietEffect, WriteEffect, LossEffect, GrantsEffect
  DEF Work, Quiet, Writes, Loses, Grants, TypeOK, Token
<1>2. CASE u = t
  <2>1. Reread(t) /\ ~Changed(t)
    <3>1. CASE Quiet(t)
      BY <1>2, <3>1
      DEF Quiet, LoadToken, DropToken, Reread, Recover, LockRefresh, RedeemRefused, RefreshFails,
          GiveUp, UseRefreshed, LockExchange, FindCached, ExchangeKey, ExchangeFails, FallBack,
          LeaveExchange, Goto, TypeOK
    <3>2. CASE ~Quiet(t)
      BY <1>2, <3>2, WriteEffect, LossEffect, GrantsEffect
      DEF Work, Quiet, Writes, Loses, Grants, InRefresh, TypeOK
    <3> QED BY <3>1, <3>2
  <2>2. /\ WithKey(token[t], row.key).refresh = token[t].refresh
        /\ token[t].refresh = original[t].refresh /\ row.refresh = original[t].refresh
    BY <2>1 DEF Reread, Changed, OriginalKept, At, WithKey
  <2>3. token'[t].refresh = row.refresh /\ spent' = spent /\ pc[t] = "reread"
    BY <2>1, <2>2 DEF Reread, At, server, TypeOK
  <2> DEFINE b == spent[row.refresh].by
  <2>4. Saving(row.refresh) /\ b \in Threads /\ spent[row.refresh].path \in Path
    BY <1>1, <1>2, <2>3 DEF SpentRowIsReplaced, IsSpent, TypeOK, Token
  <2>5. pc[b] # "save"
    BY <2>3, <2>4 DEF TypeOK, LocksHeld, InRefresh
  <2> QED BY <1>2, <2>3, <2>4, <2>5 DEF Saving, Path
<1>3. CASE u # t
  <2>1. pc[u] = "redeem" /\ token'[u].refresh = token[u].refresh
    <3>1. CASE Quiet(t) BY <1>3, <3>1, QuietEffect
    <3>2. CASE Writes(t) BY <1>3, <3>2, WriteEffect DEF SamePair
    <3>3. CASE Loses(t) BY <1>3, <3>3, LossEffect
    <3>4. CASE Grants(t)
      <4>1. \A v \in Threads \ {t} : token'[v] = token[v]
        BY <3>4, GrantsEffect, GrantEffect
      <4>2. pc'[u] = pc[u]
        BY <1>3, <3>4, GrantsEffect DEF TypeOK
      <4> QED BY <1>3, <4>1, <4>2
    <3> QED BY <3>1, <3>2, <3>3, <3>4 DEF Work, Quiet, Writes, Loses, Grants
  <2>2. CASE IsSpent(token[u].refresh)
    BY <1>1, <2>1, <2>2, SpentForEver DEF QueuedRefreshSeesNewToken, At
  <2>3. CASE ~IsSpent(token[u].refresh)
    <3>1. Grants(t)
      BY <1>3, <2>1, <2>3, QuietEffect, WriteEffect, LossEffect
      DEF Work, Quiet, Writes, Loses, Grants, IsSpent
    <3>2. PathOf(t) = "exchange"
      BY <1>3, <2>1 DEF PathOf, At, TypeOK, LocksHeld, InRefresh
    <3>3. /\ token[t].refresh \in Grant
          /\ \/ spent' = spent
             \/ spent' = [spent EXCEPT ![token[t].refresh] = [by |-> t, path |-> PathOf(t)]]
      BY <1>1, <3>1, GrantsEffect, GrantEffect
    <3>4. spent \in [Grant -> {None} \cup [by : Threads, path : Path]]
      BY DEF TypeOK
    <3> QED BY <1>1, <2>1, <2>3, <3>2, <3>3, <3>4 DEF IsSpent
  <2> QED BY <2>2, <2>3
<1> QED BY <1>2, <1>3

-----------------------------------------------------------------------------
LEMMA NextIInv == IInv /\ [Next]_vars => IInv'
<1> SUFFICES ASSUME IInv, [Next]_vars PROVE IInv'
  OBVIOUS
<1>1. CASE UNCHANGED vars
  BY <1>1 DEF vars, IInv, TypeOK, LocksHeld, OnlyIssued, PrivateUntilSaved, Rotated,
     SpentRowIsReplaced, Saving, NobodyKeepsOwnSpent, OriginalKept, QueuedRefreshSeesNewToken,
     IsSpent, At
<1>2. CASE SignIn
  BY <1>2, SignInIInv
<1>3. ASSUME NEW t \in Threads, Work(t) PROVE IInv'
  <2>1. TypeOK'
    BY <1>3, TypeOKStep DEF IInv
  <2>2. OnlyIssued' /\ PrivateUntilSaved' /\ SpentRowIsReplaced' /\ NobodyKeepsOwnSpent'
    BY <1>3, QuietKeepsToken, WritesKeepToken, LossesKeepToken, GrantsKeepToken
    DEF Work, Quiet, Writes, Loses, Grants
  <2>3. OriginalKept' /\ QueuedRefreshSeesNewToken'
    BY <1>3, <2>1, OriginalKeptStep, QueuedStep
  <2> QED BY <2>1, <2>2, <2>3 DEF IInv
<1> QED BY <1>1, <1>2, <1>3 DEF Next, Work

THEOREM Invariance == Spec => []IInv
  BY InitIInv, NextIInv, PTL DEF Spec

\* The tokens, the locks and the threads keep their types; whoever holds a lock is
\* inside, for any number of threads.
THEOREM TokenTypeCorrect == Spec => []TypeOK
<1>1. IInv => TypeOK
  BY DEF IInv
<1> QED BY <1>1, Invariance, PTL

\* A spent refresh token stands in the row only as long as its redeemer has the next
\* one to save, unless something has gone wrong before.
THEOREM RowRedeemable == Spec => []RowStaysRedeemable
<1>1. IInv => RowStaysRedeemable
  BY DEF IInv, SpentRowIsReplaced, Saving, RowStaysRedeemable
<1> QED BY <1>1, Invariance, PTL

\* The refresh redeems a token once, whoever queues for it.
THEOREM NoDoubleRefresh == Spec => []QueuedRefreshSeesNewToken
<1>1. IInv => QueuedRefreshSeesNewToken
  BY DEF IInv
<1> QED BY <1>1, Invariance, PTL

\* An account is given up in a race only while an exchange has yet to save its token.
THEOREM NoGivingUpInARace == Spec => RaceIsNoReasonToGiveUp
<1>1. IInv /\ [Next]_vars =>
        [\A t \in Threads : GiveUp(t) /\ ~mishap => \E u \in Threads : At(u, "xsave")]_vars
  <2> SUFFICES ASSUME IInv, NEW t \in Threads, GiveUp(t), ~mishap
               PROVE  \E u \in Threads : At(u, "xsave")
    OBVIOUS
  <2> USE DEF IInv
  <2>1. pc[t] = "recover" /\ row.refresh = original[t].refresh
    BY DEF GiveUp, At, Replaced
  <2>2. IsSpent(row.refresh) /\ row.refresh \in Grant
    BY <2>1 DEF OriginalKept, TypeOK, Token
  <2> DEFINE b == spent[row.refresh].by
  <2>3. Saving(row.refresh) /\ b \in Threads
    BY <2>2 DEF SpentRowIsReplaced, TypeOK, IsSpent
  <2>4. pc[b] # "save"
    BY <2>1, <2>3 DEF TypeOK, LocksHeld, InRefresh
  <2> QED BY <2>3, <2>4 DEF Saving, At
<1> QED BY <1>1, Invariance, PTL DEF Spec, RaceIsNoReasonToGiveUp

=============================================================================
