----------------------- MODULE CandidateExecutor_proofs -----------------------
(***************************************************************************)
(* What one request may do to the others, and what its client gets, for    *)
(* any accounts, requests, limits and candidate lists.                     *)
(*                                                                         *)
(* The proof is about one request at a time: RInv(r) speaks of r's own     *)
(* variables only, so a step of another request keeps it (Frame).  The     *)
(* counters are the one thing requests share that the invariant counts,    *)
(* and CountsClaim and CountsRelease follow them through the two steps     *)
(* that change them.                                                       *)
(***************************************************************************)
EXTENDS CandidateExecutor, FiniteSetTheorems, TLAPS

Attempting == {"attempt", "sent", "retry", "resent"}
Occupying == Attempting \cup {"deliver"}
Placed == Occupying \cup {"slots", "claim", "followup"}

\* What is always true of one request.
RInv(r) ==
    /\ pc[r] \in Placed => idx[r] <= Len(order[r])
    /\ pc[r] = "idle" => idx[r] = 1 /\ handle[r]
    /\ guard[r] = IF pc[r] \in Occupying THEN Candidate(r) ELSE NoAccount
    /\ pc[r] \in Attempting => handle[r]
    /\ pc[r] \in {"deliver", "followup"} => ~handle[r]
    /\ answers[r] \in {0, 1}
    /\ handle[r] \/ pc[r] = "deliver" => answers[r] = 0
    /\ pc[r] = "followup" /\ answers[r] = 0 =>
          bridge[r].kind = "Deactivation" /\ HasMore(r)
    /\ result[r] # "running" => pc[r] = "done"
    /\ result[r] \in {"handled", "exhausted"} => answers[r] = 1
    /\ pc[r] = "candidate" /\ idx[r] > Len(order[r]) => profile[r].anthropic
    /\ result[r] = "exhausted" => profile[r].anthropic

IInv == TypeOK /\ InflightCountsGuards /\ \A r \in Requests : RInv(r)

\* The variables of request s, which a step of another request leaves alone.
Same(s) ==
    /\ pc'[s] = pc[s] /\ profile'[s] = profile[s] /\ order'[s] = order[s]
    /\ idx'[s] = idx[s] /\ handle'[s] = handle[s] /\ guard'[s] = guard[s]
    /\ bridge'[s] = bridge[s] /\ answers'[s] = answers[s] /\ result'[s] = result[s]

LEMMA Frame ==
  ASSUME NEW s \in Requests, RInv(s), Same(s) PROVE RInv(s)'
  BY DEF RInv, Same, Candidate, HasMore

\* A step that keeps the types, the counters, r's own part and everybody else.
LEMMA OneMoves ==
  ASSUME IInv, NEW r \in Requests, TypeOK', InflightCountsGuards', RInv(r)',
         \A s \in Requests \ {r} : Same(s)
  PROVE  IInv'
  BY Frame DEF IInv

\* The current candidate is an account.
LEMMA CandidateType ==
  ASSUME TypeOK, NEW r \in Requests, idx[r] <= Len(order[r])
  PROVE  Candidate(r) \in Accounts
  BY DEF TypeOK, Candidate

-----------------------------------------------------------------------------
(* The counters *)

Holders(a) == {r \in Requests : guard[r] = a}

LEMMA HoldersFinite ==
  \A a : IsFiniteSet(Holders(a)) /\ Cardinality(Holders(a)) \in Nat
  BY AccountsFinite, FS_Subset, FS_CardinalityType DEF Holders

\* Acquiring a guard adds one holder and one to the counter.
LEMMA CountsClaim ==
  ASSUME TypeOK, InflightCountsGuards, NEW r \in Requests, NEW b \in Accounts,
         guard[r] = NoAccount, guard' = [guard EXCEPT ![r] = b],
         inflight' = [inflight EXCEPT ![b] = @ + 1]
  PROVE  InflightCountsGuards' /\ inflight' \in [Accounts -> Nat]
<1>0. /\ inflight \in [Accounts -> Nat]
      /\ \A a \in Accounts : inflight[a] = Cardinality(Holders(a))
  BY DEF TypeOK, InflightCountsGuards, Holders
<1>1. inflight' \in [Accounts -> Nat]
  BY <1>0
<1>2. ASSUME NEW a \in Accounts PROVE inflight'[a] = Cardinality(Holders(a)')
  <2>1. CASE a = b
    <3>1. Holders(a)' = Holders(a) \cup {r} /\ r \notin Holders(a)
      BY <2>1, NoAccountAssumption DEF Holders, TypeOK
    <3>2. Cardinality(Holders(a) \cup {r}) = Cardinality(Holders(a)) + 1
      BY <3>1, HoldersFinite, FS_AddElement
    <3> QED BY <1>0, <2>1, <3>1, <3>2
  <2>2. CASE a # b
    <3>1. Holders(a)' = Holders(a)
      BY <2>2, NoAccountAssumption DEF Holders, TypeOK
    <3> QED BY <1>0, <2>2, <3>1
  <2> QED BY <2>1, <2>2
<1> QED BY <1>1, <1>2 DEF InflightCountsGuards, Holders

\* Dropping a guard takes one holder and one from the counter, which is not 0.
LEMMA CountsRelease ==
  ASSUME TypeOK, InflightCountsGuards, NEW r \in Requests, guard[r] \in Accounts,
         ReleaseGuard(r)
  PROVE  /\ InflightCountsGuards' /\ inflight' \in [Accounts -> Nat]
         /\ guard' \in [Requests -> Accounts \cup {NoAccount}]
         /\ guard'[r] = NoAccount /\ \A s \in Requests \ {r} : guard'[s] = guard[s]
<1> DEFINE b == guard[r]
<1>0. /\ inflight \in [Accounts -> Nat]
      /\ \A a \in Accounts : inflight[a] = Cardinality(Holders(a))
  BY DEF TypeOK, InflightCountsGuards, Holders
<1>1. /\ guard' = [guard EXCEPT ![r] = NoAccount]
      /\ inflight' = [inflight EXCEPT ![b] = @ - 1]
  BY DEF ReleaseGuard
<1>2. r \in Holders(b) /\ inflight[b] = Cardinality(Holders(b)) /\ inflight[b] \in Nat
  BY DEF Holders, InflightCountsGuards, TypeOK
<1>3. inflight[b] # 0
  BY <1>2, HoldersFinite, FS_EmptySet
<1>4. inflight' \in [Accounts -> Nat]
  BY <1>1, <1>2, <1>3 DEF TypeOK
<1>5. ASSUME NEW a \in Accounts PROVE inflight'[a] = Cardinality(Holders(a)')
  <2>1. CASE a = b
    <3>1. Holders(a)' = Holders(a) \ {r}
      BY <2>1, <1>1, NoAccountAssumption DEF Holders, TypeOK
    <3>2. Cardinality(Holders(a) \ {r}) = Cardinality(Holders(a)) - 1
      BY <2>1, <1>2, HoldersFinite, FS_RemoveElement
    <3> QED BY <1>0, <1>1, <2>1, <3>1, <3>2
  <2>2. CASE a # b
    <3>1. Holders(a)' = Holders(a)
      BY <2>2, <1>1, NoAccountAssumption DEF Holders, TypeOK
    <3> QED BY <1>0, <1>1, <2>2, <3>1
  <2> QED BY <2>1, <2>2
<1> QED BY <1>1, <1>4, <1>5 DEF InflightCountsGuards, Holders, TypeOK

-----------------------------------------------------------------------------
(* The building blocks of the actions *)

LEMMA NextCandidateFacts ==
  ASSUME TypeOK, NEW r \in Requests, NextCandidate(r)
  PROVE  /\ idx' \in [Requests -> Nat \ {0}] /\ pc' \in [Requests -> Label]
         /\ idx'[r] = idx[r] + 1 /\ pc'[r] = "candidate"
         /\ \A s \in Requests \ {r} : idx'[s] = idx[s] /\ pc'[s] = pc[s]
<1>1. idx' = [idx EXCEPT ![r] = idx[r] + 1] /\ pc' = [pc EXCEPT ![r] = "candidate"]
  BY DEF NextCandidate, Goto
<1>2. idx \in [Requests -> Nat \ {0}] /\ pc \in [Requests -> Label]
  BY DEF TypeOK
<1>3. idx[r] + 1 \in Nat \ {0} /\ "candidate" \in Label
  BY <1>2 DEF Label
<1> QED BY <1>1, <1>2, <1>3

LEMMA FinishFacts ==
  ASSUME TypeOK, NEW r \in Requests, NEW how \in Ending, Finish(r, how)
  PROVE  /\ pc' \in [Requests -> Label] /\ pc'[r] = "done"
         /\ result' \in [Requests -> Ending] /\ result'[r] = how
         /\ \A s \in Requests \ {r} : pc'[s] = pc[s] /\ result'[s] = result[s]
  BY DEF Finish, Goto, TypeOK, Label

LEMMA RespondFacts ==
  ASSUME TypeOK, NEW r \in Requests, Respond(r)
  PROVE  /\ answers' \in [Requests -> Nat] /\ answers'[r] = answers[r] + 1
         /\ handle' \in [Requests -> BOOLEAN] /\ ~handle'[r]
         /\ \A s \in Requests \ {r} : answers'[s] = answers[s] /\ handle'[s] = handle[s]
<1>1. answers \in [Requests -> Nat] /\ handle \in [Requests -> BOOLEAN]
  BY DEF TypeOK
<1> QED BY <1>1 DEF Respond

\* With the handle the request is answered, without it the thread panics.
LEMMA RespondOrPanicFacts ==
  ASSUME TypeOK, NEW r \in Requests, NEW how \in Ending, RespondOrPanic(r, how)
  PROVE  /\ pc' \in [Requests -> Label] /\ pc'[r] = "done"
         /\ answers' \in [Requests -> Nat] /\ handle' \in [Requests -> BOOLEAN]
         /\ result' \in [Requests -> Ending] /\ ~handle'[r]
         /\ \/ handle[r] /\ answers'[r] = answers[r] + 1 /\ result'[r] = how
            \/ ~handle[r] /\ answers'[r] = answers[r] /\ result'[r] = "panic"
         /\ \A s \in Requests \ {r} :
               /\ pc'[s] = pc[s] /\ result'[s] = result[s]
               /\ answers'[s] = answers[s] /\ handle'[s] = handle[s]
<1>1. CASE handle[r]
  BY <1>1, RespondFacts, FinishFacts DEF RespondOrPanic
<1>2. CASE ~handle[r]
  <2>1. Finish(r, "panic") /\ answers' = answers /\ handle' = handle
    BY <1>2 DEF RespondOrPanic
  <2>2. "panic" \in Ending
    BY DEF Ending
  <2>3. /\ pc' \in [Requests -> Label] /\ pc'[r] = "done"
        /\ result' \in [Requests -> Ending] /\ result'[r] = "panic"
        /\ \A s \in Requests \ {r} : pc'[s] = pc[s] /\ result'[s] = result[s]
    BY <2>1, <2>2, FinishFacts
  <2> QED BY <1>2, <2>1, <2>3 DEF TypeOK
<1> QED BY <1>1, <1>2

\* Everything the steps that drop a guard need to know of it.
LEMMA ReleaseFacts ==
  ASSUME IInv, NEW r \in Requests, pc[r] \in Occupying, ReleaseGuard(r)
  PROVE  /\ Candidate(r) \in Accounts
         /\ InflightCountsGuards' /\ inflight' \in [Accounts -> Nat]
         /\ guard' \in [Requests -> Accounts \cup {NoAccount}]
         /\ guard'[r] = NoAccount /\ \A s \in Requests \ {r} : guard'[s] = guard[s]
<1>1. Candidate(r) \in Accounts /\ guard[r] = Candidate(r)
  BY CandidateType DEF IInv, RInv, Placed
<1> QED BY <1>1, CountsRelease DEF IInv

-----------------------------------------------------------------------------
(* One lemma per action *)

\* Candidate lists are non-empty sequences of accounts.
LEMMA OrderType ==
  ASSUME NEW s \in CandidateOrders PROVE s \in Seq(Accounts) /\ Len(s) > 0
<1>1. Cardinality(Accounts) \in Nat
  BY AccountsFinite, FS_CardinalityType
<1>2. PICK n \in 1..Cardinality(Accounts) : s \in [1..n -> Accounts]
  BY DEF CandidateOrders
<1> QED BY <1>1, <1>2

LEMMA NoCandidatesKeeps ==
  ASSUME IInv, NEW r \in Requests, NoCandidates(r) PROVE IInv'
<1> USE DEF IInv, shared, plan
<1>0. guard[r] = NoAccount /\ guard' = guard
  BY DEF NoCandidates, At, InLoop, RInv, Occupying, Attempting
<1>1. /\ pc' \in [Requests -> Label] /\ pc'[r] = "done"
      /\ result' \in [Requests -> Ending] /\ result'[r] = "handled"
      /\ \A s \in Requests \ {r} : pc'[s] = pc[s] /\ result'[s] = result[s]
  BY FinishFacts DEF NoCandidates, Ending
<1>2. /\ answers' \in [Requests -> Nat] /\ answers'[r] = answers[r] + 1
      /\ handle' \in [Requests -> BOOLEAN] /\ ~handle'[r]
      /\ \A s \in Requests \ {r} : answers'[s] = answers[s] /\ handle'[s] = handle[s]
  BY RespondFacts DEF NoCandidates
<1>3. TypeOK'
  BY <1>1, <1>2 DEF NoCandidates, TypeOK, CoolingTypeOK
<1>4. InflightCountsGuards'
  BY DEF NoCandidates, InflightCountsGuards
<1>5. RInv(r)'
  BY <1>0, <1>1, <1>2 DEF NoCandidates, At, TypeOK, RInv, Placed, Occupying, Attempting
<1>6. \A s \in Requests \ {r} : Same(s)
  BY <1>1, <1>2 DEF NoCandidates, Same
<1> QED BY <1>3, <1>4, <1>5, <1>6, OneMoves

LEMMA StartKeeps ==
  ASSUME IInv, NEW r \in Requests, Start(r) PROVE IInv'
<1> USE DEF IInv, shared, plan
<1>0. guard[r] = NoAccount /\ guard' = guard
  BY DEF Start, At, InLoop, RInv, Occupying, Attempting
<1>1. PICK s \in CandidateOrders : order' = [order EXCEPT ![r] = s]
  BY DEF Start
<1>2. s \in Seq(Accounts) /\ Len(s) > 0
  BY OrderType
<1>3. /\ order' \in [Requests -> Seq(Accounts)] /\ order'[r] = s
      /\ \A q \in Requests \ {r} : order'[q] = order[q]
  <2>1. order \in [Requests -> Seq(Accounts)]
    BY DEF TypeOK
  <2> QED BY <1>1, <1>2, <2>1
<1>4. TypeOK'
  BY <1>3 DEF Start, Goto, TypeOK, CoolingTypeOK, Label
<1>5. InflightCountsGuards'
  BY DEF Start, InflightCountsGuards
<1>6. RInv(r)'
  BY <1>0, <1>2, <1>3 DEF Start, Goto, At, TypeOK, RInv, Placed, Occupying, Attempting
<1>7. \A q \in Requests \ {r} : Same(q)
  BY <1>3 DEF Start, Goto, TypeOK, Same
<1> QED BY <1>4, <1>5, <1>6, <1>7, OneMoves

LEMMA TotalTimeoutKeeps ==
  ASSUME IInv, NEW r \in Requests, TotalTimeout(r) PROVE IInv'
<1> USE DEF IInv, shared, plan
<1>0. guard[r] = NoAccount /\ guard' = guard
  BY DEF TotalTimeout, At, InLoop, RInv, Occupying, Attempting
<1>1. /\ pc' \in [Requests -> Label] /\ pc'[r] = "done"
      /\ answers' \in [Requests -> Nat] /\ handle' \in [Requests -> BOOLEAN]
      /\ result' \in [Requests -> Ending] /\ ~handle'[r]
      /\ \/ handle[r] /\ answers'[r] = answers[r] + 1 /\ result'[r] = "handled"
         \/ ~handle[r] /\ answers'[r] = answers[r] /\ result'[r] = "panic"
      /\ \A s \in Requests \ {r} :
            /\ pc'[s] = pc[s] /\ result'[s] = result[s]
            /\ answers'[s] = answers[s] /\ handle'[s] = handle[s]
  BY RespondOrPanicFacts DEF TotalTimeout, Ending
<1>2. TypeOK'
  BY <1>1 DEF TotalTimeout, TypeOK, CoolingTypeOK, Label
<1>3. InflightCountsGuards'
  BY DEF TotalTimeout, InflightCountsGuards
<1>4. RInv(r)'
  BY <1>0, <1>1 DEF TotalTimeout, At, TypeOK, RInv, Placed, Occupying, Attempting,
     Candidate, HasMore, InLoop
<1>5. \A s \in Requests \ {r} : Same(s)
  BY <1>1 DEF TotalTimeout, TypeOK, Same
<1> QED BY <1>3, <1>2, <1>4, <1>5, OneMoves

\* Skipping goes on to a further candidate, except for Anthropic requests.
LEMMA CheckCooldownKeeps ==
  ASSUME IInv, NEW r \in Requests, CheckCooldown(r) PROVE IInv'
<1> USE DEF IInv, shared, plan
<1>1. InflightCountsGuards'
  BY DEF CheckCooldown, InflightCountsGuards
<1>2. CASE SkippedForCooldown(r)
  <2>1. /\ idx' \in [Requests -> Nat \ {0}] /\ pc' \in [Requests -> Label]
        /\ idx'[r] = idx[r] + 1 /\ pc'[r] = "candidate"
        /\ \A s \in Requests \ {r} : idx'[s] = idx[s] /\ pc'[s] = pc[s]
    BY <1>2, NextCandidateFacts DEF CheckCooldown
  <2>2. HasMore(r) \/ profile[r].anthropic
    BY <1>2 DEF SkippedForCooldown
  <2>3. TypeOK'
    BY <2>1 DEF CheckCooldown, TypeOK, CoolingTypeOK
  <2>4. RInv(r)'
    BY <2>1, <2>2 DEF CheckCooldown, InLoop, At, TypeOK, RInv, Placed, Occupying,
       Attempting, HasMore
  <2>5. \A s \in Requests \ {r} : Same(s)
    BY <2>1 DEF CheckCooldown, Same
  <2> QED BY <1>1, <2>3, <2>4, <2>5, OneMoves
<1>3. CASE ~SkippedForCooldown(r)
  <2>1. TypeOK'
    BY <1>3 DEF CheckCooldown, Goto, TypeOK, CoolingTypeOK, Label
  <2>2. RInv(r)'
    BY <1>3 DEF CheckCooldown, Goto, InLoop, At, TypeOK, RInv, Placed, Occupying,
       Attempting, HasMore
  <2>3. \A s \in Requests \ {r} : Same(s)
    BY <1>3 DEF CheckCooldown, Goto, TypeOK, Same
  <2> QED BY <1>1, <2>1, <2>2, <2>3, OneMoves
<1> QED BY <1>2, <1>3

LEMMA CheckInflightKeeps ==
  ASSUME IInv, NEW r \in Requests, CheckInflight(r) PROVE IInv'
<1> USE DEF IInv, shared, plan
<1>1. InflightCountsGuards'
  BY DEF CheckInflight, InflightCountsGuards
<1>2. CASE SkippedForInflight(r)
  <2>1. /\ idx' \in [Requests -> Nat \ {0}] /\ pc' \in [Requests -> Label]
        /\ idx'[r] = idx[r] + 1 /\ pc'[r] = "candidate"
        /\ \A s \in Requests \ {r} : idx'[s] = idx[s] /\ pc'[s] = pc[s]
    BY <1>2, NextCandidateFacts DEF CheckInflight
  <2>2. HasMore(r) \/ profile[r].anthropic
    BY <1>2 DEF SkippedForInflight
  <2>3. TypeOK'
    BY <2>1 DEF CheckInflight, TypeOK, CoolingTypeOK
  <2>4. RInv(r)'
    BY <2>1, <2>2 DEF CheckInflight, InLoop, At, TypeOK, RInv, Placed, Occupying,
       Attempting, HasMore
  <2>5. \A s \in Requests \ {r} : Same(s)
    BY <2>1 DEF CheckInflight, Same
  <2> QED BY <1>1, <2>3, <2>4, <2>5, OneMoves
<1>3. CASE ~SkippedForInflight(r)
  <2>1. TypeOK'
    BY <1>3 DEF CheckInflight, Goto, TypeOK, CoolingTypeOK, Label
  <2>2. RInv(r)'
    BY <1>3 DEF CheckInflight, Goto, InLoop, At, TypeOK, RInv, Placed, Occupying,
       Attempting, HasMore
  <2>3. \A s \in Requests \ {r} : Same(s)
    BY <1>3 DEF CheckInflight, Goto, TypeOK, Same
  <2> QED BY <1>1, <2>1, <2>2, <2>3, OneMoves
<1> QED BY <1>2, <1>3

LEMMA ClaimKeeps ==
  ASSUME IInv, NEW r \in Requests, Claim(r) PROVE IInv'
<1> USE DEF IInv, plan
<1>1. Candidate(r) \in Accounts /\ guard[r] = NoAccount
  BY CandidateType DEF Claim, At, RInv, Placed, Occupying, Attempting
<1>2. CASE handle[r]
  <2>1. /\ guard' = [guard EXCEPT ![r] = Candidate(r)]
        /\ inflight' = [inflight EXCEPT ![Candidate(r)] = @ + 1]
        /\ pc' = [pc EXCEPT ![r] = "attempt"] /\ result' = result
    BY <1>2 DEF Claim, Goto
  <2>2. InflightCountsGuards' /\ inflight' \in [Accounts -> Nat]
    BY <1>1, <2>1, CountsClaim
  <2>3. TypeOK'
    BY <1>1, <2>1, <2>2 DEF Claim, TypeOK, CoolingTypeOK, Label
  <2>4. RInv(r)'
    BY <1>2, <2>1 DEF Claim, At, TypeOK, Candidate, RInv, Placed, Occupying, Attempting
  <2>5. \A s \in Requests \ {r} : Same(s)
    BY <2>1 DEF Claim, TypeOK, Same
  <2> QED BY <2>2, <2>3, <2>4, <2>5, OneMoves
<1>3. CASE ~handle[r]
  <2>1. inflight' = inflight /\ guard' = guard /\ Finish(r, "consumed")
    BY <1>3 DEF Claim
  <2>2. /\ pc' \in [Requests -> Label] /\ pc'[r] = "done"
        /\ result' \in [Requests -> Ending] /\ result'[r] = "consumed"
        /\ \A s \in Requests \ {r} : pc'[s] = pc[s] /\ result'[s] = result[s]
    BY <2>1, FinishFacts DEF Ending
  <2>3. TypeOK'
    BY <2>1, <2>2 DEF Claim, TypeOK, CoolingTypeOK
  <2>4. InflightCountsGuards'
    BY <2>1 DEF InflightCountsGuards
  <2>5. RInv(r)'
    BY <1>1, <2>1, <2>2 DEF Claim, At, TypeOK, RInv, Placed, Occupying, Attempting
  <2>6. \A s \in Requests \ {r} : Same(s)
    BY <2>1, <2>2 DEF Claim, Same
  <2> QED BY <2>3, <2>4, <2>5, <2>6, OneMoves
<1> QED BY <1>2, <1>3

LEMMA AttemptSendKeeps ==
  ASSUME IInv, NEW r \in Requests, AttemptSend(r) PROVE IInv'
<1> USE DEF IInv, shared, plan
<1>1. TypeOK'
  BY DEF AttemptSend, TypeOK, CoolingTypeOK, Label, Goto
<1>2. InflightCountsGuards'
  BY DEF AttemptSend, InflightCountsGuards
<1>3. RInv(r)'
  BY DEF AttemptSend, At, TypeOK, RInv, Placed, Occupying, Attempting, Candidate, HasMore,
     Goto
<1>4. \A s \in Requests \ {r} : Same(s)
  BY DEF AttemptSend, TypeOK, Same, Goto
<1> QED BY <1>2, <1>1, <1>3, <1>4, OneMoves

LEMMA AttemptTooLateKeeps ==
  ASSUME IInv, NEW r \in Requests, AttemptTooLate(r) PROVE IInv'
<1> USE DEF IInv, shared, plan
<1>1. /\ Candidate(r) \in Accounts
      /\ InflightCountsGuards' /\ inflight' \in [Accounts -> Nat]
      /\ guard' \in [Requests -> Accounts \cup {NoAccount}]
      /\ guard'[r] = NoAccount /\ \A s \in Requests \ {r} : guard'[s] = guard[s]
  BY ReleaseFacts DEF AttemptTooLate, At, Occupying, Attempting
<1>2. /\ pc' \in [Requests -> Label] /\ pc'[r] = "done"
      /\ answers' \in [Requests -> Nat] /\ handle' \in [Requests -> BOOLEAN]
      /\ result' \in [Requests -> Ending] /\ ~handle'[r]
      /\ \/ handle[r] /\ answers'[r] = answers[r] + 1 /\ result'[r] = "handled"
         \/ ~handle[r] /\ answers'[r] = answers[r] /\ result'[r] = "panic"
      /\ \A s \in Requests \ {r} :
            /\ pc'[s] = pc[s] /\ result'[s] = result[s]
            /\ answers'[s] = answers[s] /\ handle'[s] = handle[s]
  BY RespondOrPanicFacts DEF AttemptTooLate, Ending
<1>3. TypeOK'
  BY <1>1, <1>2 DEF AttemptTooLate, TypeOK, CoolingTypeOK, Label
<1>4. RInv(r)'
  BY <1>1, <1>2 DEF AttemptTooLate, At, TypeOK, RInv, Placed, Occupying, Attempting,
     Candidate, HasMore
<1>5. \A s \in Requests \ {r} : Same(s)
  BY <1>1, <1>2 DEF AttemptTooLate, TypeOK, Same
<1> QED BY <1>1, <1>3, <1>4, <1>5, OneMoves

LEMMA AttemptFailoverKeeps ==
  ASSUME IInv, NEW r \in Requests, AttemptFailover(r) PROVE IInv'
<1> USE DEF IInv, shared, plan
<1>1. /\ Candidate(r) \in Accounts
      /\ InflightCountsGuards' /\ inflight' \in [Accounts -> Nat]
      /\ guard' \in [Requests -> Accounts \cup {NoAccount}]
      /\ guard'[r] = NoAccount /\ \A s \in Requests \ {r} : guard'[s] = guard[s]
  BY ReleaseFacts DEF AttemptFailover, At, Occupying, Attempting
<1>2. /\ idx' \in [Requests -> Nat \ {0}] /\ pc' \in [Requests -> Label]
      /\ idx'[r] = idx[r] + 1 /\ pc'[r] = "candidate"
      /\ \A s \in Requests \ {r} : idx'[s] = idx[s] /\ pc'[s] = pc[s]
  BY NextCandidateFacts DEF AttemptFailover
<1>3. TypeOK'
  BY <1>1, <1>2 DEF AttemptFailover, TypeOK, CoolingTypeOK, Label, CoolDown
<1>4. RInv(r)'
  BY <1>1, <1>2 DEF AttemptFailover, At, TypeOK, RInv, Placed, Occupying, Attempting,
     Candidate, HasMore
<1>5. \A s \in Requests \ {r} : Same(s)
  BY <1>1, <1>2 DEF AttemptFailover, TypeOK, Same, CoolDown
<1> QED BY <1>1, <1>3, <1>4, <1>5, OneMoves

LEMMA AttemptTerminalFailoverKeeps ==
  ASSUME IInv, NEW r \in Requests, AttemptTerminalFailover(r) PROVE IInv'
<1> USE DEF IInv, shared, plan
<1>1. /\ Candidate(r) \in Accounts
      /\ InflightCountsGuards' /\ inflight' \in [Accounts -> Nat]
      /\ guard' \in [Requests -> Accounts \cup {NoAccount}]
      /\ guard'[r] = NoAccount /\ \A s \in Requests \ {r} : guard'[s] = guard[s]
  BY ReleaseFacts DEF AttemptTerminalFailover, At, Occupying, Attempting
<1>2. /\ idx' \in [Requests -> Nat \ {0}] /\ pc' \in [Requests -> Label]
      /\ idx'[r] = idx[r] + 1 /\ pc'[r] = "candidate"
      /\ \A s \in Requests \ {r} : idx'[s] = idx[s] /\ pc'[s] = pc[s]
  BY NextCandidateFacts DEF AttemptTerminalFailover
<1>2a. /\ cooling' \subseteq Accounts /\ unavailable' \subseteq Accounts
      /\ forceStrip' \in [Requests -> BOOLEAN]
  BY <1>1 DEF AttemptTerminalFailover, TypeOK, CoolingTypeOK, CoolDownIf, CoolDown,
     TakeOutOfServiceIf
<1>3. TypeOK'
  BY <1>1, <1>2, <1>2a DEF AttemptTerminalFailover, TypeOK, CoolingTypeOK
<1>4. RInv(r)'
  BY <1>1, <1>2 DEF AttemptTerminalFailover, At, TypeOK, RInv, Placed, Occupying,
     Attempting, Candidate, HasMore
<1>5. \A s \in Requests \ {r} : Same(s)
  BY <1>1, <1>2 DEF AttemptTerminalFailover, TypeOK, Same, CoolDownIf, CoolDown,
     TakeOutOfServiceIf
<1> QED BY <1>1, <1>3, <1>4, <1>5, OneMoves

\* A Terminal decision finds the handle still there, so it never panics.
LEMMA TerminalAnswerKeeps ==
  ASSUME IInv, NEW r \in Requests, NEW b \in BOOLEAN, pc[r] \in {"sent", "resent"},
         TerminalAnswer(r, b) PROVE IInv'
<1> USE DEF IInv, shared, plan
<1>1. /\ Candidate(r) \in Accounts
      /\ InflightCountsGuards' /\ inflight' \in [Accounts -> Nat]
      /\ guard' \in [Requests -> Accounts \cup {NoAccount}]
      /\ guard'[r] = NoAccount /\ \A s \in Requests \ {r} : guard'[s] = guard[s]
  BY ReleaseFacts DEF TerminalAnswer, At, Occupying, Attempting
<1>2. /\ pc' \in [Requests -> Label] /\ pc'[r] = "done"
      /\ answers' \in [Requests -> Nat] /\ handle' \in [Requests -> BOOLEAN]
      /\ result' \in [Requests -> Ending] /\ ~handle'[r]
      /\ \/ handle[r] /\ answers'[r] = answers[r] + 1 /\ result'[r] = "handled"
         \/ ~handle[r] /\ answers'[r] = answers[r] /\ result'[r] = "panic"
      /\ \A s \in Requests \ {r} :
            /\ pc'[s] = pc[s] /\ result'[s] = result[s]
            /\ answers'[s] = answers[s] /\ handle'[s] = handle[s]
  BY RespondOrPanicFacts DEF TerminalAnswer, Ending
<1>3. TypeOK'
  BY <1>1, <1>2 DEF TerminalAnswer, TypeOK, CoolingTypeOK, Label, CoolDownIf, CoolDown,
     TakeOutOfServiceIf
<1>4. RInv(r)'
  BY <1>1, <1>2 DEF TerminalAnswer, At, TypeOK, RInv, Placed, Occupying, Attempting,
     Candidate, HasMore
<1>5. \A s \in Requests \ {r} : Same(s)
  BY <1>1, <1>2 DEF TerminalAnswer, TypeOK, Same, CoolDownIf, CoolDown, TakeOutOfServiceIf
<1> QED BY <1>1, <1>3, <1>4, <1>5, OneMoves

LEMMA AttemptRespondKeeps ==
  ASSUME IInv, NEW r \in Requests, AttemptRespond(r) PROVE IInv'
<1> USE DEF IInv, shared, plan
<1>0. cooling' \subseteq Accounts
  BY CandidateType DEF AttemptRespond, At, CoolDownIf, CoolDown, LiftCooldown, TypeOK,
     CoolingTypeOK,
     RInv, Placed, Occupying, Attempting
<1>1. TypeOK'
  BY <1>0 DEF AttemptRespond, TypeOK, CoolingTypeOK, Label, Goto, CoolDownIf, CoolDown,
     LiftCooldown, Deliverable
<1>2. InflightCountsGuards'
  BY DEF AttemptRespond, InflightCountsGuards
<1>3. RInv(r)'
  BY DEF AttemptRespond, At, TypeOK, RInv, Placed, Occupying, Attempting, Candidate,
     HasMore, Goto, Deliverable
<1>4. \A s \in Requests \ {r} : Same(s)
  BY DEF AttemptRespond, TypeOK, Same, Goto, CoolDownIf, CoolDown, LiftCooldown, Deliverable
<1> QED BY <1>2, <1>1, <1>3, <1>4, OneMoves

LEMMA AttemptBadRequestKeeps ==
  ASSUME IInv, NEW r \in Requests, AttemptBadRequest(r) PROVE IInv'
<1> USE DEF IInv, shared, plan
<1>0. cooling' \subseteq Accounts
  BY CandidateType DEF AttemptBadRequest, At, CoolDownIf, CoolDown, LiftCooldown, TypeOK,
     CoolingTypeOK,
     RInv, Placed, Occupying, Attempting
<1>1. TypeOK'
  BY <1>0 DEF AttemptBadRequest, TypeOK, CoolingTypeOK, Label, Goto, CoolDownIf, CoolDown
<1>2. InflightCountsGuards'
  BY DEF AttemptBadRequest, InflightCountsGuards
<1>3. RInv(r)'
  BY DEF AttemptBadRequest, At, TypeOK, RInv, Placed, Occupying, Attempting, Candidate,
     HasMore, Goto
<1>4. \A s \in Requests \ {r} : Same(s)
  BY DEF AttemptBadRequest, TypeOK, Same, Goto, CoolDownIf, CoolDown
<1> QED BY <1>2, <1>1, <1>3, <1>4, OneMoves

LEMMA RetryFailoverKeeps ==
  ASSUME IInv, NEW r \in Requests, RetryFailover(r) PROVE IInv'
<1> USE DEF IInv, shared, plan
<1>1. /\ Candidate(r) \in Accounts
      /\ InflightCountsGuards' /\ inflight' \in [Accounts -> Nat]
      /\ guard' \in [Requests -> Accounts \cup {NoAccount}]
      /\ guard'[r] = NoAccount /\ \A s \in Requests \ {r} : guard'[s] = guard[s]
  BY ReleaseFacts DEF RetryFailover, At, Occupying, Attempting
<1>2. /\ idx' \in [Requests -> Nat \ {0}] /\ pc' \in [Requests -> Label]
      /\ idx'[r] = idx[r] + 1 /\ pc'[r] = "candidate"
      /\ \A s \in Requests \ {r} : idx'[s] = idx[s] /\ pc'[s] = pc[s]
  BY NextCandidateFacts DEF RetryFailover
<1>3. TypeOK'
  BY <1>1, <1>2 DEF RetryFailover, TypeOK, CoolingTypeOK, Label, CoolDown
<1>4. RInv(r)'
  BY <1>1, <1>2 DEF RetryFailover, At, TypeOK, RInv, Placed, Occupying, Attempting,
     Candidate, HasMore
<1>5. \A s \in Requests \ {r} : Same(s)
  BY <1>1, <1>2 DEF RetryFailover, TypeOK, Same, CoolDown
<1> QED BY <1>1, <1>3, <1>4, <1>5, OneMoves

LEMMA RetryRespondKeeps ==
  ASSUME IInv, NEW r \in Requests, RetryRespond(r) PROVE IInv'
<1> USE DEF IInv, shared, plan
<1>0. cooling' \subseteq Accounts
  BY CandidateType DEF RetryRespond, At, CoolDownIf, CoolDown, LiftCooldown, TypeOK,
     CoolingTypeOK,
     RInv, Placed, Occupying, Attempting
<1>1. TypeOK'
  BY <1>0 DEF RetryRespond, TypeOK, CoolingTypeOK, Label, Goto, CoolDownIf, CoolDown,
     LiftCooldown, Deliverable
<1>2. InflightCountsGuards'
  BY DEF RetryRespond, InflightCountsGuards
<1>3. RInv(r)'
  BY DEF RetryRespond, At, TypeOK, RInv, Placed, Occupying, Attempting, Candidate, HasMore,
     Goto, Deliverable
<1>4. \A s \in Requests \ {r} : Same(s)
  BY DEF RetryRespond, TypeOK, Same, Goto, CoolDownIf, CoolDown, LiftCooldown, Deliverable
<1> QED BY <1>2, <1>1, <1>3, <1>4, OneMoves

\* The one place where an answer may be withheld: more candidates remain then.
LEMMA DeliverKeeps ==
  ASSUME IInv, NEW r \in Requests, Deliver(r) PROVE IInv'
<1> USE DEF IInv, plan
<1>1. /\ Candidate(r) \in Accounts
      /\ InflightCountsGuards' /\ inflight' \in [Accounts -> Nat]
      /\ guard' \in [Requests -> Accounts \cup {NoAccount}]
      /\ guard'[r] = NoAccount /\ \A s \in Requests \ {r} : guard'[s] = guard[s]
  BY ReleaseFacts DEF Deliver, At, Occupying, Attempting
<1>2. PICK kind \in ErrorKind, streamFailed \in BOOLEAN, suppressed \in BOOLEAN :
        /\ suppressed => kind = "Deactivation" /\ HasMore(r)
        /\ bridge' = [bridge EXCEPT ![r] = [kind |-> kind, streamFailed |-> streamFailed]]
        /\ answers' = [answers EXCEPT ![r] = IF suppressed THEN @ ELSE @ + 1]
  BY DEF Deliver, MaySuppress
<1>3. /\ answers' \in [Requests -> Nat]
      /\ answers'[r] = IF suppressed THEN answers[r] ELSE answers[r] + 1
      /\ \A s \in Requests \ {r} : answers'[s] = answers[s]
  BY <1>2 DEF TypeOK
<1>4. /\ bridge' \in [Requests -> [kind : ErrorKind, streamFailed : BOOLEAN]]
      /\ bridge'[r].kind = kind /\ \A s \in Requests \ {r} : bridge'[s] = bridge[s]
  BY <1>2 DEF TypeOK
<1>5. TypeOK'
  BY <1>1, <1>3, <1>4 DEF Deliver, Goto, TypeOK, CoolingTypeOK, Label
<1>6. RInv(r)'
  BY <1>1, <1>2, <1>3, <1>4 DEF Deliver, At, Goto, TypeOK, HasMore, RInv, Placed, Occupying,
     Attempting
<1>7. \A s \in Requests \ {r} : Same(s)
  BY <1>1, <1>3, <1>4 DEF Deliver, Goto, TypeOK, Same
<1> QED BY <1>1, <1>5, <1>6, <1>7, OneMoves

LEMMA DeliverFailsKeeps ==
  ASSUME IInv, NEW r \in Requests, DeliverFails(r) PROVE IInv'
<1> USE DEF IInv, shared, plan
<1>1. /\ Candidate(r) \in Accounts
      /\ InflightCountsGuards' /\ inflight' \in [Accounts -> Nat]
      /\ guard' \in [Requests -> Accounts \cup {NoAccount}]
      /\ guard'[r] = NoAccount /\ \A s \in Requests \ {r} : guard'[s] = guard[s]
  BY ReleaseFacts DEF DeliverFails, At, Occupying, Attempting
<1>2. /\ pc' \in [Requests -> Label] /\ pc'[r] = "done"
      /\ result' \in [Requests -> Ending] /\ result'[r] = "broken"
      /\ \A s \in Requests \ {r} : pc'[s] = pc[s] /\ result'[s] = result[s]
  BY FinishFacts DEF DeliverFails, Ending
<1>3. TypeOK'
  BY <1>1, <1>2 DEF DeliverFails, TypeOK, CoolingTypeOK, Label
<1>4. RInv(r)'
  BY <1>1, <1>2 DEF DeliverFails, At, TypeOK, RInv, Placed, Occupying, Attempting,
     Candidate, HasMore
<1>5. \A s \in Requests \ {r} : Same(s)
  BY <1>1, <1>2 DEF DeliverFails, TypeOK, Same
<1> QED BY <1>1, <1>3, <1>4, <1>5, OneMoves

\* A withheld answer makes the request go on, so nobody is reported served
\* without one.
LEMMA FollowUpKeeps ==
  ASSUME IInv, NEW r \in Requests, FollowUp(r) PROVE IInv'
<1> USE DEF IInv, plan
<1>1. Candidate(r) \in Accounts
  BY CandidateType DEF FollowUp, At, RInv, Placed, Occupying
<1>2. /\ cooling' \subseteq Accounts /\ unavailable' \subseteq Accounts
      /\ bridge' \in [Requests -> [kind : ErrorKind, streamFailed : BOOLEAN]]
      /\ \A s \in Requests \ {r} : bridge'[s] = bridge[s]
  BY <1>1 DEF FollowUp, TypeOK, CoolingTypeOK, CoolDownIf, CoolDown, TakeOutOfServiceIf,
     NoBridge, ErrorKind
<1>3. InflightCountsGuards'
  BY DEF FollowUp, InflightCountsGuards
<1>4. CASE Actionable(bridge[r].kind) /\ HasMore(r)
  <2>1. NextCandidate(r) /\ result' = result
    BY <1>4 DEF FollowUp
  <2>2. /\ idx' \in [Requests -> Nat \ {0}] /\ pc' \in [Requests -> Label]
        /\ idx'[r] = idx[r] + 1 /\ pc'[r] = "candidate"
        /\ \A s \in Requests \ {r} : idx'[s] = idx[s] /\ pc'[s] = pc[s]
    BY <2>1, NextCandidateFacts
  <2>3. TypeOK'
    BY <1>2, <2>1, <2>2 DEF FollowUp, TypeOK, CoolingTypeOK
  <2>4. RInv(r)'
    BY <1>4, <2>1, <2>2 DEF FollowUp, At, TypeOK, HasMore, RInv, Placed, Occupying,
       Attempting
  <2>5. \A s \in Requests \ {r} : Same(s)
    BY <1>2, <2>1, <2>2 DEF FollowUp, Same
  <2> QED BY <1>3, <2>3, <2>4, <2>5, OneMoves
<1>5. CASE ~(Actionable(bridge[r].kind) /\ HasMore(r))
  <2>1. Finish(r, "handled") /\ idx' = idx
    BY <1>5 DEF FollowUp
  <2>2. /\ pc' \in [Requests -> Label] /\ pc'[r] = "done"
        /\ result' \in [Requests -> Ending] /\ result'[r] = "handled"
        /\ \A s \in Requests \ {r} : pc'[s] = pc[s] /\ result'[s] = result[s]
    BY <2>1, FinishFacts DEF Ending
  <2>3. answers[r] = 1
    BY <1>5 DEF FollowUp, At, RInv, Actionable
  <2>4. TypeOK'
    BY <1>2, <2>1, <2>2 DEF FollowUp, TypeOK, CoolingTypeOK
  <2>5. RInv(r)'
    BY <2>1, <2>2, <2>3 DEF FollowUp, At, TypeOK, RInv, Placed, Occupying, Attempting
  <2>6. \A s \in Requests \ {r} : Same(s)
    BY <1>2, <2>1, <2>2 DEF FollowUp, Same
  <2> QED BY <1>3, <2>4, <2>5, <2>6, OneMoves
<1> QED BY <1>4, <1>5

\* A request whose candidates are all behind it is one of the Anthropic protocol.
LEMMA ExhaustedKeeps ==
  ASSUME IInv, NEW r \in Requests, Exhausted(r) PROVE IInv'
<1> USE DEF IInv, shared, plan
<1>0. guard[r] = NoAccount /\ guard' = guard
  BY DEF Exhausted, At, InLoop, RInv, Occupying, Attempting
<1>1. /\ pc' \in [Requests -> Label] /\ pc'[r] = "done"
      /\ answers' \in [Requests -> Nat] /\ handle' \in [Requests -> BOOLEAN]
      /\ result' \in [Requests -> Ending] /\ ~handle'[r]
      /\ \/ handle[r] /\ answers'[r] = answers[r] + 1 /\ result'[r] = "exhausted"
         \/ ~handle[r] /\ answers'[r] = answers[r] /\ result'[r] = "panic"
      /\ \A s \in Requests \ {r} :
            /\ pc'[s] = pc[s] /\ result'[s] = result[s]
            /\ answers'[s] = answers[s] /\ handle'[s] = handle[s]
  BY RespondOrPanicFacts DEF Exhausted, Ending
<1>2. TypeOK'
  BY <1>1 DEF Exhausted, TypeOK, CoolingTypeOK, Label
<1>3. InflightCountsGuards'
  BY DEF Exhausted, InflightCountsGuards
<1>4. RInv(r)'
  BY <1>0, <1>1 DEF Exhausted, At, TypeOK, RInv, Placed, Occupying, Attempting, Candidate,
     HasMore
<1>5. \A s \in Requests \ {r} : Same(s)
  BY <1>1 DEF Exhausted, TypeOK, Same
<1> QED BY <1>3, <1>2, <1>4, <1>5, OneMoves

LEMMA DeadlinePassesKeeps ==
  ASSUME IInv, NEW r \in Requests, DeadlinePasses(r) PROVE IInv'
<1> USE DEF IInv, shared, plan
<1>1. TypeOK'
  BY DEF DeadlinePasses, TypeOK, CoolingTypeOK, Label, Goto
<1>2. InflightCountsGuards'
  BY DEF DeadlinePasses, InflightCountsGuards
<1>3. RInv(r)'
  BY DEF DeadlinePasses, At, TypeOK, RInv, Placed, Occupying, Attempting, Candidate,
     HasMore, Goto
<1>4. \A s \in Requests \ {r} : Same(s)
  BY DEF DeadlinePasses, TypeOK, Same, Goto
<1> QED BY <1>2, <1>1, <1>3, <1>4, OneMoves

LEMMA WorldKeeps ==
  ASSUME IInv, CooldownLapses \/ (\E a \in Accounts : BackInService(a)) PROVE IInv'
<1> USE DEF IInv, CooldownLapses, BackInService, Lapse, plan
<1>1. TypeOK'
  BY DEF TypeOK, CoolingTypeOK
<1>2. InflightCountsGuards'
  BY DEF InflightCountsGuards
<1>3. \A r \in Requests : Same(r)
  BY DEF Same
<1> QED BY <1>1, <1>2, <1>3, Frame

LEMMA InitIInv == Init => IInv
<1> SUFFICES ASSUME Init PROVE IInv
  OBVIOUS
<1> USE DEF Init, IInv, CoolingInit
<1>1. TypeOK
  BY ProfilesAssumption DEF TypeOK, CoolingTypeOK, Label, Ending, NoBridge, ErrorKind
<1>2. InflightCountsGuards
  <2>1. \A a \in Accounts : {r \in Requests : guard[r] = a} = {}
    BY NoAccountAssumption
  <2> QED BY <2>1, FS_EmptySet DEF InflightCountsGuards
<1>3. \A r \in Requests : RInv(r)
  BY DEF RInv, Placed, Occupying, Attempting
<1> QED BY <1>1, <1>2, <1>3

\* One step per action.
LEMMA NextIInv == IInv /\ [Next]_vars => IInv'
<1> SUFFICES ASSUME IInv, [Next]_vars PROVE IInv'
  OBVIOUS
<1>1. CASE CooldownLapses \/ \E a \in Accounts : BackInService(a)
  BY <1>1, WorldKeeps
<1>2. ASSUME NEW r \in Requests, Start(r) \/ NoCandidates(r) \/ DeadlinePasses(r)
      PROVE  IInv'
  BY <1>2, StartKeeps, NoCandidatesKeeps, DeadlinePassesKeeps
<1>3. ASSUME NEW r \in Requests, Serve(r) PROVE IInv'
  <2>1. CASE AttemptTerminal(r) \/ RetryTerminal(r)
    BY <2>1, TerminalAnswerKeeps DEF AttemptTerminal, RetryTerminal, At
  <2> QED
    BY <1>3, <2>1, TotalTimeoutKeeps, CheckCooldownKeeps, CheckInflightKeeps, ClaimKeeps,
       AttemptSendKeeps, AttemptTooLateKeeps, AttemptFailoverKeeps,
       AttemptTerminalFailoverKeeps, AttemptRespondKeeps, AttemptBadRequestKeeps,
       RetryFailoverKeeps, RetryRespondKeeps, DeliverKeeps, DeliverFailsKeeps,
       FollowUpKeeps, ExhaustedKeeps
    DEF Serve
<1>4. CASE UNCHANGED vars
  <2>1. TypeOK' /\ InflightCountsGuards'
    BY <1>4 DEF vars, shared, plan, IInv, TypeOK, CoolingTypeOK, InflightCountsGuards
  <2>2. \A r \in Requests : Same(r)
    BY <1>4 DEF vars, shared, plan, Same
  <2> QED BY <2>1, <2>2, Frame DEF IInv
<1> QED BY <1>1, <1>2, <1>3, <1>4 DEF Next

LEMMA Inductive == Spec => []IInv
  BY InitIInv, NextIInv, PTL DEF Spec

-----------------------------------------------------------------------------
(* Results *)

\* Type correctness; the counters never fall below zero.
THEOREM ExecutorTypeCorrect == Spec => []TypeOK
  BY Inductive, PTL DEF IInv

\* No path out of an attempt leaks an in-flight guard or drops it twice.
THEOREM InflightExact == Spec => []InflightCountsGuards
  BY Inductive, PTL DEF IInv

\* One answer at most, and exactly one for a request reported as served.
THEOREM AnsweredOnce == Spec => []ServedMeansAnsweredOnce
<1>1. IInv => ServedMeansAnsweredOnce
  BY DEF IInv, ServedMeansAnsweredOnce, RInv
<1> QED BY <1>1, Inductive, PTL

\* Only a request of the Anthropic protocol can find every candidate skipped.
THEOREM RunsOut == Spec => []OnlyAnthropicRunsOut
<1>1. IInv => OnlyAnthropicRunsOut
  BY DEF IInv, OnlyAnthropicRunsOut, RInv
<1> QED BY <1>1, Inductive, PTL

\* Only four actions take a request from an attempt back to its list.
LEMMA OwnStepMarks ==
  ASSUME TypeOK, NEW r \in Requests, Serve(r), FailedOver(r)
  PROVE  Candidate(r) \in cooling' \cup unavailable'
<1> USE DEF FailedOver, At
<1>1. CASE AttemptFailover(r) \/ RetryFailover(r)
  BY <1>1 DEF AttemptFailover, RetryFailover, CoolDown
<1>2. CASE AttemptTerminalFailover(r)
  BY <1>2 DEF AttemptTerminalFailover, TakeOutOfServiceIf
<1>3. CASE FollowUp(r)
  <2>1. CASE Actionable(bridge[r].kind) /\ HasMore(r)
    BY <1>3, <2>1 DEF FollowUp, TakeOutOfServiceIf
  <2>2. CASE ~(Actionable(bridge[r].kind) /\ HasMore(r))
    BY <1>3, <2>2 DEF FollowUp, Finish, Goto, TypeOK
  <2> QED BY <2>1, <2>2
<1>4. CASE TotalTimeout(r) \/ CheckCooldown(r) \/ CheckInflight(r) \/ Claim(r)
           \/ AttemptTooLate(r) \/ Deliver(r) \/ DeliverFails(r) \/ Exhausted(r)
  BY <1>4 DEF TotalTimeout, CheckCooldown, CheckInflight, Claim, AttemptTooLate, Deliver,
     DeliverFails, Exhausted, InLoop
<1>5. CASE AttemptSend(r) \/ AttemptRespond(r) \/ AttemptBadRequest(r) \/ RetryRespond(r)
  BY <1>5 DEF AttemptSend, AttemptRespond, AttemptBadRequest, RetryRespond, Deliverable,
     Goto,
     TypeOK
<1>6. CASE AttemptTerminal(r) \/ RetryTerminal(r)
  BY <1>6, RespondOrPanicFacts DEF AttemptTerminal, RetryTerminal, TerminalAnswer, Ending
<1> QED BY <1>1, <1>2, <1>3, <1>4, <1>5, <1>6 DEF Serve

\* A step of one request does not move another.
LEMMA OthersStay ==
  ASSUME TypeOK, NEW s \in Requests, NEW r \in Requests \ {s},
         Start(s) \/ NoCandidates(s) \/ Serve(s) \/ DeadlinePasses(s)
  PROVE  pc'[r] = pc[r]
<1> USE DEF TypeOK, Goto, NextCandidate, Finish
<1>1. CASE RespondOrPanic(s, "handled") \/ RespondOrPanic(s, "exhausted")
  BY <1>1 DEF RespondOrPanic
<1>2. CASE Start(s) \/ NoCandidates(s) \/ DeadlinePasses(s)
  BY <1>2 DEF Start, NoCandidates, DeadlinePasses
<1>3. CASE TotalTimeout(s) \/ AttemptTooLate(s) \/ Exhausted(s) \/ AttemptTerminal(s)
           \/ RetryTerminal(s)
  BY <1>1, <1>3 DEF TotalTimeout, AttemptTooLate, Exhausted, AttemptTerminal, RetryTerminal,
     TerminalAnswer
<1>4. CASE CheckCooldown(s) \/ CheckInflight(s) \/ Claim(s)
  BY <1>4 DEF CheckCooldown, CheckInflight, Claim
<1>5. CASE AttemptSend(s) \/ AttemptFailover(s) \/ AttemptTerminalFailover(s)
           \/ AttemptRespond(s) \/ AttemptBadRequest(s) \/ RetryFailover(s) \/ RetryRespond(s)
  BY <1>5 DEF AttemptSend, AttemptFailover, AttemptTerminalFailover, AttemptRespond,
     AttemptBadRequest, RetryFailover, RetryRespond, Deliverable
<1>6. CASE Deliver(s) \/ DeliverFails(s) \/ FollowUp(s)
  BY <1>6 DEF Deliver, DeliverFails, FollowUp
<1> QED BY <1>2, <1>3, <1>4, <1>5, <1>6 DEF Serve

\* Going on to another account leaves a mark on the one that was tried.
THEOREM FailoverMarks == Spec => FailoverLeavesMark
<1>1. TypeOK /\ [Next]_vars =>
        [\A r \in Requests : FailedOver(r) => Candidate(r) \in cooling' \cup unavailable']_vars
  <2> SUFFICES ASSUME TypeOK, Next, NEW r \in Requests, FailedOver(r)
               PROVE  Candidate(r) \in cooling' \cup unavailable'
    OBVIOUS
  <2>1. CASE CooldownLapses \/ \E a \in Accounts : BackInService(a)
    BY <2>1 DEF CooldownLapses, BackInService, FailedOver
  <2>2. ASSUME NEW s \in Requests \ {r},
               Start(s) \/ NoCandidates(s) \/ Serve(s) \/ DeadlinePasses(s)
        PROVE  FALSE
    BY <2>2, OthersStay DEF FailedOver
  <2>3. CASE Start(r) \/ NoCandidates(r) \/ DeadlinePasses(r)
    BY <2>3 DEF Start, NoCandidates, DeadlinePasses, FailedOver, At, plan
  <2>4. CASE Serve(r)
    BY <2>4, OwnStepMarks
  <2> QED BY <2>1, <2>2, <2>3, <2>4 DEF Next
<1> QED BY <1>1, ExecutorTypeCorrect, PTL DEF Spec, FailoverLeavesMark
=============================================================================
