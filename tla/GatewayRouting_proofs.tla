----------------------- MODULE GatewayRouting_proofs -----------------------
(***************************************************************************)
(* Proofs about the two tables of crates/service/src/gateway/routing: the  *)
(* cooldowns of AccountCooldown, then the turns and bindings of Routing.   *)
(* No step of one reads the state of the other: the pools of Routing come  *)
(* and go as cooldowns please.                                             *)
(***************************************************************************)
EXTENDS AccountCooldown, Routing, SequenceTheorems, FiniteSetTheorems, TLAPS

-----------------------------------------------------------------------------
(* Cooldowns: the three invariants are inductive together; the action properties follow *)
(* from them step by step *)

\* What the proofs need of the constants, without the sequence notation.
LEMMA LadderFacts ==
    /\ Len(Ladder) \in Nat \ {0}
    /\ \A i \in 1..Len(Ladder) : Ladder[i] \in Nat \ {0}
    /\ \A i, j \in 1..Len(Ladder) : i <= j => Ladder[i] <= Ladder[j]
  BY LadderAssumption

\* rate_limit_cooldown_secs_for_offense stays on the ladder: whatever the count,
\* the answer is at least the first rung and at most the last.
LEMMA LadderSecsRange ==
    ASSUME NEW count \in Nat \ {0}
    PROVE  /\ LadderSecs(count) \in Nat \ {0}
           /\ Ladder[1] <= LadderSecs(count)
           /\ LadderSecs(count) <= Ladder[Len(Ladder)]
  <1>1. CASE count < Len(Ladder)
    <2>1. count \in 1..Len(Ladder) /\ 1 \in 1..Len(Ladder) /\ Len(Ladder) \in 1..Len(Ladder)
      BY <1>1, LadderFacts
    <2> QED  BY <1>1, <2>1, LadderFacts DEF LadderSecs
  <1>2. CASE ~(count < Len(Ladder))
    <2>1. 1 \in 1..Len(Ladder) /\ Len(Ladder) \in 1..Len(Ladder)
      BY LadderFacts
    <2> QED  BY <1>2, <2>1, LadderFacts DEF LadderSecs
  <1> QED  BY <1>1, <1>2

\* A further offence counts at least one and respects the saturation.
LEMMA NextOffenseRange ==
    ASSUME TableTypeOK, NEW a \in Accounts
    PROVE  NextOffense(a) \in 1..OffenseCap
  BY SecsAssumption DEF TableTypeOK, NextOffense, SaturatingIncrement, CleanedCount, Absent

\* The cleanup at the start of a mark keeps the types and never touches a
\* cooldown that still runs.
LEMMA CleanedFacts ==
    ASSUME TableTypeOK, NEW a \in Accounts
    PROVE  /\ CleanedUntil(a) \in Nat
           /\ CleanedUntil(a) \in {until[a], Absent}
           /\ InCooldown(a) => CleanedUntil(a) = until[a]
           /\ CleanedCount(a) \in 0..OffenseCap
           /\ CleanedLastAt(a) \in 0..now
  <1>1. CleanedUntil(a) \in {until[a], Absent}
    BY DEF CleanedUntil
  <1>2. CleanedUntil(a) \in Nat
    BY <1>1 DEF TableTypeOK, Absent
  <1>3. InCooldown(a) => CleanedUntil(a) = until[a]
    BY DEF CleanedUntil
  <1>4. CleanedCount(a) \in {offenseCount[a], Absent} /\ CleanedCount(a) \in 0..OffenseCap
    BY SecsAssumption DEF CleanedCount, Absent, TableTypeOK
  <1>5. CleanedLastAt(a) \in {offenseLastAt[a], Absent} /\ CleanedLastAt(a) \in 0..now
    BY DEF CleanedLastAt, Absent, TableTypeOK
  <1> QED  BY <1>1, <1>2, <1>3, <1>4, <1>5

-----------------------------------------------------------------------------

IInv == TableTypeOK /\ OffenseMapsAgree /\ ParkedNoLongerThanOneCooldown

\* What a cooldown end may be: Absent always qualifies, so does an end kept.
Allowed(u) ==
    \/ u <= now + Ladder[Len(Ladder)]
    \/ \E reason \in PlainReasons : u <= now + PlainSecs[reason]

LEMMA KeptEndAllowed ==
    ASSUME IInv, NEW a \in Accounts, NEW u \in {until[a], Absent}
    PROVE  Allowed(u)
  <1>1. Allowed(until[a])
    BY DEF IInv, ParkedNoLongerThanOneCooldown, Allowed
  <1>2. Ladder[Len(Ladder)] \in Nat /\ now \in Nat
    BY LadderFacts DEF IInv, TableTypeOK
  <1>3. Allowed(Absent)
    BY <1>2 DEF Allowed, Absent
  <1> QED  BY <1>1, <1>3

LEMMA InitIInv == Init => IInv
  BY LadderFacts, SecsAssumption
  DEF Init, IInv, TableTypeOK, OffenseMapsAgree, ParkedNoLongerThanOneCooldown, Absent

LEMMA MarkPlainIInv ==
    ASSUME IInv, NEW a \in Accounts, NEW reason \in CooldownReason, MarkPlain(a, reason)
    PROVE  IInv'
  <1> USE DEF IInv
  <1>1. reason \in PlainReasons /\ PlainSecs[reason] \in Nat \ {0}
    BY SecsAssumption DEF MarkPlain
  <1>2. TableTypeOK'
    <2>1. \A b \in Accounts : until'[b] \in Nat
      BY <1>1, CleanedFacts DEF MarkPlain, KeepLater, TableTypeOK
    <2>2. \A b \in Accounts : offenseCount'[b] \in 0..OffenseCap /\ offenseLastAt'[b] \in 0..now'
      BY CleanedFacts DEF MarkPlain
    <2> QED  BY <2>1, <2>2 DEF MarkPlain, TableTypeOK
  <1>3. OffenseMapsAgree'
    BY DEF MarkPlain, OffenseMapsAgree, CleanedCount, CleanedLastAt
  <1>4. ParkedNoLongerThanOneCooldown'
    <2> SUFFICES ASSUME NEW b \in Accounts PROVE Allowed(until'[b])
      BY DEF ParkedNoLongerThanOneCooldown, MarkPlain, Allowed
    <2>1. until'[b] \in {until[b], Absent, now + PlainSecs[reason]}
      BY CleanedFacts DEF MarkPlain, KeepLater
    <2>2. Allowed(now + PlainSecs[reason])
      BY <1>1 DEF Allowed, TableTypeOK
    <2> QED  BY <2>1, <2>2, KeptEndAllowed
  <1> QED  BY <1>2, <1>3, <1>4

LEMMA MarkRateLimitedIInv ==
    ASSUME IInv, NEW a \in Accounts, MarkRateLimited(a)
    PROVE  IInv'
  <1> USE DEF IInv
  <1> DEFINE secs == LadderSecs(NextOffense(a))
  <1>1. NextOffense(a) \in 1..OffenseCap /\ NextOffense(a) \in Nat \ {0}
    BY NextOffenseRange, SecsAssumption
  <1>2. secs \in Nat \ {0} /\ secs <= Ladder[Len(Ladder)]
    BY <1>1, LadderSecsRange
  <1>3. Ladder[Len(Ladder)] \in Nat
    BY LadderFacts
  <1> HIDE DEF secs
  <1>4. TableTypeOK'
    <2>1. \A b \in Accounts : until'[b] \in Nat
      BY <1>2, CleanedFacts DEF MarkRateLimited, KeepLater, TableTypeOK, secs
    <2>2. \A b \in Accounts : offenseCount'[b] \in 0..OffenseCap /\ offenseLastAt'[b] \in 0..now'
      BY <1>1, CleanedFacts DEF MarkRateLimited, TableTypeOK
    <2> QED  BY <2>1, <2>2 DEF MarkRateLimited, TableTypeOK
  <1>5. OffenseMapsAgree'
    BY <1>1 DEF MarkRateLimited, OffenseMapsAgree, CleanedCount, CleanedLastAt, TableTypeOK, Absent
  <1>6. ParkedNoLongerThanOneCooldown'
    <2> SUFFICES ASSUME NEW b \in Accounts PROVE Allowed(until'[b])
      BY DEF ParkedNoLongerThanOneCooldown, MarkRateLimited, Allowed
    <2>1. until'[b] \in {until[b], Absent, now + secs}
      BY CleanedFacts DEF MarkRateLimited, KeepLater, secs
    <2>2. Allowed(now + secs)
      BY <1>2, <1>3 DEF Allowed, TableTypeOK
    <2> QED  BY <2>1, <2>2, KeptEndAllowed
  <1> QED  BY <1>4, <1>5, <1>6

LEMMA ClearIInv ==
    ASSUME IInv, NEW a \in Accounts, ClearAccountCooldown(a)
    PROVE  IInv'
  <1> USE DEF IInv
  <1>1. DecayedCount(a) \in 0..OffenseCap /\ DecayedLastAt(a) \in 0..now
    BY SecsAssumption DEF TableTypeOK, DecayedCount, DecayedLastAt, Absent
  <1>2. TableTypeOK'
    BY <1>1 DEF ClearAccountCooldown, TableTypeOK, Absent
  <1>3. OffenseMapsAgree'
    BY DEF ClearAccountCooldown, TableTypeOK, OffenseMapsAgree, DecayedCount, DecayedLastAt, Absent
  <1>4. ParkedNoLongerThanOneCooldown'
    <2>1. \A b \in Accounts : until'[b] \in {until[b], Absent}
      BY DEF ClearAccountCooldown, TableTypeOK
    <2> QED  BY <2>1, KeptEndAllowed
             DEF ClearAccountCooldown, ParkedNoLongerThanOneCooldown, Allowed
  <1> QED  BY <1>2, <1>3, <1>4

LEMMA IsInCooldownIInv ==
    ASSUME IInv, NEW a \in Accounts, IsAccountInCooldown(a)
    PROVE  IInv'
  <1> USE DEF IInv
  <1>1. \A b \in Accounts : until'[b] \in {until[b], Absent}
    BY DEF IsAccountInCooldown, TableTypeOK
  <1>2. TableTypeOK' /\ OffenseMapsAgree'
    BY DEF IsAccountInCooldown, TableTypeOK, OffenseMapsAgree, Absent
  <1>3. ParkedNoLongerThanOneCooldown'
    BY <1>1, KeptEndAllowed DEF IsAccountInCooldown, ParkedNoLongerThanOneCooldown, Allowed
  <1> QED  BY <1>2, <1>3

LEMMA NextIInv == IInv /\ [Next]_vars => IInv'
  <1> SUFFICES ASSUME IInv, [Next]_vars PROVE IInv'
    OBVIOUS
  <1>1. CASE Tick
    <2>1. TableTypeOK' /\ OffenseMapsAgree'
      BY <1>1 DEF IInv, Tick, TableTypeOK, OffenseMapsAgree
    <2>2. ParkedNoLongerThanOneCooldown'
      <3> SUFFICES ASSUME NEW a \in Accounts PROVE Allowed(until[a])'
        BY DEF ParkedNoLongerThanOneCooldown, Allowed
      <3>1. now' = now + 1 /\ until' = until /\ now \in Nat /\ until[a] \in Nat
        BY <1>1 DEF Tick, IInv, TableTypeOK
      <3>2. Allowed(until[a])
        BY KeptEndAllowed
      <3>3. CASE until[a] <= now + Ladder[Len(Ladder)]
        BY <3>1, <3>3, LadderFacts DEF Allowed
      <3>4. ASSUME NEW reason \in PlainReasons, until[a] <= now + PlainSecs[reason]
            PROVE  Allowed(until[a])'
        <4>1. PlainSecs[reason] \in Nat
          BY SecsAssumption
        <4>2. until[a] <= now + 1 + PlainSecs[reason]
          BY <3>1, <3>4, <4>1
        <4> QED  BY <3>1, <4>2 DEF Allowed
      <3> QED  BY <3>2, <3>3, <3>4 DEF Allowed
    <2> QED  BY <2>1, <2>2 DEF IInv
  <1>2. CASE ClearRuntimeState
    <2>1. TableTypeOK' /\ OffenseMapsAgree'
      BY <1>2, SecsAssumption DEF IInv, ClearRuntimeState, TableTypeOK, OffenseMapsAgree, Absent
    <2>2. ParkedNoLongerThanOneCooldown'
      BY <1>2, KeptEndAllowed
      DEF ClearRuntimeState, ParkedNoLongerThanOneCooldown, Allowed
    <2> QED  BY <2>1, <2>2 DEF IInv
  <1>3. ASSUME NEW a \in Accounts, IsAccountInCooldown(a) PROVE IInv'
    BY <1>3, IsInCooldownIInv
  <1>4. ASSUME NEW a \in Accounts, ClearAccountCooldown(a) PROVE IInv'
    BY <1>4, ClearIInv
  <1>5. ASSUME NEW a \in Accounts, NEW reason \in CooldownReason, MarkAccountCooldown(a, reason)
        PROVE IInv'
    BY <1>5, MarkPlainIInv, MarkRateLimitedIInv DEF MarkAccountCooldown
  <1>6. ASSUME NEW a \in Accounts, NEW status \in SampleStatuses,
               MarkAccountCooldownForStatus(a, status)
        PROVE IInv'
    <2>1. CooldownReasonForStatus(status) \in CooldownReason
      BY DEF CooldownReasonForStatus, CooldownReason, PlainReasons, SampleStatuses
    <2> QED  BY <1>6, <2>1, <1>5 DEF MarkAccountCooldownForStatus
  <1>7. CASE UNCHANGED vars
    BY <1>7 DEF vars, IInv, TableTypeOK, OffenseMapsAgree, ParkedNoLongerThanOneCooldown
  <1> QED  BY <1>1, <1>2, <1>3, <1>4, <1>5, <1>6, <1>7 DEF Next

LEMMA Inductive == Spec => []IInv
  BY InitIInv, NextIInv, PTL DEF Spec

LEMMA TableTypes == Spec => []TableTypeOK
  BY Inductive, PTL DEF IInv

-----------------------------------------------------------------------------

\* Every value of the table has its type in every reachable state, and the two
\* offence maps always have the same keys.
THEOREM CooldownTypeCorrect == Spec => []TypeOK
  <1>1. IInv => TypeOK
    BY DEF IInv, TypeOK
  <1> QED  BY <1>1, Inductive, PTL

\* Cooldowns never add up: an account waits at most one cooldown from now.
THEOREM CooldownBounded == Spec => []ParkedNoLongerThanOneCooldown
  BY Inductive, PTL DEF IInv
-----------------------------------------------------------------------------

\* A mark keeps every cooldown that still runs at least as long as it was.
LEMMA MarkKeepsRunning ==
    ASSUME TableTypeOK, NEW a \in Accounts, NEW b \in Accounts, InCooldown(b),
           \/ MarkRateLimited(a)
           \/ \E reason \in CooldownReason : MarkPlain(a, reason)
    PROVE  until'[b] >= until[b]
  <1>1. CleanedUntil(b) = until[b] /\ until[b] \in Nat
    BY CleanedFacts DEF TableTypeOK
  <1>2. CASE MarkRateLimited(a)
    <2>1. now + LadderSecs(NextOffense(a)) \in Nat
      <3>1. NextOffense(a) \in Nat \ {0}
        BY NextOffenseRange, SecsAssumption
      <3>2. LadderSecs(NextOffense(a)) \in Nat \ {0}
        BY <3>1, LadderSecsRange
      <3> QED  BY <3>2 DEF TableTypeOK
    <2> QED  BY <1>1, <1>2, <2>1 DEF MarkRateLimited, KeepLater
  <1>3. ASSUME NEW reason \in CooldownReason, MarkPlain(a, reason)
        PROVE  until'[b] >= until[b]
    <2>1. now + PlainSecs[reason] \in Nat
      BY <1>3, SecsAssumption DEF MarkPlain, TableTypeOK
    <2> QED  BY <1>1, <1>3, <2>1 DEF MarkPlain, KeepLater
  <1> QED  BY <1>2, <1>3

\* No failure ever shortens a cooldown that is running: it ends by itself, by a
\* success of its account, or by the reset of the table.
THEOREM CooldownOnlyLifted == Spec => RunningCooldownOnlyLifted
  <1> DEFINE P == \A a \in Accounts :
                     InCooldown(a) /\ until'[a] < until[a] =>
                        LiftedBySuccess(a) \/ WholeTableReset
  <1>1. TableTypeOK /\ TableTypeOK' /\ [Next]_vars => [P]_vars
    <2> SUFFICES ASSUME TableTypeOK, TableTypeOK', Next, NEW a \in Accounts,
                        InCooldown(a), until'[a] < until[a]
                 PROVE  LiftedBySuccess(a) \/ WholeTableReset
      OBVIOUS
    <2>0. until[a] \in Nat /\ ~(until[a] < until[a])
      BY DEF TableTypeOK
    <2>1. CASE Tick
      BY <2>0, <2>1 DEF Tick
    <2>2. CASE ClearRuntimeState
      BY <2>2 DEF ClearRuntimeState, WholeTableReset
    <2>3. ASSUME NEW b \in Accounts, IsAccountInCooldown(b) PROVE FALSE
      BY <2>0, <2>3 DEF IsAccountInCooldown, TableTypeOK
    <2>4. ASSUME NEW b \in Accounts, ClearAccountCooldown(b) PROVE LiftedBySuccess(a)
      <3>1. b = a
        BY <2>0, <2>4 DEF ClearAccountCooldown, TableTypeOK
      <3> QED  BY <2>4, <3>1 DEF ClearAccountCooldown, LiftedBySuccess, TableTypeOK
    <2>5. ASSUME NEW b \in Accounts, NEW reason \in CooldownReason,
                 MarkAccountCooldown(b, reason)
          PROVE FALSE
      <3>1. until'[a] >= until[a]
        BY <2>5, MarkKeepsRunning DEF MarkAccountCooldown
      <3>2. until'[a] \in Nat
        BY DEF TableTypeOK
      <3> QED  BY <2>0, <3>1, <3>2
    <2>6. ASSUME NEW b \in Accounts, NEW status \in SampleStatuses,
                 MarkAccountCooldownForStatus(b, status)
          PROVE FALSE
      <3>1. CooldownReasonForStatus(status) \in CooldownReason
        BY DEF CooldownReasonForStatus, CooldownReason, PlainReasons, SampleStatuses
      <3> QED  BY <2>5, <2>6, <3>1 DEF MarkAccountCooldownForStatus
    <2> QED  BY <2>1, <2>2, <2>3, <2>4, <2>5, <2>6 DEF Next
  <1>2. Spec => []TableTypeOK
    BY TableTypes
  <1> QED  BY <1>1, <1>2, PTL DEF Spec, RunningCooldownOnlyLifted

-----------------------------------------------------------------------------
(* The ladder *)

\* What a step does to the offences of one account.
LEMMA OffenseEffect ==
    ASSUME TableTypeOK, Next, NEW a \in Accounts
    PROVE  \/ offenseCount'[a] = offenseCount[a] /\ offenseLastAt'[a] = offenseLastAt[a]
           \/ WholeTableReset /\ offenseCount'[a] = Absent /\ offenseLastAt'[a] = Absent
           \/ ClearAccountCooldown(a)
           \/ Stale(a) /\ offenseCount'[a] = Absent /\ offenseLastAt'[a] = Absent
           \/ MarkRateLimited(a)
  <1> DEFINE Cleaned == \/ offenseCount'[a] = offenseCount[a] /\ offenseLastAt'[a] = offenseLastAt[a]
                        \/ Stale(a) /\ offenseCount'[a] = Absent /\ offenseLastAt'[a] = Absent
  <1>1. CASE Tick
    BY <1>1 DEF Tick
  <1>2. CASE ClearRuntimeState
    BY <1>2 DEF ClearRuntimeState, WholeTableReset
  <1>3. ASSUME NEW b \in Accounts, IsAccountInCooldown(b) PROVE Cleaned
    BY <1>3 DEF IsAccountInCooldown
  <1>4. ASSUME NEW b \in Accounts, ClearAccountCooldown(b)
        PROVE  Cleaned \/ ClearAccountCooldown(a)
    BY <1>4 DEF ClearAccountCooldown, TableTypeOK
  <1>5. ASSUME NEW b \in Accounts, NEW reason \in CooldownReason, MarkAccountCooldown(b, reason)
        PROVE  Cleaned \/ MarkRateLimited(a)
    <2>1. CASE MarkPlain(b, reason)
      BY <2>1 DEF MarkPlain, CleanedCount, CleanedLastAt
    <2>2. CASE MarkRateLimited(b) /\ b # a
      BY <2>2 DEF MarkRateLimited, CleanedCount, CleanedLastAt
    <2> QED  BY <1>5, <2>1, <2>2 DEF MarkAccountCooldown
  <1>6. ASSUME NEW b \in Accounts, NEW status \in SampleStatuses,
               MarkAccountCooldownForStatus(b, status)
        PROVE  Cleaned \/ MarkRateLimited(a)
    <2>1. CooldownReasonForStatus(status) \in CooldownReason
      BY DEF CooldownReasonForStatus, CooldownReason, PlainReasons, SampleStatuses
    <2> QED  BY <1>5, <1>6, <2>1 DEF MarkAccountCooldownForStatus
  <1> QED  BY <1>1, <1>2, <1>3, <1>4, <1>5, <1>6 DEF Next

\* A rate-limited account comes down one rung per success; only old age or a reset
\* forgets more at once.
THEOREM LadderDescent == Spec => LadderDescendsByOneRung
  <1> DEFINE P == \A a \in Accounts :
                     offenseCount'[a] < offenseCount[a] =>
                        \/ offenseCount'[a] = offenseCount[a] - 1 /\ until'[a] = Absent
                        \/ Stale(a) /\ offenseCount'[a] \in {Absent, 1}
                        \/ WholeTableReset
  <1>1. TableTypeOK /\ [Next]_vars => [P]_vars
    <2> SUFFICES ASSUME TableTypeOK, Next, NEW a \in Accounts, offenseCount'[a] < offenseCount[a],
                        ~WholeTableReset
                 PROVE  \/ offenseCount'[a] = offenseCount[a] - 1 /\ until'[a] = Absent
                        \/ Stale(a) /\ offenseCount'[a] \in {Absent, 1}
      OBVIOUS
    <2>1. offenseCount[a] \in 0..OffenseCap /\ OffenseCap \in Nat
      BY SecsAssumption DEF TableTypeOK
    <2>2. CASE ClearAccountCooldown(a)
      <3>1. offenseCount'[a] = DecayedCount(a) /\ until'[a] = Absent
        BY <2>2 DEF ClearAccountCooldown, TableTypeOK
      <3> QED  BY <2>1, <3>1 DEF DecayedCount, Absent
    <2>3. CASE MarkRateLimited(a)
      <3>1. offenseCount'[a] = NextOffense(a)
        BY <2>3 DEF MarkRateLimited
      <3>2. CASE Stale(a)
        BY <3>1, <3>2 DEF NextOffense
      <3>3. CASE ~Stale(a)
        BY <2>1, <3>1, <3>3 DEF NextOffense, CleanedCount, SaturatingIncrement
      <3> QED  BY <3>2, <3>3
    <2> QED  BY <2>1, <2>2, <2>3, OffenseEffect
  <1>2. Spec => []TableTypeOK
    BY TableTypes
  <1> QED  BY <1>1, <1>2, PTL DEF Spec, LadderDescendsByOneRung

\* After the forgetting window a 429 costs the first rung, whether or not the sweep
\* has come by.
THEOREM OffenseForgotten == Spec => OldOffenseForgotten
  <1> DEFINE P == \A a \in Accounts :
                     Stale(a) /\ offenseLastAt'[a] = now =>
                        /\ offenseCount'[a] = 1
                        /\ until'[a] \in {CleanedUntil(a), now + Ladder[1]}
  <1>1. TableTypeOK /\ [Next]_vars => [P]_vars
    <2> SUFFICES ASSUME TableTypeOK, Next, NEW a \in Accounts, Stale(a), offenseLastAt'[a] = now
                 PROVE  offenseCount'[a] = 1 /\ until'[a] \in {CleanedUntil(a), now + Ladder[1]}
      OBVIOUS
    <2>1. now \in Nat \ {0} /\ offenseLastAt[a] \in 0..now /\ ForgetAfter \in Nat
      BY SecsAssumption DEF TableTypeOK
    <2>2. now # Absent /\ offenseLastAt[a] # now
      BY <2>1 DEF Absent, Stale
    <2>3. ~ClearAccountCooldown(a)
      <3>1. ClearAccountCooldown(a) => offenseLastAt'[a] \in {offenseLastAt[a], Absent}
        BY DEF ClearAccountCooldown, DecayedLastAt, TableTypeOK
      <3> QED  BY <2>2, <3>1
    <2>4. MarkRateLimited(a)
      BY <2>2, <2>3, OffenseEffect
    <2>5. NextOffense(a) = 1 /\ LadderSecs(1) = Ladder[1]
      BY LadderFacts DEF NextOffense, LadderSecs
    <2> QED  BY <2>4, <2>5 DEF MarkRateLimited, KeepLater
  <1>2. Spec => []TableTypeOK
    BY TableTypes
  <1> QED  BY <1>1, <1>2, PTL DEF Spec, OldOffenseForgotten

-----------------------------------------------------------------------------
(* The table implements the set of cooling accounts *)

Cooling == {a \in Accounts : InCooldown(a)}

\* Seen as a set, a mark adds its own account and leaves all others alone.
LEMMA MarkAddsOne ==
    ASSUME TableTypeOK, NEW a \in Accounts,
           \/ MarkRateLimited(a)
           \/ \E reason \in CooldownReason : MarkPlain(a, reason)
    PROVE  Cooling' = Cooling \cup {a}
  <1>1. now' = now
    BY DEF MarkRateLimited, MarkPlain
  <1>2. \A b \in Accounts \ {a} : until'[b] > now <=> until[b] > now
    <2> SUFFICES ASSUME NEW b \in Accounts \ {a} PROVE until'[b] > now <=> until[b] > now
      OBVIOUS
    <2>1. until'[b] = CleanedUntil(b)
      BY DEF MarkRateLimited, MarkPlain
    <2>2. CleanedUntil(b) > now <=> until[b] > now
      BY DEF CleanedUntil, InCooldown, Absent, TableTypeOK
    <2> QED  BY <2>1, <2>2
  <1>3. until'[a] > now
    <2>1. ASSUME NEW old \in Nat, NEW secs \in Nat \ {0}
          PROVE  KeepLater(old, now + secs) > now
      BY DEF KeepLater, TableTypeOK
    <2>2. CleanedUntil(a) \in Nat
      BY CleanedFacts
    <2>3. CASE MarkRateLimited(a)
      <3>1. LadderSecs(NextOffense(a)) \in Nat \ {0}
        <4>1. NextOffense(a) \in Nat \ {0}
          BY NextOffenseRange, SecsAssumption
        <4> QED  BY <4>1, LadderSecsRange
      <3> QED  BY <2>1, <2>2, <2>3, <3>1 DEF MarkRateLimited
    <2>4. ASSUME NEW reason \in CooldownReason, MarkPlain(a, reason)
          PROVE  until'[a] > now
      <3>1. PlainSecs[reason] \in Nat \ {0}
        BY <2>4, SecsAssumption DEF MarkPlain
      <3> QED  BY <2>1, <2>2, <2>4, <3>1 DEF MarkPlain
    <2> QED  BY <2>3, <2>4
  <1> QED  BY <1>1, <1>2, <1>3 DEF Cooling, InCooldown

\* Every step of the table is a step of the set, or none: the callers may reason
\* about a set of cooling accounts.
THEOREM CooldownRefinement == Spec => ImplementsCoolingSet
  <1>1. Init => Contract!CoolingInit
    BY DEF Init, Contract!CoolingInit, InCooldown, Absent
  <1>2. TableTypeOK /\ TableTypeOK' /\ [Next]_vars => [Contract!CoolingNext]_Cooling
    <2> SUFFICES ASSUME TableTypeOK, TableTypeOK', [Next]_vars
                 PROVE  \/ Contract!CoolingNext
                        \/ Cooling' = Cooling
      OBVIOUS
    <2> USE DEF Contract!CoolingNext
    <2>1. ASSUME Cooling' \subseteq Cooling PROVE Contract!CoolingNext
      <3>1. Cooling' = Cooling \ (Cooling \ Cooling')
        BY <2>1
      <3>2. Contract!Lapse
        BY <3>1 DEF Cooling, Contract!Lapse
      <3> QED  BY <3>2
    <2>2. CASE Tick \/ ClearRuntimeState
      <3>1. Cooling' \subseteq Cooling
        BY <2>2 DEF Tick, ClearRuntimeState, Cooling, InCooldown, Absent, TableTypeOK
      <3> QED  BY <2>1, <3>1
    <2>3. ASSUME NEW a \in Accounts, IsAccountInCooldown(a) PROVE Cooling' = Cooling
      BY <2>3 DEF IsAccountInCooldown, Cooling, InCooldown, Absent, TableTypeOK
    <2>4. ASSUME NEW a \in Accounts, ClearAccountCooldown(a) PROVE Contract!LiftCooldown(a)
      BY <2>4 DEF ClearAccountCooldown, Cooling, InCooldown, Absent, TableTypeOK,
                  Contract!LiftCooldown
    <2>5. ASSUME NEW a \in Accounts, NEW reason \in CooldownReason,
                 MarkAccountCooldown(a, reason)
          PROVE  Contract!CoolDown(a)
      <3>1. Cooling' = Cooling \cup {a}
        BY <2>5, MarkAddsOne DEF MarkAccountCooldown
      <3> QED  BY <3>1 DEF Contract!CoolDown, Cooling
    <2>6. ASSUME NEW a \in Accounts, NEW status \in SampleStatuses,
                 MarkAccountCooldownForStatus(a, status)
          PROVE  Contract!CoolDown(a)
      <3>1. CooldownReasonForStatus(status) \in CooldownReason
        BY DEF CooldownReasonForStatus, CooldownReason, PlainReasons, SampleStatuses
      <3> QED  BY <2>5, <2>6, <3>1 DEF MarkAccountCooldownForStatus
    <2>7. CASE UNCHANGED vars
      BY <2>7 DEF vars, Cooling, InCooldown
    <2> QED  BY <2>2, <2>3, <2>4, <2>5, <2>6, <2>7 DEF Next
  <1>3. Spec => []TableTypeOK
    BY TableTypes
  <1> QED  BY <1>1, <1>2, <1>3, PTL DEF Spec, ImplementsCoolingSet, Contract!CoolingSpec, Cooling

-----------------------------------------------------------------------------
(* The turns of routing: what is known of a key that has taken one *)

\* Its entry is there, with only keys behind it that have come since.
Kept(k) ==
    heads[k] # NoHeads =>
        \E p \in DOMAIN turns :
           /\ turns[p].key = k
           /\ \A q \in DOMAIN turns : q > p => turns[q].key \in since[k]

\* The heads of a list end before the next start: m of them, around the end.
Follows(h, t) ==
    /\ Len(h.list) > 1 /\ IsInjective(h.list)
    /\ Len(h.first) \in 1 .. Len(h.list)
    /\ t \in 0 .. Len(h.list) - 1
    /\ \A i \in 1 .. Len(h.first) :
          LET n == t - Len(h.first) + i
          IN  h.first[i] = h.list[IF n > 0 THEN n ELSE n + Len(h.list)]

\* One start serves one list, unless the key has two.
RouteOf == [accounts |-> "AccountRotation", apis |-> "AggregateApi"]
OneFamily(k) ==
    \A f \in Families : heads[k][f].first # <<>> =>
        \E x \in Kinds : x.key = k /\ x.route = RouteOf[f]

InStep(k) == \A f \in Families : heads[k][f].first # <<>> => Follows(heads[k][f], Turn(k))

TurnsInv ==
    /\ \A k \in Keys : Kept(k) /\ IsFiniteSet(since[k])
    /\ \A k \in Keys \ OneStartForTwo : OneFamily(k) /\ InStep(k)

-----------------------------------------------------------------------------
(* Lists and their rotations *)

\* The lists of a pool name nobody twice.
LEMMA ListsAreInjective ==
  ASSUME NEW order, IsInjective(order), NEW n \in Nat, DOMAIN order = 1 .. n,
         NEW l \in ListsOf(order)
  PROVE  l \in Seq(Range(order)) /\ IsInjective(l)
<1>1. PICK m \in 0 .. Len(order) : l \in [1 .. m -> Range(order)]
  BY DEF ListsOf
<1>2. l \in Seq(Range(order)) /\ DOMAIN l = 1 .. m
  <2>1. m \in Nat
    BY <1>1
  <2> QED BY <1>1, <2>1, SeqDef
<1>3. ASSUME NEW i \in DOMAIN l, NEW j \in DOMAIN l, i < j PROVE l[i] # l[j]
  <2>1. PICK p \in DOMAIN order, q \in DOMAIN order : p < q /\ order[p] = l[i] /\ order[q] = l[j]
    BY <1>3 DEF ListsOf, Before
  <2> QED BY <2>1 DEF IsInjective
<1>4. \A i, j \in 1 .. m : i < j \/ j < i \/ i = j
  OBVIOUS
<1> QED BY <1>2, <1>3, <1>4 DEF IsInjective

LEMMA TailIsInjective ==
  ASSUME NEW S, NEW l \in Seq(S), IsInjective(l), l # <<>>
  PROVE  /\ Tail(l) \in Seq(S) /\ IsInjective(Tail(l)) /\ Range(Tail(l)) \subseteq Range(l)
         /\ Head(l) \in Range(l) /\ Head(l) \in S
<1>1. /\ Tail(l) \in Seq(S) /\ Len(Tail(l)) = Len(l) - 1 /\ Len(l) \in Nat \ {0}
      /\ DOMAIN l = 1 .. Len(l) /\ DOMAIN Tail(l) = 1 .. Len(l) - 1
      /\ \A i \in 1 .. Len(l) - 1 : Tail(l)[i] = l[i + 1] /\ i + 1 \in 1 .. Len(l)
      /\ Head(l) = l[1] /\ 1 \in 1 .. Len(l) /\ Head(l) \in S
  BY HeadTailProperties, EmptySeq
<1>2. ASSUME NEW i \in 1 .. Len(l) - 1, NEW j \in 1 .. Len(l) - 1, Tail(l)[i] = Tail(l)[j]
      PROVE  i = j
  <2>1. i + 1 = j + 1
    BY <1>1, <1>2 DEF IsInjective
  <2> QED BY <1>1, <2>1
<1>3. IsInjective(Tail(l))
  BY <1>1, <1>2 DEF IsInjective
<1>4. Range(Tail(l)) \subseteq Range(l) /\ Head(l) \in Range(l)
  BY <1>1 DEF Range
<1> QED BY <1>1, <1>3, <1>4

LEMMA TailOfLonger ==
  ASSUME NEW S, NEW l \in Seq(S), Len(l) > 1 PROVE Tail(l) # <<>>
<1> DEFINE t == Tail(l)
<1>1. Len(l) \in Nat /\ l # <<>>
  OBVIOUS
<1>2. Len(t) = Len(l) - 1
  BY <1>1, HeadTailProperties
<1> HIDE DEF t
<1>3. Len(t) # 0
  <2>1. \A n \in Nat : n > 1 => n - 1 # 0
    OBVIOUS
  <2> QED BY <1>1, <1>2, <2>1
<1>4. t # <<>>
  BY <1>3
<1> QED BY <1>4 DEF t

\* rotate_left, place by place
LEMMA RotateLeftPlaces ==
  ASSUME NEW S, NEW l \in Seq(S), NEW n \in 0 .. Len(l)
  PROVE  /\ RotateLeft(l, n) \in Seq(S) /\ Len(RotateLeft(l, n)) = Len(l)
         /\ DOMAIN RotateLeft(l, n) = 1 .. Len(l)
         /\ \A i \in 1 .. Len(l) :
               RotateLeft(l, n)[i] = l[IF i + n <= Len(l) THEN i + n ELSE i + n - Len(l)]
<1> DEFINE b == SubSeq(l, n + 1, Len(l))
           f == SubSeq(l, 1, n)
<1>1. Len(l) \in Nat /\ \A i \in 1 .. Len(l) : l[i] \in S
  BY ElementOfSeq
<1>2. /\ b \in Seq(S) /\ Len(b) = Len(l) - n
      /\ \A i \in 1 .. Len(l) - n : b[i] = l[i + n]
  BY <1>1, SubSeqProperties
<1>3. f \in Seq(S) /\ Len(f) = n /\ \A i \in 1 .. n : f[i] = l[i]
  BY <1>1, SubSeqProperties
<1> HIDE DEF b, f
<1>4. /\ b \o f \in Seq(S) /\ Len(b \o f) = Len(l)
      /\ \A i \in 1 .. Len(l) : (b \o f)[i] = IF i <= Len(l) - n THEN b[i] ELSE f[i - (Len(l) - n)]
  <2>1. Len(b) + Len(f) = Len(l)
    BY <1>1, <1>2, <1>3
  <2> QED BY <1>2, <1>3, <2>1, ConcatProperties
<1>5. ASSUME NEW i \in 1 .. Len(l)
      PROVE  (b \o f)[i] = l[IF i + n <= Len(l) THEN i + n ELSE i + n - Len(l)]
  <2>1. CASE i + n <= Len(l)
    <3>1. i \in 1 .. Len(l) - n
      BY <1>1, <2>1
    <3> QED BY <1>2, <1>4, <2>1, <3>1
  <2>2. CASE ~(i + n <= Len(l))
    <3>1. i - (Len(l) - n) \in 1 .. n /\ i - (Len(l) - n) = i + n - Len(l) /\ ~(i <= Len(l) - n)
      BY <1>1, <2>2
    <3> QED BY <1>3, <1>4, <2>2, <3>1
  <2> QED BY <2>1, <2>2
<1>6. RotateLeft(l, n) = b \o f
  BY DEF RotateLeft, b, f
<1> QED BY <1>1, <1>4, <1>5, <1>6

\* A rotation has the same members, each once.
LEMMA RotateLeftIsInjective ==
  ASSUME NEW S, NEW l \in Seq(S), IsInjective(l), NEW n \in 0 .. Len(l)
  PROVE  IsInjective(RotateLeft(l, n)) /\ Range(RotateLeft(l, n)) = Range(l)
<1> DEFINE at(i) == IF i + n <= Len(l) THEN i + n ELSE i + n - Len(l)
<1>1. Len(l) \in Nat /\ DOMAIN l = 1 .. Len(l)
  OBVIOUS
<1>2. \A i \in 1 .. Len(l) : at(i) \in 1 .. Len(l)
  BY <1>1
<1>3. \A i, j \in 1 .. Len(l) : at(i) = at(j) => i = j
  BY <1>1
<1>3a. ASSUME NEW i \in 1 .. Len(l) PROVE \E j \in 1 .. Len(l) : at(j) = i
  <2>1. CASE i > n
    <3>1. i - n \in 1 .. Len(l) /\ at(i - n) = i
      BY <1>1, <2>1
    <3> QED BY <3>1
  <2>2. CASE ~(i > n)
    <3>1. i - n + Len(l) \in 1 .. Len(l) /\ at(i - n + Len(l)) = i
      BY <1>1, <2>2
    <3> QED BY <3>1
  <2> QED BY <2>1, <2>2
<1> HIDE DEF at
<1>4. /\ DOMAIN RotateLeft(l, n) = 1 .. Len(l)
      /\ \A i \in 1 .. Len(l) : RotateLeft(l, n)[i] = l[at(i)]
  BY RotateLeftPlaces DEF at
<1>5. IsInjective(RotateLeft(l, n))
  BY <1>1, <1>2, <1>3, <1>4 DEF IsInjective
<1>6. Range(RotateLeft(l, n)) \subseteq Range(l)
  BY <1>1, <1>2, <1>4 DEF Range
<1>7. Range(l) \subseteq Range(RotateLeft(l, n))
  <2>1. ASSUME NEW i \in 1 .. Len(l) PROVE l[i] \in Range(RotateLeft(l, n))
    <3>1. PICK j \in 1 .. Len(l) : at(j) = i
      BY <1>3a
    <3>2. RotateLeft(l, n)[j] = l[i] /\ j \in DOMAIN RotateLeft(l, n)
      BY <1>4, <3>1
    <3> QED BY <3>2 DEF Range
  <2> QED BY <1>1, <2>1 DEF Range
<1> QED BY <1>5, <1>6, <1>7

-----------------------------------------------------------------------------
(* The entries, the key seen longest ago first *)

Entry == [key : Keys, next : Nat]
Unique(entries) == \A i, j \in 1 .. Len(entries) : entries[i].key = entries[j].key => i = j

\* A key has one place.
LEMMA OnePlace ==
  ASSUME NEW T \in Seq(Entry), Unique(T), NEW p \in DOMAIN T
  PROVE  (CHOOSE i \in DOMAIN T : T[i].key = T[p].key) = p
  BY DEF Unique

LEMMA EntryHasPlace ==
  ASSUME NEW T \in Seq(Entry), Unique(T), NEW k, \E i \in DOMAIN T : T[i].key = k
  PROVE  LET p == CHOOSE i \in DOMAIN T : T[i].key = k
         IN  /\ p \in DOMAIN T /\ T[p].key = k
             /\ \A i \in DOMAIN T : T[i].key = k => i = p
  BY DEF Unique

\* Where a place was before the entry at another one was taken out.
Up(hole, i) == IF i < hole THEN i ELSE i + 1

\* Taking an entry out leaves the others in their order.
LEMMA OthersPlaces ==
  ASSUME turns \in Seq(Entry), Unique(turns), NEW k \in Keys
  PROVE  \E hole \in 1 .. Len(turns) + 1 :
            /\ Others(k) \in Seq(Entry)
            /\ hole <= Len(turns) => Len(Others(k)) = Len(turns) - 1
            /\ hole > Len(turns) => Len(Others(k)) = Len(turns)
            /\ hole <= Len(turns) => turns[hole].key = k
            /\ \A i \in 1 .. Len(Others(k)) :
                  Up(hole, i) \in 1 .. Len(turns) /\ Others(k)[i] = turns[Up(hole, i)]
            /\ \A i \in 1 .. Len(turns) : turns[i].key = k => i = hole
<1>1. Len(turns) \in Nat /\ DOMAIN turns = 1 .. Len(turns) /\ \A i \in 1 .. Len(turns) : turns[i] \in Entry
  BY ElementOfSeq
<1>2. CASE HasEntry(k)
  <2> DEFINE p == Place(k)
             a == SubSeq(turns, 1, p - 1)
             b == SubSeq(turns, p + 1, Len(turns))
  <2>1. p \in 1 .. Len(turns) /\ turns[p].key = k /\ \A i \in 1 .. Len(turns) : turns[i].key = k => i = p
    BY <1>1, <1>2, EntryHasPlace DEF HasEntry, Place
  <2>2. Others(k) = a \o b
    BY <1>2 DEF Others
  <2> HIDE DEF p
  <2>3. p - 1 \in Nat /\ \A i \in 1 .. p - 1 : turns[i] \in Entry
    BY <1>1, <2>1
  <2>4. a \in Seq(Entry) /\ Len(a) = p - 1 /\ \A i \in 1 .. p - 1 : a[i] = turns[i]
    BY <2>1, <2>3, SubSeqProperties
  <2>5. \A i \in p + 1 .. Len(turns) : turns[i] \in Entry
    BY <1>1, <2>1
  <2>6. b \in Seq(Entry) /\ Len(b) = Len(turns) - p /\ \A i \in 1 .. Len(turns) - p : b[i] = turns[i + p]
    <3>1. b \in Seq(Entry) /\ Len(b) = IF p + 1 <= Len(turns) THEN Len(turns) - (p + 1) + 1 ELSE 0
      BY <1>1, <2>1, <2>5, SubSeqProperties
    <3>2. \A i \in 1 .. Len(turns) - (p + 1) + 1 : b[i] = turns[(p + 1) + i - 1]
      BY <1>1, <2>1, <2>5, SubSeqProperties
    <3> HIDE DEF b
    <3>3. Len(turns) - (p + 1) + 1 = Len(turns) - p /\ \A i \in 1 .. Len(turns) - p : (p + 1) + i - 1 = i + p
      BY <1>1, <2>1
    <3>4. Len(b) = Len(turns) - p
      <4>1. Len(turns) \in Nat /\ p \in Nat /\ p <= Len(turns)
        BY <1>1, <2>1
      <4> QED BY <3>1, <4>1
    <3> QED BY <3>1, <3>2, <3>3, <3>4
  <2> HIDE DEF a, b
  <2>7. /\ a \o b \in Seq(Entry) /\ Len(a \o b) = Len(turns) - 1
        /\ \A i \in 1 .. Len(turns) - 1 : (a \o b)[i] = IF i <= p - 1 THEN a[i] ELSE b[i - (p - 1)]
    <3>1. Len(a) + Len(b) = Len(turns) - 1
      BY <1>1, <2>1, <2>4, <2>6
    <3> QED BY <2>4, <2>6, <3>1, ConcatProperties
  <2>8. ASSUME NEW i \in 1 .. Len(turns) - 1
        PROVE  Up(p, i) \in 1 .. Len(turns) /\ (a \o b)[i] = turns[Up(p, i)]
    <3>1. CASE i < p
      <4>1. i \in 1 .. p - 1 /\ i <= p - 1
        BY <2>1, <3>1
      <4> QED BY <1>1, <2>4, <2>7, <3>1, <4>1 DEF Up
    <3>2. CASE ~(i < p)
      <4>1. i - (p - 1) \in 1 .. Len(turns) - p /\ (i - (p - 1)) + p = i + 1 /\ ~(i <= p - 1)
        BY <1>1, <2>1, <3>2
      <4> QED BY <1>1, <2>1, <2>6, <2>7, <3>2, <4>1 DEF Up
    <3> QED BY <3>1, <3>2
  <2>9. p \in 1 .. Len(turns) + 1 /\ ~(p > Len(turns))
    <3>1. Len(turns) \in Nat
      BY <1>1
    <3> QED BY <2>1, <3>1
  <2> DEFINE o == Others(k)
  <2> HIDE DEF o
  <2>10. o = a \o b
    BY <2>2 DEF o
  <2>11. o \in Seq(Entry) /\ Len(o) = Len(turns) - 1
    BY <2>7, <2>10
  <2>12. \A i \in 1 .. Len(o) : Up(p, i) \in 1 .. Len(turns) /\ o[i] = turns[Up(p, i)]
    BY <2>8, <2>10, <2>11
  <2> QED BY <2>1, <2>9, <2>11, <2>12 DEF o
<1>3. CASE ~HasEntry(k)
  <2>1. Others(k) = turns /\ \A i \in 1 .. Len(turns) : turns[i].key # k
    BY <1>1, <1>3 DEF Others, HasEntry
  <2> DEFINE end == Len(turns) + 1
  <2>2. end \in 1 .. Len(turns) + 1 /\ ~(end <= Len(turns))
    BY <1>1
  <2>3. \A i \in 1 .. Len(turns) : Up(end, i) = i
    BY <1>1 DEF Up
  <2> HIDE DEF end
  <2> QED BY <2>1, <2>2, <2>3
<1> QED BY <1>2, <1>3

\* The entry of the key that takes a turn moves to the end; the others keep their order.
LEMMA SeenPlaces ==
  ASSUME turns \in Seq(Entry), Unique(turns), NEW k \in Keys, NEW x \in Nat
  PROVE  LET s == Seen(k, x)
         IN  /\ s \in Seq(Entry) /\ Unique(s) /\ Len(s) \in 1 .. Len(turns) + 1
             /\ s[Len(s)] = [key |-> k, next |-> x]
             /\ \A p \in 1 .. Len(turns) : turns[p].key # k =>
                   \E q \in 1 .. Len(s) - 1 :
                      /\ s[q] = turns[p]
                      /\ \A j \in 1 .. Len(s) : j > q =>
                            s[j].key = k \/ \E i \in 1 .. Len(turns) : i > p /\ s[j] = turns[i]
<1> DEFINE o == Others(k)
           e == [key |-> k, next |-> x]
<1>1. Len(turns) \in Nat
  OBVIOUS
<1>2. PICK hole \in 1 .. Len(turns) + 1 :
         /\ o \in Seq(Entry)
         /\ hole <= Len(turns) => Len(o) = Len(turns) - 1
         /\ hole > Len(turns) => Len(o) = Len(turns)
         /\ hole <= Len(turns) => turns[hole].key = k
         /\ \A i \in 1 .. Len(o) : Up(hole, i) \in 1 .. Len(turns) /\ o[i] = turns[Up(hole, i)]
         /\ \A i \in 1 .. Len(turns) : turns[i].key = k => i = hole
  BY OthersPlaces
<1>2a. hole \in 1 .. Len(turns) + 1
  OBVIOUS
<1>2b. hole \in Nat
  BY <1>1, <1>2a
<1>2c. hole <= Len(turns) \/ hole > Len(turns)
  BY <1>1, <1>2b
<1> HIDE DEF o
<1>3. o \in Seq(Entry) /\ Len(o) \in Nat
  BY <1>2
<1>4. /\ hole <= Len(turns) => Len(o) = Len(turns) - 1
      /\ hole > Len(turns) => Len(o) = Len(turns)
  BY <1>2
<1>5. \A i \in 1 .. Len(o) : Up(hole, i) \in 1 .. Len(turns) /\ o[i] = turns[Up(hole, i)]
  BY <1>2
<1>6. \A i \in 1 .. Len(turns) : turns[i].key = k <=> i = hole
  <2>1. hole <= Len(turns) => turns[hole].key = k
    BY <1>2
  <2>2. \A i \in 1 .. Len(turns) : turns[i].key = k => i = hole
    BY <1>2
  <2> QED BY <1>1, <2>1, <2>2
<1>7. e \in Entry /\ e.key = k
  BY DEF Entry
<1> HIDE DEF e
<1> DEFINE s == Append(o, e)
<1>8. Seen(k, x) = s
  BY DEF Seen, o, e
<1>9. /\ s \in Seq(Entry) /\ Len(s) = Len(o) + 1
      /\ \A i \in 1 .. Len(o) : s[i] = o[i]
      /\ s[Len(o) + 1] = e
  BY <1>3, <1>7, AppendProperties
<1> HIDE DEF s
<1>11. \A i \in 1 .. Len(o) : Up(hole, i) # hole /\ s[i].key # k
  <2>1. \A i \in 1 .. Len(o) : Up(hole, i) # hole
    BY <1>3 DEF Up
  <2> QED BY <1>5, <1>6, <1>9, <2>1
<1>12. ASSUME NEW i \in 1 .. Len(o), NEW j \in 1 .. Len(o), s[i].key = s[j].key PROVE i = j
  <2>1. Up(hole, i) = Up(hole, j)
    BY <1>5, <1>9, <1>12 DEF Unique
  <2> QED BY <1>3, <2>1 DEF Up
<1>13. Unique(s)
  <2> SUFFICES ASSUME NEW i \in 1 .. Len(o) + 1, NEW j \in 1 .. Len(o) + 1, s[i].key = s[j].key
               PROVE  i = j
    BY <1>9 DEF Unique
  <2>1. i \in 1 .. Len(o) \/ i = Len(o) + 1
    BY <1>3
  <2>2. j \in 1 .. Len(o) \/ j = Len(o) + 1
    BY <1>3
  <2> QED BY <1>7, <1>9, <1>11, <1>12, <2>1, <2>2
<1>14. ASSUME NEW p \in 1 .. Len(turns), turns[p].key # k
       PROVE  \E q \in 1 .. Len(o) :
                 /\ s[q] = turns[p]
                 /\ \A j \in 1 .. Len(o) + 1 : j > q =>
                       s[j].key = k \/ \E i \in 1 .. Len(turns) : i > p /\ s[j] = turns[i]
  <2> DEFINE q == IF p < hole THEN p ELSE p - 1
  <2>1. p # hole
    BY <1>6, <1>14
  <2>2. q \in 1 .. Len(o)
    BY <1>1, <1>3, <1>4, <2>1
  <2>2a. Up(hole, q) = p
    BY <1>1, <2>1 DEF Up
  <2> HIDE DEF q
  <2>3. s[q] = turns[p]
    BY <1>5, <1>9, <2>2, <2>2a
  <2>4. ASSUME NEW j \in 1 .. Len(o) + 1, j > q, s[j].key # k
        PROVE  \E i \in 1 .. Len(turns) : i > p /\ s[j] = turns[i]
    <3>1. j \in 1 .. Len(o)
      BY <1>3, <1>7, <1>9, <2>4
    <3>2. Up(hole, j) \in 1 .. Len(turns) /\ s[j] = turns[Up(hole, j)]
      BY <1>5, <1>9, <3>1
    <3>3. Up(hole, j) > p
      BY <1>3, <2>2, <2>2a, <2>4, <3>1 DEF Up
    <3> QED BY <3>2, <3>3
  <2> QED BY <2>2, <2>3, <2>4
<1>15. Len(s) \in 1 .. Len(turns) + 1 /\ Len(s) - 1 = Len(o)
  <2>1. Len(o) <= Len(turns)
    BY <1>1, <1>2c, <1>4
  <2>2. Len(s) = Len(o) + 1
    BY <1>9
  <2> QED BY <1>1, <1>3, <2>1, <2>2
<1>15a. Len(o) + 1 = Len(s)
  BY <1>9
<1>16. s[Len(s)] = [key |-> k, next |-> x]
  BY <1>9 DEF e
<1>17. \A p \in 1 .. Len(turns) : turns[p].key # k =>
          \E q \in 1 .. Len(s) - 1 :
             /\ s[q] = turns[p]
             /\ \A j \in 1 .. Len(s) : j > q =>
                   s[j].key = k \/ \E i \in 1 .. Len(turns) : i > p /\ s[j] = turns[i]
  <2> SUFFICES ASSUME NEW p \in 1 .. Len(turns), turns[p].key # k
               PROVE  \E q \in 1 .. Len(s) - 1 :
                         /\ s[q] = turns[p]
                         /\ \A j \in 1 .. Len(s) : j > q =>
                               s[j].key = k \/ \E i \in 1 .. Len(turns) : i > p /\ s[j] = turns[i]
    OBVIOUS
  <2>1. PICK q \in 1 .. Len(o) :
           /\ s[q] = turns[p]
           /\ \A j \in 1 .. Len(o) + 1 : j > q => s[j].key = k \/ \E i \in 1 .. Len(turns) : i > p /\ s[j] = turns[i]
    BY <1>14
  <2>2. q \in 1 .. Len(s) - 1
    BY <1>15, <2>1
  <2> QED BY <1>15a, <2>1, <2>2
<1> QED BY <1>8, <1>9, <1>13, <1>15, <1>16, <1>17

\* Taking the oldest entries away leaves the others in their order.
LEMMA DropPlaces ==
  ASSUME NEW T \in Seq(Entry), Unique(T), NEW d \in 0 .. Len(T)
  PROVE  LET u == SubSeq(T, d + 1, Len(T))
         IN  /\ u \in Seq(Entry) /\ Unique(u) /\ Len(u) = Len(T) - d
             /\ \A i \in 1 .. Len(u) : i + d \in 1 .. Len(T) /\ u[i] = T[i + d]
<1> DEFINE u == SubSeq(T, d + 1, Len(T))
<1>1. Len(T) \in Nat /\ \A i \in 1 .. Len(T) : T[i] \in Entry
  BY ElementOfSeq
<1>2. \A i \in d + 1 .. Len(T) : T[i] \in Entry
  BY <1>1
<1>3. /\ u \in Seq(Entry)
      /\ Len(u) = IF d + 1 <= Len(T) THEN Len(T) - (d + 1) + 1 ELSE 0
      /\ \A i \in 1 .. Len(T) - (d + 1) + 1 : u[i] = T[(d + 1) + i - 1]
  BY <1>1, <1>2, SubSeqProperties
<1> HIDE DEF u
<1>4. Len(u) = Len(T) - d
  BY <1>1, <1>3
<1>5. \A i \in 1 .. Len(T) - d : i + d \in 1 .. Len(T) /\ u[i] = T[i + d]
  <2> SUFFICES ASSUME NEW i \in 1 .. Len(T) - d PROVE i + d \in 1 .. Len(T) /\ u[i] = T[i + d]
    OBVIOUS
  <2>1. i \in 1 .. Len(T) - (d + 1) + 1 /\ (d + 1) + i - 1 = i + d /\ i + d \in 1 .. Len(T)
    BY <1>1
  <2> QED BY <1>3, <2>1
<1>6. Unique(u)
  <2> SUFFICES ASSUME NEW i \in 1 .. Len(T) - d, NEW j \in 1 .. Len(T) - d, u[i].key = u[j].key
               PROVE  i = j
    BY <1>4 DEF Unique
  <2>1. i + d = j + d
    BY <1>5 DEF Unique
  <2> QED BY <1>1, <2>1
<1>7. u \in Seq(Entry) /\ Unique(u) /\ Len(u) = Len(T) - d
      /\ \A i \in 1 .. Len(u) : i + d \in 1 .. Len(T) /\ u[i] = T[i + d]
  BY <1>3, <1>4, <1>5, <1>6
<1> QED BY <1>7 DEF u

\* Eviction drops the oldest entries, and none unless the table is full without them.
LEMMA EvictedPlaces ==
  ASSUME NEW T \in Seq(Entry), Unique(T)
  PROVE  \E d \in 0 .. Len(T) :
            /\ Evicted(T) \in Seq(Entry) /\ Unique(Evicted(T)) /\ Len(Evicted(T)) = Len(T) - d
            /\ \A i \in 1 .. Len(Evicted(T)) : i + d \in 1 .. Len(T) /\ Evicted(T)[i] = T[i + d]
            /\ Capacity > 0 => Len(Evicted(T)) <= Capacity
            /\ d > 0 => Capacity > 0 /\ Len(Evicted(T)) = Capacity
<1>1. Len(T) \in Nat /\ Capacity \in Nat
  BY CapacityAssumption
<1>2. CASE Capacity = 0 \/ Len(T) <= Capacity
  <2>1. Evicted(T) = T
    BY <1>2 DEF Evicted
  <2>2. /\ 0 \in 0 .. Len(T) /\ Len(T) = Len(T) - 0 /\ ~(0 > 0)
        /\ \A i \in 1 .. Len(T) : i + 0 = i
        /\ Capacity > 0 => Len(T) <= Capacity
    BY <1>1, <1>2
  <2> QED BY <2>1, <2>2
<1>3. CASE ~(Capacity = 0 \/ Len(T) <= Capacity)
  <2> DEFINE d == Len(T) - Capacity
  <2>1. d \in 0 .. Len(T) /\ Capacity > 0 /\ Len(T) - d = Capacity
    BY <1>1, <1>3
  <2>2. Evicted(T) = SubSeq(T, d + 1, Len(T))
    BY <1>3 DEF Evicted
  <2> HIDE DEF d
  <2>3. /\ Evicted(T) \in Seq(Entry) /\ Unique(Evicted(T)) /\ Len(Evicted(T)) = Len(T) - d
        /\ \A i \in 1 .. Len(Evicted(T)) : i + d \in 1 .. Len(T) /\ Evicted(T)[i] = T[i + d]
    BY <2>1, <2>2, DropPlaces
  <2>4. Len(Evicted(T)) = Capacity /\ Len(Evicted(T)) <= Capacity
    BY <1>1, <2>1, <2>3
  <2> QED BY <2>1, <2>3, <2>4
<1> QED BY <1>2, <1>3

\* Behind an entry there are no more keys than may be there.
LEMMA FewBehind ==
  ASSUME NEW T \in Seq(Entry), Unique(T), NEW p \in 1 .. Len(T), NEW s, IsFiniteSet(s),
         \A q \in 1 .. Len(T) : q > p => T[q].key \in s
  PROVE  Cardinality(s) \in Nat /\ Len(T) - p <= Cardinality(s)
<1> DEFINE f == [q \in p + 1 .. Len(T) |-> T[q].key]
<1>1. Len(T) \in Nat /\ p + 1 \in Int /\ \A q \in p + 1 .. Len(T) : q \in 1 .. Len(T) /\ q > p
  OBVIOUS
<1>2. f \in [p + 1 .. Len(T) -> s]
  BY <1>1
<1>3. IsInjective(f)
  BY <1>1 DEF IsInjective, Unique
<1>4. f \in Injection(p + 1 .. Len(T), s)
  BY <1>2, <1>3 DEF Injection
<1>5. Cardinality(p + 1 .. Len(T)) <= Cardinality(s)
  BY <1>4, FS_Injection
<1>6. Cardinality(p + 1 .. Len(T)) = IF p + 1 > Len(T) THEN 0 ELSE Len(T) - (p + 1) + 1
  <2> DEFINE a == p + 1
             b == Len(T)
  <2>1. a \in Int /\ b \in Int
    BY <1>1
  <2> HIDE DEF a, b
  <2>2. Cardinality(a .. b) = IF a > b THEN 0 ELSE b - a + 1
    BY <2>1, FS_Interval
  <2> QED BY <2>2 DEF a, b
<1>7. Cardinality(s) \in Nat
  BY FS_CardinalityType
<1> QED BY <1>1, <1>5, <1>6, <1>7

\* The start of a key is what its entry says.
LEMMA TurnOfPlace ==
  ASSUME NEW T \in Seq(Entry), Unique(T), NEW p \in 1 .. Len(T)
  PROVE  /\ \E i \in DOMAIN T : T[i].key = T[p].key
         /\ T[CHOOSE i \in DOMAIN T : T[i].key = T[p].key].next = T[p].next
<1>1. p \in DOMAIN T /\ DOMAIN T = 1 .. Len(T)
  OBVIOUS
<1> QED BY <1>1 DEF Unique

-----------------------------------------------------------------------------
(* The heads of one list *)

LEMMA Remainder ==
  ASSUME NEW t \in Nat, NEW n \in Nat, n > 1
  PROVE  /\ t % n \in 0 .. n - 1
         /\ ((t % n) + 1) % n = IF (t % n) + 1 < n THEN (t % n) + 1 ELSE 0
         /\ t < n => t % n = t
<1>1. t % n \in 0 .. n - 1
  OBVIOUS
<1>2. \A s \in 0 .. n - 1 : s + 1 < n => (s + 1) % n = s + 1
  OBVIOUS
<1>3. \A s \in 0 .. n - 1 : ~(s + 1 < n) => s + 1 = n
  OBVIOUS
<1>4. n % n = 0
  OBVIOUS
<1>5. t < n => t % n = t
  OBVIOUS
<1> QED BY <1>1, <1>2, <1>3, <1>4, <1>5

\* The head of a rotated list is who stands at the start.
LEMMA RotatedHead ==
  ASSUME NEW S, NEW l \in Seq(S), NEW s \in 0 .. Len(l) - 1
  PROVE  Head(RotateLeft(l, s)) = l[s + 1] /\ l[s + 1] \in S
<1>1. Len(l) \in Nat /\ s \in 0 .. Len(l) /\ 1 \in 1 .. Len(l) /\ 1 + s <= Len(l) /\ 1 + s = s + 1
  OBVIOUS
<1> DEFINE q == RotateLeft(l, s)
<1>2. q \in Seq(S) /\ Len(q) = Len(l) /\ q[1] = l[1 + s]
  BY <1>1, RotateLeftPlaces
<1>3. l[s + 1] \in S
  BY <1>1, ElementOfSeq
<1> HIDE DEF q
<1>4. Head(q) = q[1]
  BY <1>1, <1>2
<1> QED BY <1>1, <1>2, <1>3, <1>4 DEF q

Who == Candidates \cup Apis

LEMMA HeadedIsTyped ==
  ASSUME NEW h \in Heads, NEW l \in Seq(Who), Len(l) > 1, NEW x \in Who
  PROVE  Headed(h, l, x) \in Heads
<1> DEFINE g == Headed(h, l, x)
           rest == IF Len(h.first) = Len(l) THEN Tail(h.first) ELSE h.first
<1>1. h.first \in Seq(Who)
  BY DEF Heads, Who
<1>2. rest \in Seq(Who)
  <2>1. Len(h.first) = Len(l) => h.first # <<>>
    OBVIOUS
  <2> QED BY <1>1, <2>1, HeadTailProperties
<1>3. g = [list |-> l, first |-> IF h.list # l THEN <<x>> ELSE Append(rest, x)]
  BY DEF Headed
<1> HIDE DEF rest
<1>4. <<x>> \in Seq(Who) /\ Append(rest, x) \in Seq(Who)
  BY <1>2, AppendProperties
<1>5. (IF h.list # l THEN <<x>> ELSE Append(rest, x)) \in Seq(Who)
  BY <1>4
<1> QED BY <1>3, <1>5 DEF Heads, Who

\* One more turn in an unchanged list, or the first in another one.
LEMMA HeadedFollows ==
  ASSUME NEW h \in Heads, NEW l \in Seq(Who), Len(l) > 1, IsInjective(l),
         NEW t \in Nat, h.first # <<>> => Follows(h, t),
         NEW s \in 0 .. Len(l) - 1, s = t % Len(l)
  PROVE  Follows(Headed(h, l, l[s + 1]), (s + 1) % Len(l))
<1> DEFINE n == Len(l)
           u == (s + 1) % n
           x == l[s + 1]
           first == Headed(h, l, x).first
           At(k) == IF k > 0 THEN k ELSE k + n
<1>1. n \in Nat /\ n > 1
  OBVIOUS
<1>2. s \in 0 .. n - 1 /\ u = (IF s + 1 < n THEN s + 1 ELSE 0) /\ (t < n => s = t)
  BY <1>1, Remainder
<1>0. h.first \in Seq(Who)
  BY DEF Heads, Who
<1>3. x \in Who
  BY <1>1, <1>2, ElementOfSeq
<1>4. Headed(h, l, x).list = l
  BY DEF Headed
<1> SUFFICES /\ first \in Seq(Who) /\ Len(first) \in 1 .. n
             /\ \A i \in 1 .. Len(first) : first[i] = l[At(u - Len(first) + i)]
  <2>1. ASSUME first \in Seq(Who), Len(first) \in 1 .. n,
               \A i \in 1 .. Len(first) : first[i] = l[At(u - Len(first) + i)]
        PROVE  first # <<>> /\ Follows(Headed(h, l, x), u)
    <3>1. first # <<>>
      BY <2>1
    <3>2. u \in 0 .. n - 1
      BY <1>1, <1>2
    <3> QED BY <1>1, <1>4, <2>1, <3>1, <3>2 DEF Follows
  <2> QED BY <1>4, <2>1
<1> HIDE DEF n, u, x
<1>5. CASE h.list # l \/ h.first = <<>>
  <2>1. first = <<x>>
    <3>1. CASE h.list # l
      BY <3>1 DEF Headed
    <3>2. CASE h.list = l /\ h.first = <<>>
      <4>1. Len(h.first) # Len(l)
        BY <1>1, <3>2 DEF n
      <4> QED BY <3>2, <4>1 DEF Headed
    <3> QED BY <1>5, <3>1, <3>2
  <2> HIDE DEF first
  <2>2. first \in Seq(Who) /\ Len(first) = 1 /\ first[1] = x
    BY <1>3, <2>1
  <2>3. At(u - 1 + 1) = s + 1
    BY <1>1, <1>2
  <2> HIDE DEF At
  <2>4. \A i \in 1 .. 1 : i = 1
    OBVIOUS
  <2> QED BY <1>1, <2>2, <2>3, <2>4 DEF x
<1>6. CASE h.list = l /\ h.first # <<>>
  <2> DEFINE m == Len(h.first)
  <2>1. Follows(h, t)
    BY <1>6
  <2>2. m \in 1 .. n /\ t \in 0 .. n - 1 /\ s = t
    BY <1>1, <1>2, <1>6, <2>1 DEF Follows, n
  <2>3. \A i \in 1 .. m : h.first[i] = l[At(t - m + i)]
    BY <1>6, <2>1 DEF Follows, n
  <2>4. CASE m = n
    <3> DEFINE tail == Tail(h.first)
    <3>1. tail \in Seq(Who) /\ Len(tail) = n - 1 /\ \A i \in 1 .. n - 1 : tail[i] = h.first[i + 1]
      BY <1>0, <1>6, <2>4, HeadTailProperties
    <3>2. first = Append(tail, x)
      BY <1>6, <2>4 DEF Headed, n
    <3> HIDE DEF tail, first
    <3>3. /\ first \in Seq(Who) /\ Len(first) = n /\ first[n] = x
          /\ \A i \in 1 .. n - 1 : first[i] = tail[i]
      <4>1. /\ first \in Seq(Who) /\ Len(first) = Len(tail) + 1 /\ first[Len(tail) + 1] = x
            /\ \A i \in 1 .. Len(tail) : first[i] = tail[i]
        BY <1>3, <3>1, <3>2, AppendProperties
      <4>2. Len(tail) + 1 = n
        BY <1>1, <3>1
      <4> QED BY <3>1, <4>1, <4>2
    <3>4. \A i \in 1 .. n - 1 : first[i] = l[At(u - n + i)]
      <4> SUFFICES ASSUME NEW i \in 1 .. n - 1 PROVE first[i] = l[At(u - n + i)]
        OBVIOUS
      <4>1. i + 1 \in 1 .. m /\ At(t - m + (i + 1)) = At(u - n + i)
        BY <1>1, <1>2, <2>2, <2>4
      <4> HIDE DEF At, m
      <4> QED BY <2>3, <3>1, <3>3, <4>1
    <3>5. At(u - n + n) = s + 1
      BY <1>1, <1>2
    <3> HIDE DEF At
    <3>6. \A i \in 1 .. n : i \in 1 .. n - 1 \/ i = n
      BY <1>1
    <3>7. n \in 1 .. n
      BY <1>1
    <3> QED BY <3>3, <3>4, <3>5, <3>6, <3>7 DEF x
  <2>5. CASE m # n
    <3> DEFINE old == h.first
    <3>1. first = Append(old, x)
      BY <1>6, <2>5 DEF Headed, n
    <3>2. m \in Nat /\ m + 1 \in 1 .. n /\ old \in Seq(Who) /\ m = Len(old)
      BY <1>0, <1>1, <2>2, <2>5
    <3>3. \A i \in 1 .. m : old[i] = l[At(t - m + i)]
      BY <2>3
    <3> HIDE DEF first, old, m
    <3>4. /\ first \in Seq(Who) /\ Len(first) = m + 1 /\ first[m + 1] = x
          /\ \A i \in 1 .. m : first[i] = old[i]
      BY <1>3, <3>1, <3>2, AppendProperties
    <3>5. \A i \in 1 .. m : first[i] = l[At(u - (m + 1) + i)]
      <4> SUFFICES ASSUME NEW i \in 1 .. m PROVE first[i] = l[At(u - (m + 1) + i)]
        OBVIOUS
      <4>1. At(t - m + i) = At(u - (m + 1) + i)
        <5>1. m \in Nat /\ m + 1 <= n /\ i \in 1 .. m
          BY <1>1, <3>2
        <5>2. n \in Nat /\ t \in 0 .. n - 1 /\ u = (IF t + 1 < n THEN t + 1 ELSE 0)
          BY <1>1, <1>2, <2>2
        <5> QED BY <5>1, <5>2
      <4> HIDE DEF At
      <4> QED BY <3>3, <3>4, <4>1
    <3>6. At(u - (m + 1) + (m + 1)) = s + 1
      BY <1>1, <1>2, <3>2
    <3> HIDE DEF At
    <3>7. \A i \in 1 .. m + 1 : i \in 1 .. m \/ i = m + 1
      BY <3>2
    <3> QED BY <3>2, <3>4, <3>5, <3>6, <3>7 DEF x
  <2> QED BY <2>4, <2>5
<1> QED BY <1>5, <1>6

\* Followed like that, nobody stands first twice.
LEMMA FollowingIsInjective ==
  ASSUME NEW S, NEW h, h.first \in Seq(S), h.list \in Seq(S), NEW t, Follows(h, t)
  PROVE  IsInjective(h.first)
<1> DEFINE n == Len(h.list)
           m == Len(h.first)
           At(i) == IF t - m + i > 0 THEN t - m + i ELSE t - m + i + n
<1>1. /\ n \in Nat /\ m \in 1 .. n /\ t \in 0 .. n - 1
      /\ DOMAIN h.list = 1 .. n /\ DOMAIN h.first = 1 .. m
      /\ \A i \in 1 .. m : h.first[i] = h.list[At(i)]
  <2>1. n \in Nat /\ m \in 1 .. n /\ t \in 0 .. n - 1
    BY DEF Follows
  <2>2. DOMAIN h.list = 1 .. n /\ DOMAIN h.first = 1 .. m
    OBVIOUS
  <2>3. \A i \in 1 .. m : h.first[i] = h.list[At(i)]
    BY DEF Follows
  <2> QED BY <2>1, <2>2, <2>3
<1> HIDE DEF n, m
<1>2. \A i \in 1 .. m : At(i) \in 1 .. n
  BY <1>1
<1>3. \A i, j \in 1 .. m : At(i) = At(j) => i = j
  BY <1>1
<1> HIDE DEF At
<1>4. \A i, j \in 1 .. m : h.first[i] = h.first[j] => At(i) = At(j)
  BY <1>1, <1>2 DEF IsInjective, Follows
<1> QED BY <1>1, <1>3, <1>4 DEF IsInjective

-----------------------------------------------------------------------------
(* A turn keeps what is known of all keys *)

LEMMA EntriesAre ==
  TurnsTypeOK <=>
    /\ turns \in Seq(Entry) /\ Unique(turns)
    /\ Capacity > 0 => Len(turns) <= Capacity
    /\ heads \in [Keys -> [Families -> Heads]]
    /\ since \in [Keys -> SUBSET Keys]
<1>1. turns \in Seq(Entry) => DOMAIN turns = 1 .. Len(turns)
  OBVIOUS
<1> QED BY <1>1 DEF TurnsTypeOK, Entry, Unique

LEMMA TurnIsNat ==
  ASSUME turns \in Seq(Entry), Unique(turns), NEW k PROVE Turn(k) \in Nat
<1>1. CASE HasEntry(k)
  <2>1. turns[Place(k)] \in Entry
    BY <1>1, EntryHasPlace, ElementOfSeq DEF HasEntry, Place
  <2> QED BY <1>1, <2>1 DEF Turn, Entry
<1>2. CASE ~HasEntry(k)
  BY <1>2 DEF Turn
<1> QED BY <1>1, <1>2

\* Where the entries are after a turn of k.
LEMMA TurnTaken ==
  ASSUME turns \in Seq(Entry), Unique(turns), NEW k \in Keys, NEW u \in Nat,
         turns' = Evicted(Seen(k, u))
  PROVE  /\ turns' \in Seq(Entry) /\ Unique(turns')
         /\ Capacity > 0 => Len(turns') <= Capacity
         /\ \E p \in 1 .. Len(turns') : turns'[p].key = k /\ turns'[p].next = u /\ p = Len(turns')
         /\ \A p \in 1 .. Len(turns), s \in SUBSET Keys :
               /\ turns[p].key # k /\ k \in s /\ IsFiniteSet(s)
               /\ \A q \in 1 .. Len(turns) : q > p => turns[q].key \in s
               /\ Capacity = 0 \/ Cardinality(s) < Capacity
               => \E q \in 1 .. Len(turns') :
                     /\ turns'[q] = turns[p]
                     /\ \A j \in 1 .. Len(turns') : j > q => turns'[j].key \in s
<1> DEFINE T == Seen(k, u)
<1>1. /\ T \in Seq(Entry) /\ Unique(T) /\ Len(T) \in 1 .. Len(turns) + 1
      /\ T[Len(T)] = [key |-> k, next |-> u]
      /\ \A p \in 1 .. Len(turns) : turns[p].key # k =>
            \E q \in 1 .. Len(T) - 1 :
               /\ T[q] = turns[p]
               /\ \A j \in 1 .. Len(T) : j > q =>
                     T[j].key = k \/ \E i \in 1 .. Len(turns) : i > p /\ T[j] = turns[i]
  BY SeenPlaces
<1> HIDE DEF T
<1>2. turns' = Evicted(T)
  BY DEF T
<1>3. PICK d \in 0 .. Len(T) :
         /\ turns' \in Seq(Entry) /\ Unique(turns') /\ Len(turns') = Len(T) - d
         /\ \A i \in 1 .. Len(turns') : i + d \in 1 .. Len(T) /\ turns'[i] = T[i + d]
         /\ Capacity > 0 => Len(turns') <= Capacity
         /\ d > 0 => Capacity > 0 /\ Len(turns') = Capacity
  BY <1>1, <1>2, EvictedPlaces
<1>4. /\ Len(T) \in Nat /\ Len(T) > 0 /\ d \in Nat /\ Len(turns') = Len(T) - d
      /\ d > 0 => Capacity > 0 /\ Len(turns') = Capacity
  <2>1. T \in Seq(Entry) /\ Len(T) \in 1 .. Len(turns) + 1
    BY <1>1
  <2> QED BY <1>3, <2>1
<1>5. \A i \in 1 .. Len(turns') : i + d \in 1 .. Len(T) /\ turns'[i] = T[i + d]
  BY <1>3
<1>6. \E p \in 1 .. Len(turns') : turns'[p].key = k /\ turns'[p].next = u /\ p = Len(turns')
  <2> DEFINE p == Len(turns')
  <2>1. p \in 1 .. Len(turns') /\ p + d = Len(T)
    BY <1>4, CapacityAssumption
  <2>2. turns'[p] = T[Len(T)]
    BY <1>5, <2>1
  <2>3. turns'[p].key = k /\ turns'[p].next = u
    BY <1>1, <2>2
  <2> QED BY <2>1, <2>3
<1>7. ASSUME NEW p \in 1 .. Len(turns), NEW s \in SUBSET Keys,
             turns[p].key # k, k \in s, IsFiniteSet(s),
             \A q \in 1 .. Len(turns) : q > p => turns[q].key \in s,
             Capacity = 0 \/ Cardinality(s) < Capacity
      PROVE  \E q \in 1 .. Len(turns') :
                /\ turns'[q] = turns[p]
                /\ \A j \in 1 .. Len(turns') : j > q => turns'[j].key \in s
  <2>1. PICK q \in 1 .. Len(T) - 1 :
           /\ T[q] = turns[p]
           /\ \A j \in 1 .. Len(T) : j > q =>
                 T[j].key = k \/ \E i \in 1 .. Len(turns) : i > p /\ T[j] = turns[i]
    BY <1>1, <1>7
  <2>2. q \in 1 .. Len(T) /\ T[q] = turns[p]
    BY <1>4, <2>1
  <2>3. \A j \in 1 .. Len(T) : j > q => T[j].key \in s
    BY <1>7, <2>1
  <2>4. Cardinality(s) \in Nat /\ Len(T) - q <= Cardinality(s)
    BY <1>1, <1>7, <2>2, <2>3, FewBehind
  <2>5. q - d \in 1 .. Len(turns') /\ (q - d) + d = q
    BY <1>4, <1>7, <2>2, <2>4, CapacityAssumption
  <2>6. turns'[q - d] = turns[p]
    BY <1>5, <2>2, <2>5
  <2>7. ASSUME NEW j \in 1 .. Len(turns'), j > q - d PROVE turns'[j].key \in s
    <3>1. j + d \in 1 .. Len(T) /\ turns'[j] = T[j + d]
      BY <1>5
    <3>2. j + d > q
      BY <1>4, <2>2, <2>7
    <3> QED BY <2>3, <3>1, <3>2
  <2> QED BY <2>5, <2>6, <2>7
<1>8. turns' \in Seq(Entry) /\ Unique(turns') /\ (Capacity > 0 => Len(turns') <= Capacity)
  BY <1>3
<1> QED BY <1>6, <1>7, <1>8

LEMMA TurnsUnchanged ==
  ASSUME UNCHANGED turnsTaken
  PROVE  (TurnsTypeOK => TurnsTypeOK') /\ (TurnsInv => TurnsInv')
<1>1. turns' = turns /\ heads' = heads /\ since' = since
  BY DEF turnsTaken
<1>2. TurnsTypeOK => TurnsTypeOK'
  BY <1>1 DEF TurnsTypeOK
<1>3. \A k : Turn(k)' = Turn(k)
  BY <1>1 DEF Turn, HasEntry, Place
<1>4. TurnsInv => TurnsInv'
  BY <1>1, <1>3 DEF TurnsInv, Kept, OneFamily, InStep
<1> QED BY <1>2, <1>4

\* A turn among one list by a key that has no other.
LEMMA TakeTurnStep ==
  ASSUME TurnsTypeOK, TurnsInv, NEW k \in Keys, NEW f \in Families,
         NEW l \in Seq(Candidates \cup Apis), IsInjective(l),
         k \notin OneStartForTwo => \E x \in Kinds : x.key = k /\ x.route = RouteOf[f],
         TakeTurn(k, f, l)
  PROVE  TurnsTypeOK' /\ TurnsInv'
<1>1. CASE Len(l) <= 1
  BY <1>1, TurnsUnchanged DEF TakeTurn
<1>2. CASE ~(Len(l) <= 1)
  <2> DEFINE s == Turn(k) % Len(l)
             u == (s + 1) % Len(l)
             h == heads[k][f]
             g == Headed(h, l, l[s + 1])
  <2>1. /\ turns \in Seq(Entry) /\ Unique(turns)
        /\ heads \in [Keys -> [Families -> Heads]] /\ since \in [Keys -> SUBSET Keys]
    BY EntriesAre
  <2>2. Len(l) \in Nat /\ Len(l) > 1
    BY <1>2
  <2>3. Turn(k) \in Nat
    BY <2>1, TurnIsNat
  <2>4. s \in 0 .. Len(l) - 1 /\ u \in Nat
    <3>1. \A n \in Nat, t \in Nat : n > 1 => t % n \in 0 .. n - 1 /\ ((t % n) + 1) % n \in Nat
      <4> SUFFICES ASSUME NEW n \in Nat, NEW t \in Nat, n > 1
                   PROVE  t % n \in 0 .. n - 1 /\ ((t % n) + 1) % n \in Nat
        OBVIOUS
      <4>1. /\ t % n \in 0 .. n - 1
            /\ ((t % n) + 1) % n = IF (t % n) + 1 < n THEN (t % n) + 1 ELSE 0
        BY Remainder
      <4> QED BY <4>1
    <3> QED BY <2>2, <2>3, <3>1
  <2>5. Head(Rotated(k, l)) = l[s + 1]
    <3>1. Rotated(k, l) = RotateLeft(l, s)
      BY <1>2 DEF Rotated
    <3> QED BY <2>4, <3>1, RotatedHead
  <2>6. /\ turns' = Evicted(Seen(k, u))
        /\ heads' = [j \in Keys |->
              CASE j = k -> [heads[k] EXCEPT ![f] = g]
                [] j # k /\ Forgotten(j, k) -> NoHeads
                [] OTHER -> heads[j]]
        /\ since' = [j \in Keys |-> IF j = k \/ Forgotten(j, k) THEN {} ELSE since[j] \cup {k}]
    BY <1>2, <2>5 DEF TakeTurn
  <2>7. /\ turns' \in Seq(Entry) /\ Unique(turns')
        /\ Capacity > 0 => Len(turns') <= Capacity
        /\ \E p \in 1 .. Len(turns') : turns'[p].key = k /\ turns'[p].next = u /\ p = Len(turns')
        /\ \A p \in 1 .. Len(turns), z \in SUBSET Keys :
              /\ turns[p].key # k /\ k \in z /\ IsFiniteSet(z)
              /\ \A q \in 1 .. Len(turns) : q > p => turns[q].key \in z
              /\ Capacity = 0 \/ Cardinality(z) < Capacity
              => \E q \in 1 .. Len(turns') :
                    /\ turns'[q] = turns[p]
                    /\ \A j \in 1 .. Len(turns') : j > q => turns'[j].key \in z
    BY <2>1, <2>4, <2>6, TurnTaken
  <2>8. h \in Heads
    BY <2>1
  <2>9. /\ l \in Seq(Candidates \cup Apis) /\ h.first \in Seq(Candidates \cup Apis)
        /\ k \notin OneStartForTwo => (h.first # <<>> => Follows(h, Turn(k)))
    BY <2>8 DEF Heads, TurnsInv, InStep
  <2> HIDE DEF s, u, h, g
  <2>10. g \in Heads /\ (k \notin OneStartForTwo => Follows(g, u))
    <3>1. l \in Seq(Who)
      BY DEF Who
    <3>2. l[s + 1] \in Who
      BY <2>4, <3>1, RotatedHead
    <3>3. Headed(h, l, l[s + 1]) \in Heads
      BY <2>2, <2>8, <3>1, <3>2, HeadedIsTyped
    <3>4. ASSUME k \notin OneStartForTwo PROVE Follows(Headed(h, l, l[s + 1]), (s + 1) % Len(l))
      <4> DEFINE t == Turn(k)
      <4>1. t \in Nat /\ (h.first # <<>> => Follows(h, t)) /\ s = t % Len(l)
        BY <2>3, <2>9, <3>4 DEF s
      <4> HIDE DEF t
      <4> QED BY <2>2, <2>4, <2>8, <3>1, <4>1, HeadedFollows
    <3> QED BY <3>3, <3>4 DEF g, u
  <2>11. heads' \in [Keys -> [Families -> Heads]] /\ since' \in [Keys -> SUBSET Keys]
    <3>1. NoHeads \in [Families -> Heads]
      <4>1. <<>> \in Seq(Candidates \cup Apis)
        BY EmptySeq
      <4> QED BY <4>1 DEF NoHeads, Heads
    <3>2. [heads[k] EXCEPT ![f] = g] \in [Families -> Heads]
      BY <2>1, <2>10
    <3> QED BY <2>1, <2>6, <3>1, <3>2
  <2>12. TurnsTypeOK'
    <3>1. DOMAIN turns' = 1 .. Len(turns')
      BY <2>7
    <3> QED BY <2>7, <2>11, <3>1 DEF TurnsTypeOK, Entry, Unique
  <2>13. /\ heads'[k] = [heads[k] EXCEPT ![f] = g] /\ since'[k] = {}
         /\ \A j \in Keys \ {k} : Forgotten(j, k) => heads'[j] = NoHeads /\ since'[j] = {}
         /\ \A j \in Keys \ {k} : ~Forgotten(j, k) => heads'[j] = heads[j] /\ since'[j] = since[j] \cup {k}
    BY <2>6
  <2>14. Turn(k)' = u /\ Kept(k)'
    <3>1. PICK p \in 1 .. Len(turns') : turns'[p].key = k /\ turns'[p].next = u /\ p = Len(turns')
      BY <2>7
    <3>2. /\ \E i \in DOMAIN turns' : turns'[i].key = turns'[p].key
          /\ turns'[CHOOSE i \in DOMAIN turns' : turns'[i].key = turns'[p].key].next = turns'[p].next
      BY <2>7, TurnOfPlace
    <3>3. Turn(k)' = u
      BY <3>1, <3>2 DEF Turn, HasEntry, Place
    <3>4. p \in DOMAIN turns' /\ \A q \in DOMAIN turns' : ~(q > p)
      <4>1. DOMAIN turns' = 1 .. Len(turns') /\ Len(turns') \in Nat
        BY <2>7
      <4> QED BY <3>1, <4>1
    <3> QED BY <3>1, <3>3, <3>4 DEF Kept
  <2>15. ASSUME NEW j \in Keys, j # k, ~Forgotten(j, k)
         PROVE  Kept(j)' /\ Turn(j)' = Turn(j) /\ IsFiniteSet(since'[j])
    <3> DEFINE z == since[j] \cup {k}
    <3>1. heads[j] # NoHeads /\ Kept(j) /\ IsFiniteSet(since[j])
      BY <2>15 DEF Forgotten, TurnsInv
    <3>2. PICK p \in DOMAIN turns : turns[p].key = j /\ \A q \in DOMAIN turns : q > p => turns[q].key \in since[j]
      BY <3>1 DEF Kept
    <3>3. DOMAIN turns = 1 .. Len(turns)
      BY <2>1
    <3>4. z \in SUBSET Keys /\ IsFiniteSet(z) /\ k \in z /\ Cardinality(z) \in Nat
      BY <2>1, <3>1, FS_AddElement, FS_CardinalityType
    <3>5. Capacity = 0 \/ Cardinality(z) < Capacity
      <4>1. ~(Capacity > 0 /\ Cardinality(z) >= Capacity)
        BY <2>15 DEF Forgotten
      <4> HIDE DEF z
      <4> QED BY <3>4, <4>1, CapacityAssumption
    <3>6. PICK q \in 1 .. Len(turns') : /\ turns'[q] = turns[p]
                                        /\ \A i \in 1 .. Len(turns') : i > q => turns'[i].key \in z
      <4>1. p \in 1 .. Len(turns) /\ turns[p].key # k /\ \A i \in 1 .. Len(turns) : i > p => turns[i].key \in z
        BY <2>15, <3>2, <3>3
      <4> HIDE DEF z
      <4> QED BY <2>7, <3>4, <3>5, <4>1
    <3>7. DOMAIN turns' = 1 .. Len(turns')
      BY <2>7
    <3>8. since'[j] = z
      BY <2>13, <2>15
    <3>9. Kept(j)'
      BY <3>2, <3>6, <3>7, <3>8 DEF Kept
    <3>10. Turn(j) = turns[p].next
      <4>1. /\ \E i \in DOMAIN turns : turns[i].key = turns[p].key
            /\ turns[CHOOSE i \in DOMAIN turns : turns[i].key = turns[p].key].next = turns[p].next
        BY <2>1, <3>2, <3>3, TurnOfPlace
      <4> QED BY <3>2, <4>1 DEF Turn, HasEntry, Place
    <3>11. Turn(j)' = turns'[q].next
      <4>1. /\ \E i \in DOMAIN turns' : turns'[i].key = turns'[q].key
            /\ turns'[CHOOSE i \in DOMAIN turns' : turns'[i].key = turns'[q].key].next = turns'[q].next
        BY <2>7, <3>6, TurnOfPlace
      <4> QED BY <3>2, <3>6, <4>1 DEF Turn, HasEntry, Place
    <3> QED BY <3>4, <3>6, <3>8, <3>9, <3>10, <3>11
  <2>16. ASSUME NEW j \in Keys PROVE Kept(j)' /\ IsFiniteSet(since'[j])
    <3>1. CASE j = k
      BY <2>13, <2>14, <3>1, FS_EmptySet
    <3>2. CASE j # k /\ Forgotten(j, k)
      BY <2>13, <3>2, FS_EmptySet DEF Kept, NoHeads
    <3>3. CASE j # k /\ ~Forgotten(j, k)
      BY <2>15, <3>3
    <3> QED BY <3>1, <3>2, <3>3
  <2>17. ASSUME NEW j \in Keys \ OneStartForTwo PROVE OneFamily(j)' /\ InStep(j)'
    <3>1. CASE j = k
      <4>1. PICK x \in Kinds : x.key = k /\ x.route = RouteOf[f]
        BY <2>17, <3>1
      <4>2. ASSUME NEW e \in Families, e # f PROVE heads[k][e].first = <<>>
        <5> SUFFICES ASSUME heads[k][e].first # <<>> PROVE FALSE
          OBVIOUS
        <5>1. PICK y \in Kinds : y.key = k /\ y.route = RouteOf[e]
          BY <2>17, <3>1 DEF TurnsInv, OneFamily
        <5>2. x.route = y.route
          BY <2>17, <3>1, <4>1, <5>1 DEF OneStartForTwo
        <5> QED BY <4>1, <4>2, <5>1, <5>2 DEF RouteOf, Families
      <4>3. heads'[k][f] = g /\ \A e \in Families : e # f => heads'[k][e].first = <<>>
        BY <2>1, <2>13, <4>2
      <4>4. Follows(g, Turn(k)')
        BY <2>10, <2>14, <2>17, <3>1
      <4> QED BY <3>1, <4>1, <4>3, <4>4 DEF OneFamily, InStep
    <3>2. CASE j # k /\ Forgotten(j, k)
      <4>1. \A e \in Families : heads'[j][e].first = <<>>
        BY <2>13, <2>17, <3>2 DEF NoHeads
      <4> QED BY <4>1 DEF OneFamily, InStep
    <3>3. CASE j # k /\ ~Forgotten(j, k)
      <4>1. heads'[j] = heads[j] /\ Turn(j)' = Turn(j)
        BY <2>13, <2>15, <2>17, <3>3
      <4> QED BY <2>17, <4>1 DEF TurnsInv, OneFamily, InStep
    <3> QED BY <3>1, <3>2, <3>3
  <2> QED BY <2>12, <2>16, <2>17 DEF TurnsInv
<1> QED BY <1>1, <1>2

-----------------------------------------------------------------------------
(* Types of the requests *)

LEMMA PoolsAreLists ==
  /\ \A pool \in ListsOf(AccountOrder) :
        pool \in Seq(Candidates) /\ IsInjective(pool) /\ Range(pool) \subseteq Candidates
  /\ \A apis \in ListsOf(ApiOrder) : apis \in Seq(Apis) /\ IsInjective(apis)
<1>1. /\ IsInjective(AccountOrder) /\ Len(AccountOrder) \in Nat
      /\ DOMAIN AccountOrder = 1 .. Len(AccountOrder)
      /\ IsInjective(ApiOrder) /\ Len(ApiOrder) \in Nat /\ DOMAIN ApiOrder = 1 .. Len(ApiOrder)
  BY OrderAssumption
<1>2. ASSUME NEW pool \in ListsOf(AccountOrder)
      PROVE  pool \in Seq(Candidates) /\ IsInjective(pool)
  BY <1>1, ListsAreInjective DEF Candidates
<1>3. ASSUME NEW apis \in ListsOf(ApiOrder)
      PROVE  apis \in Seq(Apis) /\ IsInjective(apis)
  BY <1>1, ListsAreInjective DEF Apis
<1>4. ASSUME NEW S, NEW l \in Seq(S) PROVE Range(l) \subseteq S
  BY DEF Range
<1> QED BY <1>2, <1>3, <1>4

\* Whatever puts the pool in order, the request gets all of it and nobody twice.
LEMMA RotatedPool ==
  ASSUME NEW pool \in Seq(Candidates), IsInjective(pool), pool # <<>>, NEW n \in 0 .. Len(pool)
  PROVE  LET l == RotateLeft(pool, n)
         IN  /\ l \in Seq(Candidates) /\ IsInjective(l) /\ l # <<>>
             /\ Range(l) = Range(pool)
<1>1. Len(pool) \in Nat /\ Len(pool) > 0
  BY EmptySeq
<1>2. RotateLeft(pool, n) \in Seq(Candidates) /\ Len(RotateLeft(pool, n)) = Len(pool)
  BY RotateLeftPlaces
<1>3. RotateLeft(pool, n) # <<>>
  BY <1>1, <1>2
<1> QED BY <1>2, <1>3, RotateLeftIsInjective

LEMMA RotateToPlace ==
  ASSUME NEW pool \in Seq(Candidates), NEW a \in Range(pool)
  PROVE  \E n \in 0 .. Len(pool) : RotateTo(pool, a) = RotateLeft(pool, n)
<1>1. PICK i \in 1 .. Len(pool) : pool[i] = a
  BY DEF Range
<1>2. i - 1 \in 0 .. Len(pool) - 1 /\ pool[(i - 1) + 1] = a
  BY <1>1
<1>3. (CHOOSE n \in 0 .. Len(pool) - 1 : pool[n + 1] = a) \in 0 .. Len(pool) - 1
  BY <1>2
<1>4. \A n \in 0 .. Len(pool) - 1 : n \in 0 .. Len(pool)
  OBVIOUS
<1> QED BY <1>3, <1>4 DEF RotateTo

LEMMA RoutedList ==
  ASSUME RoutingTypeOK, NEW r \in Requests, NEW pool \in Seq(Candidates), IsInjective(pool),
         Route(r, pool)
  PROVE  \E l \in Seq(Candidates) :
            /\ IsInjective(l) /\ l # <<>> /\ Range(l) = Range(pool)
            /\ list' = [list EXCEPT ![r] = l]
<1>1. pool # <<>>
  BY DEF Route
<1>2. CASE /\ Pinned(r, pool) # None
           /\ list' = [list EXCEPT ![r] = RotateTo(pool, Pinned(r, pool))]
  <2>1. Pinned(r, pool) \in Range(pool)
    BY <1>2 DEF Pinned
  <2>2. PICK n \in 0 .. Len(pool) : RotateTo(pool, Pinned(r, pool)) = RotateLeft(pool, n)
    BY <2>1, RotateToPlace
  <2> QED BY <1>1, <1>2, <2>2, RotatedPool
<1>3. CASE list' = [list EXCEPT ![r] = pool]
  BY <1>1, <1>3
<1>4. CASE list' = [list EXCEPT ![r] = Rotated(kind[r].key, pool)]
  <2> DEFINE k == kind[r].key
  <2>1. CASE Len(pool) <= 1
    BY <1>1, <1>4, <2>1 DEF Rotated
  <2>2. CASE ~(Len(pool) <= 1)
    <3>1. Turn(k) \in Nat /\ Len(pool) \in Nat
      BY EntriesAre, TurnIsNat DEF RoutingTypeOK
    <3>2. \A t \in Nat, m \in Nat : m > 1 => t % m \in 0 .. m
      <4> SUFFICES ASSUME NEW t \in Nat, NEW m \in Nat, m > 1 PROVE t % m \in 0 .. m
        OBVIOUS
      <4>1. t % m \in 0 .. m - 1
        BY Remainder
      <4> QED BY <4>1
    <3>3. Turn(k) % Len(pool) \in 0 .. Len(pool)
      BY <2>2, <3>1, <3>2
    <3>4. Rotated(k, pool) = RotateLeft(pool, Turn(k) % Len(pool))
      BY <2>2 DEF Rotated
    <3> HIDE DEF k
    <3> QED BY <1>1, <1>4, <3>3, <3>4, RotatedPool DEF k
  <2> QED BY <2>1, <2>2
<1> QED BY <1>2, <1>3, <1>4 DEF Route

\* A request that ends has nothing left.
LEMMA FinishedTypeOK ==
  ASSUME RequestsTypeOK, NEW r \in Requests, Finished(r) PROVE RequestsTypeOK'
<1>1. <<>> \in Seq(Candidates) /\ IsInjective(<<>>) /\ Range(<<>>) = {}
  BY EmptySeq DEF IsInjective, Range
<1> HIDE DEF IsInjective, Range
<1>2. /\ pc' \in [Requests -> {"idle", "accounts", "trying", "apis"}]
      /\ kind' \in [Requests -> Kinds \cup {None}]
      /\ copy' \in [Requests -> Candidates \cup {None}]
      /\ offered' \in [Requests -> SUBSET Candidates]
      /\ list' \in [Requests -> Seq(Candidates)]
  BY <1>1 DEF RequestsTypeOK, Finished, Goto
<1>3. ASSUME NEW q \in Requests PROVE RequestTypeOK(q)'
  <2>1. CASE q = r
    BY <1>1, <2>1 DEF RequestsTypeOK, RequestTypeOK, Finished, Goto
  <2>2. CASE q # r
    <3>1. /\ pc'[q] = pc[q] /\ kind'[q] = kind[q] /\ offered'[q] = offered[q] /\ list'[q] = list[q]
      BY <2>2 DEF RequestsTypeOK, Finished, Goto
    <3> QED BY <3>1 DEF RequestsTypeOK, RequestTypeOK
  <2> QED BY <2>1, <2>2
<1> QED BY <1>2, <1>3 DEF RequestsTypeOK

RequestStep(r) ==
    \/ \E k \in Kinds : Begin(r, k)
    \/ \E pool \in ListsOf(AccountOrder) : Route(r, pool)
    \/ NoAccount(r) \/ FailOver(r) \/ RespondTerminal(r)
    \/ \E apis \in ListsOf(ApiOrder) : RotateApis(r, apis)
    \/ \E status \in {"success", "error"} : Answer(r, status)

OtherStep ==
    \/ Expire
    \/ \E m \in {"ordered", "balanced"} : SetRouteStrategy(m)
    \/ \E a \in Candidates \cup {None} : SetPreferredAccount(a)
    \/ \E a \in Candidates : DeleteAccount(a)

LEMMA RoutingNextIs == RoutingNext <=> OtherStep \/ \E r \in Requests : RequestStep(r)
  BY DEF RoutingNext, OtherStep, RequestStep

\* A step of one request leaves the others as they are.
LEMMA OneRequestTypeOK ==
  ASSUME RequestsTypeOK, NEW r \in Requests,
         NEW p \in {"idle", "accounts", "trying", "apis"}, NEW k \in Kinds,
         NEW c \in Candidates \cup {None}, NEW o \in SUBSET Candidates, NEW l \in Seq(Candidates),
         pc' = [pc EXCEPT ![r] = p], kind' = [kind EXCEPT ![r] = k], copy' = [copy EXCEPT ![r] = c],
         offered' = [offered EXCEPT ![r] = o], list' = [list EXCEPT ![r] = l],
         p \in {"accounts", "trying"} => k.route # "AggregateApi",
         p = "apis" => k.route # "AccountRotation",
         p = "trying" => l # <<>>,
         Range(l) \subseteq o, IsInjective(l)
  PROVE  RequestsTypeOK'
<1>1. /\ pc' \in [Requests -> {"idle", "accounts", "trying", "apis"}]
      /\ kind' \in [Requests -> Kinds \cup {None}]
      /\ copy' \in [Requests -> Candidates \cup {None}]
      /\ offered' \in [Requests -> SUBSET Candidates]
      /\ list' \in [Requests -> Seq(Candidates)]
  BY DEF RequestsTypeOK
<1>2. ASSUME NEW q \in Requests PROVE RequestTypeOK(q)'
  <2>1. CASE q = r
    <3>1. pc'[q] = p /\ kind'[q] = k /\ offered'[q] = o /\ list'[q] = l
      BY <2>1 DEF RequestsTypeOK
    <3> QED BY <3>1 DEF RequestTypeOK
  <2>2. CASE q # r
    <3>1. /\ pc'[q] = pc[q] /\ kind'[q] = kind[q] /\ offered'[q] = offered[q] /\ list'[q] = list[q]
      BY <2>2 DEF RequestsTypeOK
    <3> QED BY <3>1 DEF RequestsTypeOK, RequestTypeOK
  <2> QED BY <2>1, <2>2
<1> QED BY <1>1, <1>2 DEF RequestsTypeOK

LEMMA RequestIs ==
  ASSUME RequestsTypeOK, NEW r \in Requests
  PROVE  /\ copy[r] \in Candidates \cup {None} /\ offered[r] \in SUBSET Candidates
         /\ list[r] \in Seq(Candidates) /\ RequestTypeOK(r)
         /\ pc[r] # "idle" => kind[r] \in Kinds
         /\ kind = [kind EXCEPT ![r] = kind[r]] /\ copy = [copy EXCEPT ![r] = copy[r]]
         /\ offered = [offered EXCEPT ![r] = offered[r]] /\ list = [list EXCEPT ![r] = list[r]]
         /\ pc = [pc EXCEPT ![r] = pc[r]]
  BY DEF RequestsTypeOK, RequestTypeOK

LEMMA RequestsStepTypeOK ==
  ASSUME RoutingTypeOK, NEW r \in Requests, RequestStep(r) PROVE RequestsTypeOK'
<1> USE DEF RoutingTypeOK
<1>1. ASSUME NEW k \in Kinds, Begin(r, k) PROVE RequestsTypeOK'
  <2> DEFINE p == IF k.route = "AggregateApi" THEN "apis" ELSE "accounts"
             c == IF k.conversation = None THEN None ELSE binding[k.conversation]
  <2>1. c \in Candidates \cup {None}
    BY DEF Conversations
  <2>2. /\ pc' = [pc EXCEPT ![r] = p] /\ kind' = [kind EXCEPT ![r] = k] /\ copy' = [copy EXCEPT ![r] = c]
        /\ offered' = [offered EXCEPT ![r] = offered[r]] /\ list' = [list EXCEPT ![r] = list[r]]
    BY <1>1, RequestIs DEF Begin, Goto
  <2>3. /\ p \in {"accounts", "apis"}
        /\ p = "accounts" => k.route # "AggregateApi"
        /\ p = "apis" => k.route # "AccountRotation"
    OBVIOUS
  <2> HIDE DEF p, c
  <2>4. Range(list[r]) \subseteq offered[r] /\ IsInjective(list[r])
    BY RequestIs DEF RequestTypeOK
  <2> QED BY <2>1, <2>2, <2>3, <2>4, RequestIs, OneRequestTypeOK
<1>2. ASSUME NEW pool \in ListsOf(AccountOrder), Route(r, pool) PROVE RequestsTypeOK'
  <2>1. pool \in Seq(Candidates) /\ IsInjective(pool) /\ Range(pool) \in SUBSET Candidates
    BY PoolsAreLists
  <2>2. PICK l \in Seq(Candidates) : /\ IsInjective(l) /\ l # <<>> /\ Range(l) = Range(pool)
                                     /\ list' = [list EXCEPT ![r] = l]
    BY <1>2, <2>1, RoutedList
  <2>3. pc[r] = "accounts" /\ kind[r] \in Kinds /\ kind[r].route # "AggregateApi"
    BY <1>2, RequestIs DEF Route, RequestTypeOK
  <2>4. /\ pc' = [pc EXCEPT ![r] = "trying"] /\ offered' = [offered EXCEPT ![r] = Range(pool)]
        /\ kind' = [kind EXCEPT ![r] = kind[r]] /\ copy' = [copy EXCEPT ![r] = copy[r]]
    BY <1>2, RequestIs DEF Route, Goto
  <2>5. copy[r] \in Candidates \cup {None}
    BY RequestIs
  <2> HIDE DEF RoutingTypeOK
  <2>6. RequestsTypeOK
    BY DEF RoutingTypeOK
  <2> QED BY <2>1, <2>2, <2>3, <2>4, <2>5, <2>6, OneRequestTypeOK
<1>3. CASE NoAccount(r)
  <2>1. CASE Finished(r)
    BY <2>1, FinishedTypeOK
  <2>2. CASE ~Finished(r)
    <3>1. /\ pc[r] = "accounts" /\ kind[r].route = "HybridAccountFirst"
          /\ pc' = [pc EXCEPT ![r] = "apis"] /\ UNCHANGED <<kind, copy, offered, list>>
      BY <1>3, <2>2 DEF NoAccount, Goto
    <3> QED BY <3>1 DEF RequestsTypeOK, RequestTypeOK
  <2> QED BY <2>1, <2>2
<1>4. CASE FailOver(r)
  <2>1. CASE Finished(r)
    BY <2>1, FinishedTypeOK
  <2>2. CASE Len(list[r]) > 1 /\ list' = [list EXCEPT ![r] = Tail(@)] /\ UNCHANGED <<pc, kind, copy, offered>>
    <3> DEFINE l == Tail(list[r])
    <3>1. pc[r] = "trying" /\ kind[r] \in Kinds /\ kind[r].route # "AggregateApi"
      BY <1>4, RequestIs DEF FailOver, RequestTypeOK
    <3>2. list[r] \in Seq(Candidates) /\ IsInjective(list[r]) /\ Range(list[r]) \subseteq offered[r] /\ list[r] # <<>>
      BY <3>1, RequestIs DEF RequestTypeOK
    <3>3. l \in Seq(Candidates) /\ IsInjective(l) /\ Range(l) \subseteq Range(list[r])
      BY <3>2, TailIsInjective
    <3>4. l # <<>>
      <4>1. Len(list[r]) > 1
        BY <2>2
      <4> QED BY <3>2, <4>1, TailOfLonger
    <3>5. list' = [list EXCEPT ![r] = l] /\ UNCHANGED <<pc, kind, copy, offered>>
      BY <2>2
    <3>6. /\ kind' = [kind EXCEPT ![r] = kind[r]] /\ copy' = [copy EXCEPT ![r] = copy[r]]
          /\ offered' = [offered EXCEPT ![r] = offered[r]] /\ pc' = [pc EXCEPT ![r] = "trying"]
      BY <3>1, <3>5, RequestIs
    <3>7. copy[r] \in Candidates \cup {None} /\ offered[r] \in SUBSET Candidates /\ RequestsTypeOK
      BY RequestIs
    <3> HIDE DEF l, RoutingTypeOK
    <3> QED BY <3>1, <3>2, <3>3, <3>4, <3>5, <3>6, <3>7, OneRequestTypeOK
  <2>3. CASE /\ kind[r].route = "HybridAccountFirst" /\ list' = [list EXCEPT ![r] = <<>>]
             /\ Goto(r, "apis") /\ UNCHANGED <<kind, copy, offered>>
    <3>1. <<>> \in Seq(Candidates) /\ IsInjective(<<>>) /\ Range(<<>>) = {}
      BY EmptySeq DEF IsInjective, Range
    <3>2. pc[r] = "trying" /\ kind[r] \in Kinds
      BY <1>4, RequestIs DEF FailOver
    <3>3. /\ kind' = [kind EXCEPT ![r] = kind[r]] /\ copy' = [copy EXCEPT ![r] = copy[r]]
          /\ offered' = [offered EXCEPT ![r] = offered[r]] /\ pc' = [pc EXCEPT ![r] = "apis"]
      BY <2>3, RequestIs DEF Goto
    <3>4. copy[r] \in Candidates \cup {None} /\ offered[r] \in SUBSET Candidates /\ RequestsTypeOK
      BY RequestIs
    <3> HIDE DEF RoutingTypeOK
    <3> QED BY <2>3, <3>1, <3>2, <3>3, <3>4, OneRequestTypeOK
  <2> QED BY <1>4, <2>1, <2>2, <2>3 DEF FailOver
<1>5. CASE RespondTerminal(r)
  BY <1>5, FinishedTypeOK DEF RespondTerminal
<1>6. ASSUME NEW apis \in ListsOf(ApiOrder), RotateApis(r, apis) PROVE RequestsTypeOK'
  BY <1>6, FinishedTypeOK DEF RotateApis
<1>7. ASSUME NEW status \in {"success", "error"}, Answer(r, status) PROVE RequestsTypeOK'
  BY <1>7, FinishedTypeOK DEF Answer
<1> QED BY <1>1, <1>2, <1>3, <1>4, <1>5, <1>6, <1>7 DEF RequestStep

-----------------------------------------------------------------------------
(* The other steps that change turns *)

\* An entry that stays as it is keeps the start of its key.
LEMMA SameTurn ==
  ASSUME turns \in Seq(Entry), Unique(turns), turns' \in Seq(Entry), Unique(turns'),
         NEW CONSTANT p \in 1 .. Len(turns), NEW CONSTANT q \in 1 .. Len(turns'),
         turns'[q] = turns[p], NEW CONSTANT j, turns[p].key = j
  PROVE  Turn(j)' = Turn(j)
<1>1. Turn(j) = turns[p].next
  <2>1. /\ \E i \in DOMAIN turns : turns[i].key = turns[p].key
        /\ turns[CHOOSE i \in DOMAIN turns : turns[i].key = turns[p].key].next = turns[p].next
    BY TurnOfPlace
  <2> QED BY <2>1 DEF Turn, HasEntry, Place
<1>2. Turn(j)' = turns'[q].next
  <2>1. /\ \E i \in DOMAIN turns' : turns'[i].key = turns'[q].key
        /\ turns'[CHOOSE i \in DOMAIN turns' : turns'[i].key = turns'[q].key].next = turns'[q].next
    BY TurnOfPlace
  <2> QED BY <2>1 DEF Turn, HasEntry, Place
<1> QED BY <1>1, <1>2

LEMMA NothingKept ==
  ASSUME NEW j \in Keys, heads[j] = NoHeads PROVE Kept(j) /\ OneFamily(j) /\ InStep(j)
BY DEF Kept, OneFamily, InStep, NoHeads, Families

LEMMA NoHeadsIsTyped == NoHeads \in [Families -> Heads]
<1>1. <<>> \in Seq(Candidates \cup Apis)
  BY EmptySeq
<1> QED BY <1>1 DEF NoHeads, Heads

\* The oldest entry goes, and what is remembered of its key with it.
LEMMA ExpireStep ==
  ASSUME TurnsTypeOK, TurnsInv, Expire PROVE TurnsTypeOK' /\ TurnsInv'
<1> DEFINE k == turns[1].key
<1>1. /\ turns \in Seq(Entry) /\ Unique(turns)
      /\ Capacity > 0 => Len(turns) <= Capacity
      /\ heads \in [Keys -> [Families -> Heads]] /\ since \in [Keys -> SUBSET Keys]
  BY EntriesAre
<1>2. turns # <<>> /\ turns' = Tail(turns)
  BY DEF Expire
<1>3. Len(turns) \in Nat /\ Len(turns) > 0
  BY <1>1, <1>2, EmptySeq
<1>4. turns' = SubSeq(turns, 1 + 1, Len(turns))
  BY <1>1, <1>2, TailIsSubSeq
<1>5. /\ turns' \in Seq(Entry) /\ Unique(turns') /\ Len(turns') = Len(turns) - 1
      /\ \A i \in 1 .. Len(turns') : i + 1 \in 1 .. Len(turns) /\ turns'[i] = turns[i + 1]
  <2> DEFINE u == SubSeq(turns, 1 + 1, Len(turns))
  <2>1. 1 \in 0 .. Len(turns)
    BY <1>3
  <2>2. /\ u \in Seq(Entry) /\ Unique(u) /\ Len(u) = Len(turns) - 1
        /\ \A i \in 1 .. Len(u) : i + 1 \in 1 .. Len(turns) /\ u[i] = turns[i + 1]
    BY <1>1, <2>1, DropPlaces
  <2> HIDE DEF u
  <2>3. turns' = u
    BY <1>4 DEF u
  <2> QED BY <2>2, <2>3
<1>6. Head(turns).key = k /\ k \in Keys
  <2>1. turns[1] \in Entry
    BY <1>1, <1>3, ElementOfSeq
  <2>2. Head(turns) = turns[1]
    BY <1>1, <1>2
  <2> QED BY <2>1, <2>2 DEF Entry
<1>7. heads' = [heads EXCEPT ![k] = NoHeads] /\ since' = [since EXCEPT ![k] = {}]
  BY <1>6 DEF Expire
<1> HIDE DEF k
<1>8. TurnsTypeOK'
  <2>1. heads' \in [Keys -> [Families -> Heads]] /\ since' \in [Keys -> SUBSET Keys]
    BY <1>1, <1>7, NoHeadsIsTyped
  <2>2. Capacity > 0 => Len(turns') <= Capacity
    BY <1>1, <1>3, <1>5, CapacityAssumption
  <2>3. DOMAIN turns' = 1 .. Len(turns')
    BY <1>5
  <2> QED BY <1>5, <2>1, <2>2, <2>3 DEF TurnsTypeOK, Entry, Unique
<1>9. ASSUME NEW j \in Keys, j # k, heads[j] # NoHeads PROVE Kept(j)' /\ Turn(j)' = Turn(j)
  <2>1. PICK p \in DOMAIN turns : turns[p].key = j /\ \A q \in DOMAIN turns : q > p => turns[q].key \in since[j]
    BY <1>9 DEF TurnsInv, Kept
  <2>2. p \in 1 .. Len(turns) /\ p # 1
    BY <1>1, <1>9, <2>1 DEF k
  <2>3. PICK o \in 1 .. Len(turns') : o + 1 = p
    <3>1. p - 1 \in 1 .. Len(turns') /\ (p - 1) + 1 = p
      BY <1>3, <1>5, <2>2
    <3> QED BY <3>1
  <2>4. turns'[o] = turns[p]
    BY <1>5, <2>3
  <2>5. ASSUME NEW i \in 1 .. Len(turns'), i > o PROVE turns'[i].key \in since[j]
    <3>1. i + 1 \in 1 .. Len(turns) /\ i + 1 > p /\ turns'[i] = turns[i + 1]
      BY <1>5, <2>3, <2>5
    <3>2. DOMAIN turns = 1 .. Len(turns)
      BY <1>1
    <3> QED BY <2>1, <3>1, <3>2
  <2>6. DOMAIN turns' = 1 .. Len(turns') /\ since'[j] = since[j]
    BY <1>1, <1>5, <1>7, <1>9
  <2>7. Kept(j)'
    BY <2>1, <2>4, <2>5, <2>6 DEF Kept
  <2> QED BY <1>1, <1>5, <2>1, <2>2, <2>4, <2>7, SameTurn
<1>10. ASSUME NEW j \in Keys PROVE Kept(j)' /\ IsFiniteSet(since'[j]) /\ (j \notin OneStartForTwo => OneFamily(j)' /\ InStep(j)')
  <2>1. CASE j = k
    <3>1. heads'[j] = NoHeads /\ since'[j] = {}
      BY <1>1, <1>7, <2>1
    <3>2. Kept(j)' /\ OneFamily(j)' /\ InStep(j)'
      BY <3>1 DEF Kept, OneFamily, InStep, NoHeads, Families
    <3> QED BY <3>1, <3>2, FS_EmptySet
  <2>2. CASE j # k
    <3>1. heads'[j] = heads[j] /\ since'[j] = since[j]
      BY <1>1, <1>7, <2>2
    <3>2. CASE heads[j] = NoHeads
      <4>1. Kept(j)' /\ OneFamily(j)' /\ InStep(j)'
        BY <3>1, <3>2 DEF Kept, OneFamily, InStep, NoHeads, Families
      <4> QED BY <3>1, <4>1 DEF TurnsInv
    <3>3. CASE heads[j] # NoHeads
      <4>1. Kept(j)' /\ Turn(j)' = Turn(j)
        BY <1>9, <2>2, <3>3
      <4> QED BY <3>1, <4>1 DEF TurnsInv, OneFamily, InStep
    <3> QED BY <3>2, <3>3
  <2> QED BY <2>1, <2>2
<1> QED BY <1>8, <1>10 DEF TurnsInv

\* A new strategy starts everybody from the front.
LEMMA ResetStep ==
  ASSUME TurnsTypeOK, TurnsInv, NEW m, SetRouteStrategy(m) PROVE TurnsTypeOK' /\ TurnsInv'
<1>1. /\ turns' = <<>> /\ heads' = [k \in Keys |-> NoHeads] /\ since' = [k \in Keys |-> {}]
  BY DEF SetRouteStrategy
<1>2. TurnsTypeOK'
  <2>1. <<>> \in Seq([key : Keys, next : Nat]) /\ DOMAIN <<>> = {} /\ Len(<<>>) = 0
    BY EmptySeq
  <2>2. heads' \in [Keys -> [Families -> Heads]] /\ since' \in [Keys -> SUBSET Keys]
    BY <1>1, NoHeadsIsTyped
  <2> QED BY <1>1, <2>1, <2>2, CapacityAssumption DEF TurnsTypeOK
<1>3. ASSUME NEW j \in Keys PROVE Kept(j)' /\ IsFiniteSet(since'[j]) /\ OneFamily(j)' /\ InStep(j)'
  <2>1. heads'[j] = NoHeads /\ since'[j] = {}
    BY <1>1
  <2> QED BY <2>1, FS_EmptySet DEF Kept, OneFamily, InStep, NoHeads, Families
<1> QED BY <1>2, <1>3 DEF TurnsInv

\* Only requests that have been routed take turns, each among the lists of one pool.
LEMMA TurnsStep ==
  ASSUME RoutingTypeOK, TurnsInv, RoutingNext PROVE TurnsTypeOK' /\ TurnsInv'
<1>1. TurnsTypeOK /\ RequestsTypeOK
  BY DEF RoutingTypeOK
<1>2. CASE UNCHANGED turnsTaken
  BY <1>1, <1>2, TurnsUnchanged
<1>3. CASE Expire
  BY <1>1, <1>3, ExpireStep
<1>4. ASSUME NEW m \in {"ordered", "balanced"}, SetRouteStrategy(m) PROVE TurnsTypeOK' /\ TurnsInv'
  BY <1>1, <1>4, ResetStep
<1>5. ASSUME NEW r \in Requests, NEW pool \in ListsOf(AccountOrder), Route(r, pool)
      PROVE  TurnsTypeOK' /\ TurnsInv'
  <2>1. UNCHANGED turnsTaken \/ TakeTurn(kind[r].key, "accounts", pool)
    BY <1>5 DEF Route
  <2>2. /\ kind[r] \in Kinds /\ kind[r].route # "AggregateApi"
        /\ kind[r].key \in Keys /\ kind[r].route \in {"AccountRotation", "AggregateApi", "HybridAccountFirst"}
    <3>1. pc[r] = "accounts"
      BY <1>5 DEF Route
    <3>2. kind[r] \in Kinds /\ kind[r].route # "AggregateApi"
      BY <1>1, <3>1, RequestIs DEF RequestTypeOK
    <3> QED BY <3>2, KindsAssumption DEF Keys
  <2>3. kind[r].key \notin OneStartForTwo => \E x \in Kinds : x.key = kind[r].key /\ x.route = RouteOf["accounts"]
    <3>1. kind[r].key \notin OneStartForTwo => kind[r].route # "HybridAccountFirst"
      BY <2>2 DEF OneStartForTwo
    <3> QED BY <2>2, <3>1 DEF RouteOf
  <2>4. pool \in Seq(Candidates \cup Apis) /\ IsInjective(pool) /\ "accounts" \in Families
    <3>1. pool \in Seq(Candidates) /\ IsInjective(pool)
      BY PoolsAreLists
    <3> QED BY <3>1 DEF Families
  <2> QED BY <1>1, <1>2, <2>1, <2>2, <2>3, <2>4, TakeTurnStep
<1>6. ASSUME NEW r \in Requests, NEW apis \in ListsOf(ApiOrder), RotateApis(r, apis)
      PROVE  TurnsTypeOK' /\ TurnsInv'
  <2>1. apis \in Seq(Apis) /\ IsInjective(apis)
    BY PoolsAreLists
  <2>2. \/ UNCHANGED turnsTaken
        \/ TakeTurn(kind[r].key, "apis", apis)
        \/ apis # <<>> /\ TakeTurn(kind[r].key, "apis", Tail(apis))
    BY <1>6 DEF RotateApis
  <2>3. /\ kind[r] \in Kinds /\ kind[r].route # "AccountRotation"
        /\ kind[r].key \in Keys /\ kind[r].route \in {"AccountRotation", "AggregateApi", "HybridAccountFirst"}
    <3>1. pc[r] = "apis"
      BY <1>6 DEF RotateApis
    <3>2. kind[r] \in Kinds /\ kind[r].route # "AccountRotation"
      BY <1>1, <3>1, RequestIs DEF RequestTypeOK
    <3> QED BY <3>2, KindsAssumption DEF Keys
  <2>4. kind[r].key \notin OneStartForTwo => \E x \in Kinds : x.key = kind[r].key /\ x.route = RouteOf["apis"]
    <3>1. kind[r].key \notin OneStartForTwo => kind[r].route # "HybridAccountFirst"
      BY <2>3 DEF OneStartForTwo
    <3> QED BY <2>3, <3>1 DEF RouteOf
  <2>5. "apis" \in Families
    BY DEF Families
  <2>6. ASSUME NEW l \in Seq(Apis), IsInjective(l), TakeTurn(kind[r].key, "apis", l)
        PROVE  TurnsTypeOK' /\ TurnsInv'
    <3>1. l \in Seq(Candidates \cup Apis)
      OBVIOUS
    <3> QED BY <1>1, <2>3, <2>4, <2>5, <2>6, <3>1, TakeTurnStep
  <2>7. apis # <<>> => Tail(apis) \in Seq(Apis) /\ IsInjective(Tail(apis))
    BY <2>1, TailIsInjective
  <2> QED BY <1>2, <2>1, <2>2, <2>6, <2>7
<1>7. ASSUME NEW r \in Requests, RequestStep(r) PROVE TurnsTypeOK' /\ TurnsInv'
  <2>1. \/ \E pool \in ListsOf(AccountOrder) : Route(r, pool)
        \/ \E apis \in ListsOf(ApiOrder) : RotateApis(r, apis)
        \/ UNCHANGED turnsTaken
    BY <1>7 DEF RequestStep, Begin, NoAccount, FailOver, RespondTerminal, Answer
  <2> QED BY <1>2, <1>5, <1>6, <2>1
<1>8. CASE OtherStep
  BY <1>2, <1>3, <1>4, <1>8 DEF OtherStep, SetPreferredAccount, DeleteAccount
<1> QED BY <1>7, <1>8, RoutingNextIs

-----------------------------------------------------------------------------
(* Bindings *)

\* What an answer does to the bindings.
LEMMA RecordedIs ==
  ASSUME RoutingTypeOK, NEW r \in Requests, NEW status, Answer(r, status)
  PROVE  LET c == kind[r].conversation
             a == Head(list[r])
         IN  /\ a \in Candidates /\ (c # None => c \in Conversations)
             /\ \/ binding' = binding
                \/ /\ binding' = [binding EXCEPT ![c] = a]
                   /\ c # None /\ status = "success" /\ copy[r] # a
                   /\ IsPromptCacheKey(kind[r].source) /\ copy[r] # None => copy[r] \notin offered[r]
<1> DEFINE c == kind[r].conversation
           a == Head(list[r])
<1>1. pc[r] = "trying" /\ binding' = Recorded(r, status)
  BY DEF Answer
<1>2. kind[r] \in Kinds /\ list[r] \in Seq(Candidates) /\ list[r] # <<>>
  BY <1>1, RequestIs DEF RoutingTypeOK, RequestTypeOK
<1>3. a \in Candidates
  BY <1>2
<1>4. c # None => c \in Conversations
  BY <1>2 DEF Conversations
<1>5. \/ binding' = binding
      \/ /\ binding' = [binding EXCEPT ![c] = a] /\ c # None /\ status = "success" /\ copy[r] # a
         /\ IsPromptCacheKey(kind[r].source) /\ copy[r] # None => copy[r] \notin offered[r]
  BY <1>1 DEF Recorded, Touch, Succeeded, BoundAccountSelectable
<1> QED BY <1>3, <1>4, <1>5

\* Every step but an answer leaves the bindings or takes some away.
LEMMA BindingsStay ==
  ASSUME RoutingTypeOK, RoutingNext,
         \A r \in Requests, status \in {"success", "error"} : ~Answer(r, status)
  PROVE  /\ served' = served
         /\ binding' \in [Conversations -> Candidates \cup {None}]
         /\ \A c \in Conversations : binding'[c] \in {None, binding[c]}
<1> USE DEF RoutingTypeOK
<1>1. CASE UNCHANGED <<binding, served>>
  BY <1>1
<1>2. ASSUME NEW a \in Candidates, DeleteAccount(a)
      PROVE  /\ served' = served
             /\ binding' \in [Conversations -> Candidates \cup {None}]
             /\ \A c \in Conversations : binding'[c] \in {None, binding[c]}
  <2>1. binding' = [c \in Conversations |-> IF binding[c] = a THEN None ELSE binding[c]]
    BY <1>2 DEF DeleteAccount
  <2>2. served' = served
    BY <1>2 DEF DeleteAccount
  <2> QED BY <2>1, <2>2
<1>3. (\E a \in Candidates : DeleteAccount(a)) \/ UNCHANGED <<binding, served>>
  BY DEF RoutingNext, Expire, SetRouteStrategy, SetPreferredAccount, Begin, Route, NoAccount,
         FailOver, RespondTerminal, RotateApis
<1> QED BY <1>1, <1>2, <1>3

\* Only an answer of another account than the one its request had read moves a conversation.
LEMMA MovedByAnswer ==
  ASSUME RoutingTypeOK, [RoutingNext]_routingVars, NEW c \in Conversations, Moved(c)
  PROVE  \E r \in Requests :
            /\ MovedBy(c, r) /\ copy[r] # binding'[c]
            /\ IsPromptCacheKey(kind[r].source) /\ copy[r] # None => copy[r] \notin offered[r]
<1>1. binding' # binding /\ binding'[c] \notin {None, binding[c]}
  BY DEF Moved
<1>2. RoutingNext
  BY <1>1 DEF routingVars
<1>3. PICK r \in Requests, status \in {"success", "error"} : Answer(r, status)
  BY <1>1, <1>2, BindingsStay
<1>4. /\ binding' = [binding EXCEPT ![kind[r].conversation] = Head(list[r])]
      /\ kind[r].conversation \in Conversations /\ copy[r] # Head(list[r])
      /\ IsPromptCacheKey(kind[r].source) /\ copy[r] # None => copy[r] \notin offered[r]
  BY <1>1, <1>3, RecordedIs
<1>5. kind[r].conversation = c /\ binding'[c] = Head(list[r])
  BY <1>1, <1>4 DEF RoutingTypeOK
<1>6. pc[r] = "trying" /\ pc'[r] = "idle"
  BY <1>3 DEF Answer, Finished, Goto, RoutingTypeOK, RequestsTypeOK
<1> QED BY <1>4, <1>5, <1>6 DEF MovedBy

\* An answer adds who gave it, and binds to no other.
LEMMA AnswerBinds ==
  ASSUME RoutingTypeOK, NEW r \in Requests, NEW status \in {"success", "error"}, Answer(r, status)
  PROVE  /\ served' \in [Conversations -> SUBSET Candidates]
         /\ binding' \in [Conversations -> Candidates \cup {None}]
         /\ BoundToWhoServed => BoundToWhoServed'
<1> DEFINE c == kind[r].conversation
           a == Head(list[r])
<1>1. a \in Candidates /\ (c # None => c \in Conversations)
  BY RecordedIs
<1>2. \/ binding' = binding
      \/ binding' = [binding EXCEPT ![c] = a] /\ c # None /\ status = "success"
  BY RecordedIs
<1>3. served' = IF c = None \/ status # "success" THEN served ELSE [served EXCEPT ![c] = @ \cup {a}]
  BY DEF Answer
<1>4. /\ served \in [Conversations -> SUBSET Candidates]
      /\ binding \in [Conversations -> Candidates \cup {None}]
  BY DEF RoutingTypeOK
<1> HIDE DEF c, a
<1>5. served' \in [Conversations -> SUBSET Candidates]
  BY <1>1, <1>3, <1>4
<1>6. binding' \in [Conversations -> Candidates \cup {None}]
  BY <1>1, <1>2, <1>4
<1>7. ASSUME BoundToWhoServed, NEW d \in Conversations, binding'[d] # None
      PROVE  binding'[d] \in served'[d]
  <2>1. served[d] \subseteq served'[d]
    BY <1>1, <1>3, <1>4
  <2>2. CASE binding'[d] = binding[d]
    BY <1>7, <2>1, <2>2 DEF BoundToWhoServed
  <2>3. CASE binding'[d] # binding[d]
    <3>1. d = c /\ binding'[d] = a /\ c # None /\ status = "success"
      BY <1>2, <1>4, <2>3
    <3> QED BY <1>3, <1>4, <3>1
  <2> QED BY <2>2, <2>3
<1> QED BY <1>5, <1>6, <1>7 DEF BoundToWhoServed

-----------------------------------------------------------------------------
(* The invariant *)

RoutingIInv == RoutingTypeOK /\ TurnsInv /\ BoundToWhoServed

LEMMA RoutingInitIInv == RoutingInit => RoutingIInv
<1> SUFFICES ASSUME RoutingInit PROVE RoutingIInv
  OBVIOUS
<1> USE DEF RoutingInit
<1>1. TurnsTypeOK
  <2>1. <<>> \in Seq([key : Keys, next : Nat]) /\ DOMAIN <<>> = {} /\ Len(<<>>) = 0
    BY EmptySeq
  <2>2. heads \in [Keys -> [Families -> Heads]] /\ since \in [Keys -> SUBSET Keys]
    BY NoHeadsIsTyped
  <2> QED BY <2>1, <2>2, CapacityAssumption DEF TurnsTypeOK
<1>2. TurnsInv
  <2>1. ASSUME NEW j \in Keys PROVE Kept(j) /\ IsFiniteSet(since[j]) /\ OneFamily(j) /\ InStep(j)
    BY NothingKept, FS_EmptySet
  <2> QED BY <2>1 DEF TurnsInv
<1>3. RequestsTypeOK
  <2>1. <<>> \in Seq(Candidates) /\ IsInjective(<<>>) /\ Range(<<>>) = {}
    BY EmptySeq DEF IsInjective, Range
  <2>2. ASSUME NEW r \in Requests PROVE RequestTypeOK(r)
    BY <2>1 DEF RequestTypeOK
  <2> QED BY <2>1, <2>2 DEF RequestsTypeOK
<1>4. binding \in [Conversations -> Candidates \cup {None}] /\ served \in [Conversations -> SUBSET Candidates]
  OBVIOUS
<1>5. BoundToWhoServed
  BY DEF BoundToWhoServed
<1> QED BY <1>1, <1>2, <1>3, <1>4, <1>5 DEF RoutingIInv, RoutingTypeOK

LEMMA RoutingNextIInv == RoutingIInv /\ [RoutingNext]_routingVars => RoutingIInv'
<1> SUFFICES ASSUME RoutingIInv, [RoutingNext]_routingVars PROVE RoutingIInv'
  OBVIOUS
<1>1. RoutingTypeOK /\ TurnsInv /\ BoundToWhoServed
  BY DEF RoutingIInv
<1>2. CASE RoutingNext
  <2>1. TurnsTypeOK' /\ TurnsInv'
    BY <1>1, <1>2, TurnsStep
  <2>2. RequestsTypeOK'
    <3>1. CASE OtherStep
      <4>1. UNCHANGED request
        BY <3>1 DEF OtherStep, Expire, SetRouteStrategy, SetPreferredAccount, DeleteAccount
      <4> QED BY <1>1, <4>1 DEF RoutingTypeOK, RequestsTypeOK, RequestTypeOK, request
    <3>2. ASSUME NEW r \in Requests, RequestStep(r) PROVE RequestsTypeOK'
      BY <1>1, <3>2, RequestsStepTypeOK
    <3> QED BY <1>2, <3>1, <3>2, RoutingNextIs
  <2>3. /\ mode' \in {"ordered", "balanced"} /\ preferred' \in Candidates \cup {None}
        /\ named' \subseteq Conversations
    <3>1. CASE UNCHANGED <<mode, preferred, named>>
      BY <1>1, <3>1 DEF RoutingTypeOK
    <3>2. CASE ~UNCHANGED <<mode, preferred, named>>
      <4>1. \/ \E m \in {"ordered", "balanced"} : SetRouteStrategy(m)
            \/ \E a \in Candidates \cup {None} : SetPreferredAccount(a)
            \/ \E a \in Candidates : DeleteAccount(a)
        BY <1>2, <3>2 DEF RoutingNext, Expire, Begin, Route, NoAccount, FailOver, RespondTerminal,
                          RotateApis, Answer
      <4> QED BY <1>1, <4>1 DEF RoutingTypeOK, SetRouteStrategy, SetPreferredAccount, DeleteAccount
    <3> QED BY <3>1, <3>2
  <2>4. /\ served' \in [Conversations -> SUBSET Candidates]
        /\ binding' \in [Conversations -> Candidates \cup {None}]
        /\ BoundToWhoServed'
    <3>1. ASSUME NEW r \in Requests, NEW status \in {"success", "error"}, Answer(r, status)
          PROVE  /\ served' \in [Conversations -> SUBSET Candidates]
                 /\ binding' \in [Conversations -> Candidates \cup {None}]
                 /\ BoundToWhoServed'
      BY <1>1, <3>1, AnswerBinds
    <3>2. CASE \A r \in Requests, status \in {"success", "error"} : ~Answer(r, status)
      <4>1. /\ served' = served /\ binding' \in [Conversations -> Candidates \cup {None}]
            /\ \A c \in Conversations : binding'[c] \in {None, binding[c]}
        BY <1>1, <1>2, <3>2, BindingsStay
      <4> QED BY <1>1, <4>1 DEF RoutingTypeOK, BoundToWhoServed
    <3> QED BY <3>1, <3>2
  <2> QED BY <2>1, <2>2, <2>3, <2>4 DEF RoutingIInv, RoutingTypeOK
<1>3. CASE UNCHANGED routingVars
  <2>1. UNCHANGED turnsTaken /\ UNCHANGED <<mode, preferred, binding, named, served>> /\ UNCHANGED request
    BY <1>3 DEF routingVars
  <2>2. TurnsTypeOK' /\ TurnsInv'
    BY <1>1, <2>1, TurnsUnchanged DEF RoutingTypeOK
  <2>3. RequestsTypeOK'
    BY <1>1, <2>1 DEF RoutingTypeOK, RequestsTypeOK, RequestTypeOK, request
  <2> QED BY <1>1, <2>1, <2>2, <2>3 DEF RoutingIInv, RoutingTypeOK, BoundToWhoServed
<1> QED BY <1>2, <1>3

LEMMA RoutingInductive == RoutingSpec => []RoutingIInv
BY RoutingInitIInv, RoutingNextIInv, PTL DEF RoutingSpec

-----------------------------------------------------------------------------
(* Theorems *)

\* The state of route_hint.rs, of the bindings and of the requests that use both is well
\* formed: no key has two entries, the capacity is never exceeded (enforce_capacity_pair),
\* a request that tries candidates has one left, only such as were offered and each once.
THEOREM RoutingTypeCorrect == RoutingSpec => []RoutingTypeOK
<1>1. RoutingIInv => RoutingTypeOK
  BY DEF RoutingIInv
<1> QED BY <1>1, RoutingInductive, PTL

\* Whatever puts the candidates in order - the preferred account, the bound one, a turn or
\* none - no selectable account is lost by it (apply_candidate_rotation).
NobodyIsLost ==
  [][\A r \in Requests :
        pc[r] = "accounts" /\ pc'[r] = "trying" => Range(list'[r]) = offered'[r]]_routingVars
THEOREM RouteLosesNobody == RoutingSpec => NobodyIsLost
<1>1. ASSUME RoutingIInv, [RoutingNext]_routingVars, NEW r \in Requests,
             pc[r] = "accounts", pc'[r] = "trying"
      PROVE  Range(list'[r]) = offered'[r]
  <2>1. RoutingTypeOK /\ RequestsTypeOK
    BY <1>1 DEF RoutingIInv, RoutingTypeOK
  <2>2. pc # pc'
    BY <1>1
  <2>3. PICK q \in Requests : RequestStep(q)
    BY <1>1, <2>2, RoutingNextIs DEF routingVars, request, OtherStep, Expire, SetRouteStrategy,
                                     SetPreferredAccount, DeleteAccount
  <2>4. PICK pool \in ListsOf(AccountOrder) : Route(r, pool)
    <3>1. /\ pc \in [Requests -> {"idle", "accounts", "trying", "apis"}]
          /\ \A p : pc' = [pc EXCEPT ![q] = p] => q = r /\ p = "trying"
      BY <1>1, <2>1 DEF RequestsTypeOK
    <3>2. \E pool \in ListsOf(AccountOrder) : Route(q, pool)
      BY <1>1, <2>3, <3>1 DEF RequestStep, Begin, NoAccount, FailOver, RespondTerminal, RotateApis,
                               Answer, Finished, Goto
    <3>3. q = r
      BY <3>1, <3>2 DEF Route, Goto
    <3> QED BY <3>2, <3>3
  <2>5. pool \in Seq(Candidates) /\ IsInjective(pool)
    BY PoolsAreLists
  <2>6. PICK l \in Seq(Candidates) : Range(l) = Range(pool) /\ list' = [list EXCEPT ![r] = l]
    BY <2>1, <2>4, <2>5, RoutedList
  <2>7. offered' = [offered EXCEPT ![r] = Range(pool)]
    BY <2>4 DEF Route
  <2>8. list'[r] = l /\ offered'[r] = Range(pool)
    BY <2>1, <2>6, <2>7 DEF RequestsTypeOK
  <2> QED BY <2>6, <2>8
<1>2. RoutingIInv /\ [RoutingNext]_routingVars =>
         \A r \in Requests :
            pc[r] = "accounts" /\ pc'[r] = "trying" => Range(list'[r]) = offered'[r]
  BY <1>1
<1> QED BY <1>2, RoutingInductive, PTL DEF RoutingSpec, NobodyIsLost

\* Balanced routing is strict (next_start_index): nobody stands first twice before everybody
\* else of an unchanged list has, for any number of keys, accounts and aggregate APIs and any
\* capacity, whatever is evicted or expires in between.
THEOREM TurnsAreTaken == RoutingSpec => []EveryoneInTurn
<1>1. RoutingIInv => EveryoneInTurn
  <2> SUFFICES ASSUME RoutingIInv, NEW k \in Keys \ OneStartForTwo, NEW f \in Families PROVE InTurn(k, f)
    BY DEF EveryoneInTurn
  <2>1. heads \in [Keys -> [Families -> Heads]] /\ InStep(k)
    BY EntriesAre DEF RoutingIInv, RoutingTypeOK, TurnsInv
  <2>2. CASE heads[k][f].first = <<>>
    BY <2>2 DEF InTurn, IsInjective
  <2>3. CASE heads[k][f].first # <<>>
    <3>1. heads[k][f] \in Heads
      BY <2>1
    <3>2. /\ heads[k][f].first \in Seq(Who) /\ heads[k][f].list \in Seq(Who)
          /\ Follows(heads[k][f], Turn(k))
      BY <2>1, <2>3, <3>1 DEF InStep, Heads, Who
    <3> QED BY <3>2, FollowingIsInjective DEF InTurn
  <2> QED BY <2>2, <2>3
<1> QED BY <1>1, RoutingInductive, PTL

\* A conversation is never bound to an account that has not answered it, whatever is deleted
\* and whichever answers come late (record_conversation_binding_terminal_response).
THEOREM BoundToServers == RoutingSpec => []BoundToWhoServed
<1>1. RoutingIInv => BoundToWhoServed
  BY DEF RoutingIInv
<1> QED BY <1>1, RoutingInductive, PTL

\* No request moves a conversation to the account it found it bound to: a late answer touches
\* the row and does not write it (touch_conversation_binding).
THEOREM FailoverMoves == RoutingSpec => MovedOnlyByFailover
<1>1. RoutingIInv /\ [RoutingNext]_routingVars =>
         \A c \in Conversations :
            Moved(c) => \E r \in Requests : MovedBy(c, r) /\ copy[r] # binding'[c]
  BY MovedByAnswer DEF RoutingIInv
<1> QED BY <1>1, RoutingInductive, PTL DEF RoutingSpec, MovedOnlyByFailover

\* A request of a conversation known by its prompt cache key moves it away from the account it
\* has read only when that account was not among its candidates.
THEOREM CacheKeeps == RoutingSpec => CacheConversationStays
<1>1. RoutingIInv /\ [RoutingNext]_routingVars =>
         \A c \in Conversations :
            Moved(c) => \E r \in Requests :
                           /\ MovedBy(c, r)
                           /\ IsPromptCacheKey(kind[r].source) /\ copy[r] = binding[c]
                                 => binding[c] \notin offered[r]
  <2> SUFFICES ASSUME RoutingIInv, [RoutingNext]_routingVars, NEW c \in Conversations, Moved(c)
               PROVE  \E r \in Requests :
                         /\ MovedBy(c, r)
                         /\ IsPromptCacheKey(kind[r].source) /\ copy[r] = binding[c]
                               => binding[c] \notin offered[r]
    OBVIOUS
  <2>1. PICK r \in Requests :
            /\ MovedBy(c, r) /\ copy[r] # binding'[c]
            /\ IsPromptCacheKey(kind[r].source) /\ copy[r] # None => copy[r] \notin offered[r]
    BY MovedByAnswer DEF RoutingIInv
  <2>2. binding[c] # None
    BY DEF Moved
  <2> QED BY <2>1, <2>2
<1> QED BY <1>1, RoutingInductive, PTL DEF RoutingSpec, CacheConversationStays
=============================================================================
