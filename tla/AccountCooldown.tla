--------------------------- MODULE AccountCooldown ---------------------------
(***************************************************************************)
(* The table of account cooldowns of the gateway                           *)
(* (crates/service/src/gateway/routing/cooldown.rs).                       *)
(*                                                                         *)
(* An upstream failure parks the account until a point in time.  Repeated  *)
(* 429 answers climb a ladder of ever longer cooldowns; a success lifts    *)
(* the cooldown and steps one rung down.  Every operation runs under one   *)
(* mutex, so each is a single step.                                        *)
(*                                                                         *)
(* A HashMap entry that is missing is written Absent.  Seconds are Unix    *)
(* seconds and never 0, and a stored count is never 0, so 0 can stand for  *)
(* a missing entry.                                                        *)
(***************************************************************************)
EXTENDS Integers, Sequences

CONSTANTS
    Accounts,          \* account ids
    Ladder,            \* ACCOUNT_RATE_LIMIT_COOLDOWN_LADDER_SECS
    PlainSecs,         \* seconds of every reason but RateLimited
    ForgetAfter,       \* ACCOUNT_RATE_LIMIT_OFFENSE_FORGET_AFTER_SECS
    CleanupInterval,   \* ACCOUNT_COOLDOWN_CLEANUP_INTERVAL_SECS
    OffenseCap,        \* where the u32 offence counter saturates
    LastSecond         \* bound: the clock stops here

PlainReasons == {"Default", "Network", "Upstream5xx", "Upstream4xx",
                 "Challenge", "AnthropicChallenge"}

CooldownReason == PlainReasons \cup {"RateLimited"}

ASSUME LadderAssumption ==
    /\ Ladder \in Seq(Nat \ {0})
    /\ Len(Ladder) > 0
    /\ \A i, j \in DOMAIN Ladder : i <= j => Ladder[i] <= Ladder[j]

ASSUME SecsAssumption ==
    /\ PlainSecs \in [PlainReasons -> Nat \ {0}]
    /\ ForgetAfter \in Nat
    /\ CleanupInterval \in Nat
    /\ OffenseCap \in Nat \ {0}
    /\ LastSecond \in Nat

VARIABLES
    now,            \* now_ts(), read inside the critical section
    until,          \* entries: account -> end of its cooldown
    offenseCount,   \* offense_counts
    offenseLastAt,  \* offense_last_at
    lastCleanupAt   \* last_cleanup_at, 0 before the first cleanup

vars == <<now, until, offenseCount, offenseLastAt, lastCleanupAt>>

Absent == 0

Init ==
    /\ now = 1
    /\ until = [a \in Accounts |-> Absent]
    /\ offenseCount = [a \in Accounts |-> Absent]
    /\ offenseLastAt = [a \in Accounts |-> Absent]
    /\ lastCleanupAt = 0

-----------------------------------------------------------------------------
(* Pure parts *)

\* cooldown_reason_for_status
CooldownReasonForStatus(status) ==
    CASE status = 429           -> "RateLimited"
      [] status \in 500..599    -> "Upstream5xx"
      [] status \in {401, 403}  -> "Challenge"
      [] status \in 400..499 \ {401, 403, 429} -> "Upstream4xx"
      [] OTHER                  -> "Default"

\* rate_limit_cooldown_secs_for_offense: the last rung is for every further offence
LadderSecs(count) == IF count < Len(Ladder) THEN Ladder[count] ELSE Ladder[Len(Ladder)]

\* Mutant: the counter does not saturate.
WrappingIncrement(count) == count + 1

SaturatingIncrement(count) == IF count < OffenseCap THEN count + 1 ELSE OffenseCap

InCooldown(a) == until[a] > now

\* The 429s of the account are so old that the next one starts a new round.
Stale(a) == offenseLastAt[a] # Absent /\ now - offenseLastAt[a] > ForgetAfter

-----------------------------------------------------------------------------
(* maybe_cleanup_expired_cooldowns, run at the start of every mark *)

CleanupDue == lastCleanupAt = 0 \/ now - lastCleanupAt >= CleanupInterval

\* Mutant: the sweep drops running entries and keeps the expired ones.
InvertedCleanedUntil(a) == IF CleanupDue /\ InCooldown(a) THEN Absent ELSE until[a]

CleanedUntil(a) == IF CleanupDue /\ ~InCooldown(a) THEN Absent ELSE until[a]
CleanedCount(a) == IF CleanupDue /\ Stale(a) THEN Absent ELSE offenseCount[a]
CleanedLastAt(a) == IF CleanupDue /\ Stale(a) THEN Absent ELSE offenseLastAt[a]

\* The count after one more 429: forgotten first when the round is old.
NextOffense(a) ==
    IF Stale(a) THEN 1 ELSE SaturatingIncrement(CleanedCount(a))

\* Mutants: the new end replaces the old one; the durations add up.
TakeNew(old, new) == new
AddUp(old, new) == IF old > now THEN old + (new - now) ELSE new

\* An entry keeps the later of its old and its new end.
KeepLater(old, new) == IF new > old THEN new ELSE old

-----------------------------------------------------------------------------
(* Operations *)

\* is_account_in_cooldown drops an entry that has expired.
IsAccountInCooldown(a) ==
    /\ until' = [until EXCEPT ![a] = IF InCooldown(a) THEN @ ELSE Absent]
    /\ UNCHANGED <<now, offenseCount, offenseLastAt, lastCleanupAt>>

\* mark_account_cooldown for a reason with a fixed duration
MarkPlain(a, reason) ==
    /\ reason \in PlainReasons
    /\ until' = [b \in Accounts |->
                   IF b = a THEN KeepLater(CleanedUntil(a), now + PlainSecs[reason])
                            ELSE CleanedUntil(b)]
    /\ offenseCount' = [b \in Accounts |-> CleanedCount(b)]
    /\ offenseLastAt' = [b \in Accounts |-> CleanedLastAt(b)]
    /\ lastCleanupAt' = IF CleanupDue THEN now ELSE lastCleanupAt
    /\ now' = now

\* mark_account_cooldown(RateLimited): one more offence, its rung of the ladder
MarkRateLimited(a) ==
    /\ offenseCount' = [b \in Accounts |->
                          IF b = a THEN NextOffense(a) ELSE CleanedCount(b)]
    /\ offenseLastAt' = [b \in Accounts |-> IF b = a THEN now ELSE CleanedLastAt(b)]
    /\ until' = [b \in Accounts |->
                   IF b = a THEN KeepLater(CleanedUntil(a), now + LadderSecs(NextOffense(a)))
                            ELSE CleanedUntil(b)]
    /\ lastCleanupAt' = IF CleanupDue THEN now ELSE lastCleanupAt
    /\ now' = now

MarkAccountCooldown(a, reason) ==
    IF reason = "RateLimited" THEN MarkRateLimited(a) ELSE MarkPlain(a, reason)

\* mark_account_cooldown_for_status
MarkAccountCooldownForStatus(a, status) ==
    MarkAccountCooldown(a, CooldownReasonForStatus(status))

\* Mutant: the timestamp outlives the count.
KeptLastAt(a) == offenseLastAt[a]

\* decay_offense_count_for_success: the last offence takes its timestamp with it
DecayedCount(a) == IF offenseCount[a] <= 1 THEN Absent ELSE offenseCount[a] - 1
DecayedLastAt(a) == IF offenseCount[a] = 1 THEN Absent ELSE offenseLastAt[a]

\* clear_account_cooldown, after a successful answer
ClearAccountCooldown(a) ==
    /\ until' = [until EXCEPT ![a] = Absent]
    /\ offenseCount' = [offenseCount EXCEPT ![a] = DecayedCount(a)]
    /\ offenseLastAt' = [offenseLastAt EXCEPT ![a] = DecayedLastAt(a)]
    /\ UNCHANGED <<now, lastCleanupAt>>

\* clear_runtime_state
ClearRuntimeState ==
    /\ until' = [a \in Accounts |-> Absent]
    /\ offenseCount' = [a \in Accounts |-> Absent]
    /\ offenseLastAt' = [a \in Accounts |-> Absent]
    /\ lastCleanupAt' = 0
    /\ now' = now

Tick ==
    /\ now < LastSecond
    /\ now' = now + 1
    /\ UNCHANGED <<until, offenseCount, offenseLastAt, lastCleanupAt>>

\* One status of every class that CooldownReasonForStatus tells apart.
SampleStatuses == {302, 401, 404, 429, 503}

Next ==
    \/ Tick
    \/ ClearRuntimeState
    \/ \E a \in Accounts :
          \/ IsAccountInCooldown(a)
          \/ ClearAccountCooldown(a)
          \/ \E reason \in CooldownReason : MarkAccountCooldown(a, reason)
          \/ \E status \in SampleStatuses : MarkAccountCooldownForStatus(a, status)

Spec == Init /\ [][Next]_vars

-----------------------------------------------------------------------------
(* Properties *)

TableTypeOK ==
    /\ now \in Nat \ {0}
    /\ until \in [Accounts -> Nat]
    /\ offenseCount \in [Accounts -> 0..OffenseCap]
    /\ offenseLastAt \in [Accounts -> 0..now]
    /\ lastCleanupAt \in 0..now

\* The two offence maps have the same keys: a count without a timestamp would
\* never be forgotten, a timestamp without a count would be swept for nothing
\* (cooldown.rs keeps the maps in step by hand in three places).
OffenseMapsAgree ==
    \A a \in Accounts : (offenseCount[a] = Absent) <=> (offenseLastAt[a] = Absent)

TypeOK == TableTypeOK /\ OffenseMapsAgree

\* However failures pile up, no account is parked for longer than one single
\* cooldown counted from now: cooldowns overlap, they never add up.
ParkedNoLongerThanOneCooldown ==
    \A a \in Accounts :
       \/ until[a] <= now + Ladder[Len(Ladder)]
       \/ \E reason \in PlainReasons : until[a] <= now + PlainSecs[reason]

\* A running cooldown is never shortened by another failure, whatever its kind
\* ("keep the later until", cooldown.rs:226): it can only be lifted, by a success
\* of that account or by the reset of the whole table.
LiftedBySuccess(a) == 
    /\ until'[a] = Absent 
    /\ offenseCount'[a] = DecayedCount(a) 
    /\ \A b \in Accounts \ {a} : until'[b] = until[b]
WholeTableReset == lastCleanupAt' = 0 /\ \A b \in Accounts : until'[b] = Absent

RunningCooldownOnlyLifted ==
    [][\A a \in Accounts :
          InCooldown(a) /\ until'[a] < until[a] => LiftedBySuccess(a) \/ WholeTableReset]_vars

\* The ladder is descended one rung at a time: an offence count falls by more
\* than one only when its last 429 is older than the forgetting window, and is
\* then forgotten altogether, or started anew at one.
LadderDescendsByOneRung ==
    [][\A a \in Accounts :
          offenseCount'[a] < offenseCount[a] =>
             \/ offenseCount'[a] = offenseCount[a] - 1 /\ until'[a] = Absent
             \/ Stale(a) /\ offenseCount'[a] \in {Absent, 1}
             \/ WholeTableReset]_vars

\* A 429 that comes after the forgetting window costs the first rung again, even
\* when no cleanup has run in between.
OldOffenseForgotten ==
    [][\A a \in Accounts :
          Stale(a) /\ offenseLastAt'[a] = now =>
             /\ offenseCount'[a] = 1
             /\ until'[a] \in {CleanedUntil(a), now + Ladder[1]}]_vars

\* The table is a set of cooling accounts to which a failure adds exactly its own
\* account: lazy removal, the sweep of other accounts' entries and the ladder are
\* invisible to the callers of is_account_in_cooldown.
Contract == INSTANCE CoolingSet WITH cooling <- {a \in Accounts : InCooldown(a)}

ImplementsCoolingSet == Contract!CoolingSpec

=============================================================================
