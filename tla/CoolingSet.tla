----------------------------- MODULE CoolingSet -----------------------------
(***************************************************************************)
(* What the cooldown table promises the rest of the gateway: a set of      *)
(* accounts that are cooling down.  A failure adds one account, a success  *)
(* takes out one account, time and the reset of the table take out any     *)
(* number.  AccountCooldown is the implementation with clocks, ladders and *)
(* lazy cleanup; CandidateExecutor is written against this contract.       *)
(***************************************************************************)
CONSTANT Accounts
VARIABLE cooling

CoolingTypeOK == cooling \subseteq Accounts

CoolingInit == cooling = {}

\* mark_account_cooldown
CoolDown(a) == cooling' = cooling \cup {a}

\* clear_account_cooldown
LiftCooldown(a) == cooling' = cooling \ {a}

\* Cooldowns end by themselves, some or all at the same second.
Lapse == \E ended \in SUBSET cooling : cooling' = cooling \ ended

CoolingNext == Lapse \/ \E a \in Accounts : CoolDown(a) \/ LiftCooldown(a)

CoolingSpec == CoolingInit /\ [][CoolingNext]_cooling
=============================================================================
