------------------------- MODULE CandidateSelection -------------------------
(***************************************************************************)
(* Which accounts the gateway may use: the status and the newest usage     *)
(* snapshot of every account in the database, those who change them        *)
(* (account_status.rs, usage_snapshot_store.rs, account_update.rs, ...),   *)
(* and the short-lived snapshot of the candidates that requests share      *)
(* (gateway/routing/selection.rs).                                         *)
(*                                                                         *)
(* A worker is any thread of the service: one that collects candidates     *)
(* for a request, reports an account as unusable, stores a usage snapshot  *)
(* or serves the administrator.  Every SQL statement and every critical    *)
(* section of the snapshot's mutex is a step of its own.                   *)
(***************************************************************************)
EXTENDS Naturals

CONSTANTS
    Accounts,
    Workers,
    Readings,    \* usage snapshots the upstream may report
    Ttl,         \* CANDIDATE_CACHE_TTL_MS in ticks; 0 turns the cache off
    None

\* A usage snapshot: plenty left, little left, the secondary window known by half,
\* no primary window, nothing left.
Reading == {"plenty", "low", "half", "missing", "exhausted"}

ASSUME ReadingsAssumption == Readings \subseteq Reading
ASSUME TtlAssumption == Ttl \in Nat

\* "limited" stands for limited, unavailable and banned, which are set by the same
\* code and filtered by the same clause; "gone" is a deleted account.
Status == {"active", "limited", "disabled", "inactive", "gone"}

\* LowQuotaCandidateMode
Mode == {"NormalOnly", "AppendFallback"}

\* QuotaGuardConfig: disabled or without a threshold; enabled without and with
\* allow_all_low_quota_fallback.
Guard == {"off", "strict", "fallback"}

\* Candidates keep their order of sort; what matters here is which of them stand at
\* the back because they have little left.
List == [normal : SUBSET Accounts, low : SUBSET Accounts]
NoList == [normal |-> {}, low |-> {}]
Members(l) == l.normal \cup l.low

VARIABLES
    status,      \* accounts.status
    usage,       \* the newest usage snapshot of each account, or "none"
    guard,       \* the quota guard's configuration
    cache,       \* CANDIDATE_SNAPSHOT_CACHE; left is the time until expires_at
    pc,
    mode,        \* low_quota_mode of each collection
    found,       \* the rows it has read
    list,        \* its result
    change,      \* the status change each writer is about to make
    late         \* history: collections overtaken by an invalidation since they read

vars == <<status, usage, guard, cache, pc, mode, found, list, change, late>>
database == <<status, usage, guard>>
collecting == <<mode, found, list, late>>

At(w, label) == pc[w] = label
Goto(w, label) == pc' = [pc EXCEPT ![w] = label]

Init ==
    /\ status = [a \in Accounts |-> "active"]
    /\ usage = [a \in Accounts |-> "none"]
    /\ guard \in Guard
    /\ cache = None
    /\ pc = [w \in Workers |-> "idle"]
    /\ mode = [w \in Workers |-> "NormalOnly"]
    /\ found = [w \in Workers |-> {}]
    /\ list = [w \in Workers |-> NoList]
    /\ change = [w \in Workers |-> None]
    /\ late = [w \in Workers |-> FALSE]

-----------------------------------------------------------------------------
(* Collecting candidates *)

\* Mutant: a snapshot made in the other mode is a hit as well.
AnyModeHit(m) == cache # None

Hit(m) == cache # None /\ cache.mode = m

\* read_candidate_cache: a snapshot made in the other mode is dropped.
Collect(w, m) ==
    /\ At(w, "idle")
    /\ mode' = [mode EXCEPT ![w] = m]
    /\ \/ /\ Hit(m)
          /\ list' = [list EXCEPT ![w] = cache.list]
          /\ Goto(w, "served")
          /\ UNCHANGED cache
       \/ /\ ~Hit(m)
          /\ cache' = None
          /\ Goto(w, "list")
          /\ UNCHANGED list
    /\ UNCHANGED <<database, found, change, late>>

\* gateway_account_usage_filter_clause
InService(a) ==
    /\ status[a] = "active"
    /\ usage[a] \notin {"half", "missing", "exhausted"}

\* list_gateway_candidates
ListCandidates(w) ==
    /\ At(w, "list")
    /\ found' = [found EXCEPT ![w] = {a \in Accounts : InService(a)}]
    /\ Goto(w, "guard")
    /\ UNCHANGED <<database, cache, mode, list, change, late>>

\* low_quota_account_ids_for_accounts
Scarce == {a \in Accounts : usage[a] \in {"low", "exhausted"}}

\* apply_quota_guard
Guarded(rows, m) ==
    LET normal == rows \ Scarce
        lastResort == normal = {} /\ guard = "fallback"
    IN  IF guard = "off" THEN [normal |-> rows, low |-> {}]
        ELSE [normal |-> normal,
              low |-> IF lastResort \/ m = "AppendFallback" THEN rows \cap Scarce ELSE {}]

ApplyQuotaGuard(w) ==
    /\ At(w, "guard")
    /\ list' = [list EXCEPT ![w] = Guarded(found[w], mode[w])]
    /\ found' = [found EXCEPT ![w] = {}]
    /\ Goto(w, "write")
    /\ UNCHANGED <<database, cache, mode, change, late>>

\* write_candidate_cache
WriteCache(w) ==
    /\ At(w, "write")
    /\ cache' = IF Ttl = 0 THEN cache
                ELSE [list |-> list[w], mode |-> mode[w], left |-> Ttl, late |-> late[w]]
    /\ late' = [late EXCEPT ![w] = FALSE]
    /\ Goto(w, "served")
    /\ UNCHANGED <<database, mode, found, list, change>>

\* The request goes on with its copy of the list.
TakeList(w) ==
    /\ At(w, "served")
    /\ Goto(w, "idle")
    /\ list' = [list EXCEPT ![w] = NoList]
    /\ mode' = [mode EXCEPT ![w] = "NormalOnly"]
    /\ UNCHANGED <<database, cache, found, change, late>>

\* Mutant: a snapshot is still good at expires_at.
GoodAtExpiry == IF cache.left > 0 THEN [cache EXCEPT !.left = @ - 1] ELSE None

\* A snapshot counts as absent once expires_at <= now.
Older == IF cache.left > 1 THEN [cache EXCEPT !.left = @ - 1] ELSE None

Tick ==
    /\ cache # None
    /\ cache' = Older
    /\ UNCHANGED <<database, pc, collecting, change>>

-----------------------------------------------------------------------------
(* Changing statuses *)

\* Mutant: the cache is left alone by a change that takes an account out of service.
OnlyWhenActivated(s) == s = "active"

Invalidates(s) == TRUE

\* update_account_status_if_changed: status != ?1 of an existing row
Write(w, a, s) ==
    \/ /\ status[a] \in {s, "gone"}
       /\ Goto(w, "idle")
       /\ UNCHANGED status
    \/ /\ status[a] \notin {s, "gone"}
       /\ status' = [status EXCEPT ![a] = s]
       /\ Goto(w, IF Invalidates(s) THEN "invalidate" ELSE "idle")

\* should_preserve_manual_account_status
Preserved(a) == status[a] \in {"disabled", "inactive"}

\* set_account_limited_with_reason, _unavailable_ and _banned_, up to the change
MarkUnavailable(w, a) ==
    /\ At(w, "idle") /\ ~Preserved(a)
    /\ change' = [change EXCEPT ![w] = [account |-> a, to |-> "limited"]]
    /\ Goto(w, "set")
    /\ UNCHANGED <<database, cache, collecting>>

\* evaluate_snapshot and the status apply_status_from_snapshot draws from it
StatusFor(reading) ==
    CASE reading = "missing" -> None
      [] reading = "exhausted" -> "limited"
      [] OTHER -> "active"

\* store_usage_snapshot
StoreUsageSnapshot(w, a, reading) ==
    /\ At(w, "idle")
    /\ usage' = [usage EXCEPT ![a] = reading]
    /\ change' = [change EXCEPT ![w] = [account |-> a, to |-> StatusFor(reading)]]
    /\ Goto(w, "evaluate")
    /\ UNCHANGED <<status, guard, cache, collecting>>

\* load_account_status_context and usage_status_updates_blocked
ApplyStatus(w) ==
    /\ At(w, "evaluate")
    /\ \/ /\ status[change[w].account] = "disabled" \/ change[w].to = None
          /\ change' = [change EXCEPT ![w] = None]
          /\ Goto(w, "idle")
       \/ /\ status[change[w].account] # "disabled" /\ change[w].to # None
          /\ Goto(w, "set")
          /\ UNCHANGED change
    /\ UNCHANGED <<database, cache, collecting>>

\* set_account_status_with_context: the change
SetStatus(w) ==
    /\ At(w, "set")
    /\ Write(w, change[w].account, change[w].to)
    /\ change' = [change EXCEPT ![w] = None]
    /\ UNCHANGED <<usage, guard, cache, collecting>>

\* update_account: manual_disable and manual_enable
UpdateAccount(w, a, s) ==
    /\ At(w, "idle") /\ s \in {"active", "disabled"}
    /\ Write(w, a, s)
    /\ UNCHANGED <<usage, guard, cache, collecting, change>>

\* set_quota_guard_config
SetQuotaGuardConfig(w, g) ==
    /\ At(w, "idle")
    /\ guard' = g
    /\ Goto(w, "invalidate")
    /\ UNCHANGED <<status, usage, cache, collecting, change>>

\* invalidate_candidate_cache
InvalidateCandidateCache(w) ==
    /\ At(w, "invalidate")
    /\ cache' = None
    /\ late' = [v \in Workers |-> pc[v] \in {"guard", "write"}]
    /\ Goto(w, "idle")
    /\ UNCHANGED <<database, mode, found, list, change>>

\* A statement fails: the list is not collected, the status stays.
StorageFails(w) ==
    /\ pc[w] \in {"list", "set"}
    /\ Goto(w, "idle")
    /\ mode' = [mode EXCEPT ![w] = "NormalOnly"]
    /\ change' = [change EXCEPT ![w] = None]
    /\ UNCHANGED <<database, cache, found, list, late>>

\* Changes that leave the cache alone: logout_current_account, delete_account and
\* the insert of a sign-in or an import.
LogOut(a) ==
    /\ status[a] # "gone"
    /\ status' = [status EXCEPT ![a] = "inactive"]
    /\ UNCHANGED <<usage, guard, cache, pc, collecting, change>>

DeleteAccount(a) ==
    /\ status' = [status EXCEPT ![a] = "gone"]
    /\ usage' = [usage EXCEPT ![a] = "none"]
    /\ UNCHANGED <<guard, cache, pc, collecting, change>>

SignIn(a) ==
    /\ status' = [status EXCEPT ![a] = "active"]
    /\ UNCHANGED <<usage, guard, cache, pc, collecting, change>>

-----------------------------------------------------------------------------
\* The steps of a worker that has begun something
Work(w) ==
    \/ ListCandidates(w)
    \/ ApplyQuotaGuard(w)
    \/ WriteCache(w)
    \/ TakeList(w)
    \/ ApplyStatus(w)
    \/ SetStatus(w)
    \/ InvalidateCandidateCache(w)

Next ==
    \/ Tick
    \/ \E a \in Accounts : LogOut(a) \/ DeleteAccount(a) \/ SignIn(a)
    \/ \E w \in Workers :
          \/ Work(w)
          \/ StorageFails(w)
          \/ \E m \in Mode : Collect(w, m)
          \/ \E g \in Guard : SetQuotaGuardConfig(w, g)
          \/ \E a \in Accounts :
                \/ MarkUnavailable(w, a)
                \/ \E s \in Status : UpdateAccount(w, a, s)
                \/ \E reading \in Readings : StoreUsageSnapshot(w, a, reading)

Spec == Init /\ [][Next]_vars

-----------------------------------------------------------------------------
(* Properties *)

Label == {"idle", "list", "guard", "write", "served", "evaluate", "set", "invalidate"}

TypeOK ==
    /\ status \in [Accounts -> Status]
    /\ usage \in [Accounts -> Readings \cup {"none"}]
    /\ guard \in Guard
    /\ \/ cache = None
       \/ cache \in [list : List, mode : Mode, left : 1 .. Ttl, late : BOOLEAN]
    /\ pc \in [Workers -> Label]
    /\ mode \in [Workers -> Mode]
    /\ found \in [Workers -> SUBSET Accounts]
    /\ list \in [Workers -> List]
    /\ change \in [Workers -> {None} \cup [account : Accounts, to : Status \cup {None}]]
    /\ late \in [Workers -> BOOLEAN]

\* A request that did not ask for scarce accounts gets them only when there is
\* nothing else, although requests of both modes share one snapshot and the quota
\* guard's configuration changes under way.
LowQuotaOnlyAsLastResort ==
    \A w \in Workers :
       At(w, "served") /\ mode[w] = "NormalOnly" /\ list[w].low # {} => list[w].normal = {}

\* An account taken out of service is out of the shared snapshot once the change is
\* through, unless the snapshot comes from a collection that had read the accounts
\* before the invalidation and wrote its result after it.
Settled == \A w \in Workers : ~At(w, "invalidate")
TakenOut(a) == status[a] \in {"limited", "disabled"}

OnlyLateSnapshotsAreStale ==
    cache # None /\ ~cache.late /\ Settled => \A a \in Members(cache.list) : ~TakenOut(a)

\* What the administrator has disabled stays disabled until the administrator, a
\* sign-in, a log-out or a deletion changes it (the tests named *_manual_disabled_status).
ManualDisableSticks ==
    [][\A a \in Accounts, w \in Workers : SetStatus(w) /\ status[a] = "disabled" => status'[a] = "disabled"]_vars

\* evaluate_snapshot accepts a snapshot whose secondary window is known by half, so
\* that an account with quota left is not lost; the candidate query then accepts it too.
AvailableMeansInService ==
    \A a \in Accounts :
       status[a] = "active" /\ usage[a] # "none" /\ StatusFor(usage[a]) = "active" => InService(a)

=============================================================================
