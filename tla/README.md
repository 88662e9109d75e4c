# Formal models of the Codex gateway

TLA+ models of the account-pooling gateway in `src/crates/service` (Remote-Codex-Gateway /
CodexManager), checked with TLC on small instances and proved with TLAPS for every value of the
constants. `PROJECT.json` ties every definition to the lines it models, every property to the run
that checks it and to a change of the model that breaks it, and lists the hazards of the code.

Contents: [the system](#the-system) - [modules](#modules-and-how-they-correspond-to-the-code) -
[runs](#runs-bounds-and-fairness) - [findings](#where-the-code-and-its-documentation-disagree) -
[proofs](#what-is-proved) - [limits](#what-is-only-model-checked-and-what-is-not-modelled) - [plan](#plan)

## The system

A desktop or server process pools ChatGPT/OpenAI accounts behind one local endpoint. A client's
request is queued, validated, given an ordered list of candidate accounts, passes a soft gate that
serialises requests of one API key, path and model, and is then tried on one account after the
other until an answer can be delivered. Background threads refresh tokens and usage snapshots and
change the status of accounts. Everything shared lives in process-wide tables under mutexes, in
atomics, or in SQLite, where each statement is atomic but a sequence of them is not. Requests run on
a pool of blocking worker threads; there are no transactions around read-decide-write sequences.

| Component (sources under `crates/service/src`) | State | Operations | What makes it correct |
|---|---|---|---|
| Account cooldowns (`gateway/routing/cooldown.rs`) | end of each cooldown, offence counts and times, time of last sweep; one mutex | mark, mark by status, query, clear on success, sweep, reset | a failure never shortens a cooldown; cooldowns do not add up; the two offence maps agree; old offences are forgotten |
| Candidate executor (`gateway/upstream/proxy_pipeline/candidate_executor.rs`, `response_finalize.rs`, `support/candidates.rs`) | position in the list, request handle, in-flight guard per request; the in-flight counters | skip, claim, attempt, stateless retry, deliver, follow up, fail over | one answer per request; no leaked guard; failover leaves a mark; every request ends |
| Request gate (`gateway/routing/request_gate.rs`, `proxy_pipeline/request_gate.rs`) | table of reference-counted locks, a boolean under a condition variable each | look up, try, wait, time out, release, sweep, reset | one request per key inside; no lost wake-up; everyone gets through |
| Candidate selection and account status (`gateway/routing/selection.rs`, `account/account_status.rs`, `usage/usage_snapshot_store.rs`, `account_update.rs`; SQL in `crates/core/src/storage`) | account rows, newest usage snapshot, quota guard, shared snapshot of candidates | collect, guard, write back, mark unavailable, store usage, administrator's changes, invalidate | scarce accounts only as last resort; accounts out of service leave the snapshot; a manual disable sticks |
| Token refresh (`usage/usage_token_refresh.rs`, `gateway/auth/token_exchange.rs`) | token row, a lock per account for the refresh and another for the exchange | refresh, recover from a lost race, exchange an API key, refresh for the exchange, websocket retry, sign-in | the row keeps a token the server still accepts; a token is not redeemed twice; a lost race does not retire the account |
| HTTP backend (`http/backend_runtime.rs`, with `http/server.rs` and the proxy around a shutdown) | two bounded queues, a gauge each, worker pools, the shutdown flag | accept, enqueue with a timed send, overflow to the other queue, 503, work, panic, answer inline, shut down | a request is in one place until it is answered; gauges cover the queues; the accept loop comes back; the exit cuts off nobody who waits |
| Usage refresh (`usage/refresh/*`, `usage_scheduler.rs`) | set of pending accounts, a channel, workers; cursor and channel of the polling cycle | ask, run, clear, panic; list, batch, poll, move the cursor, restart | a mark is exactly one task and temporary; a cycle polls nobody twice; everybody is polled again and again |
| Route hint (`gateway/routing/route_hint.rs`) | strategy, a start per key and model with expiry and capacity, the preferred account | rotate, expire, evict, set strategy, prefer | every candidate gets its turn |
| Conversation binding (`gateway/routing/conversation_binding.rs`) | a row per conversation | read, route, create, move, touch or keep after the answer | bound to who served it; only a failover moves it |
| Attempt flow (`gateway/upstream/attempt_flow/*`) and failover policy | none shared | primary call, fallbacks, retries, classification | bounded retries; every outcome has one decision |
| Users and wallets (`auth/app_manager.rs`, `crates/core/src/storage/account_manager.rs`) | users, wallets, owners of keys | check before a request, charge after it; create, change, delete users; assign keys; top up, set a balance | debt is bounded; a success is charged; an administrator remains |
| Sign-in, plugins, lifecycle, aggregate APIs | sessions, claimed tasks, a flag, a second rotation | see `PROJECT.json` | see `PROJECT.json` |
| Protocol adapters, response bridge, request rewriting, validation, storage CRUD, dashboards, desktop shell, frontend | none, or rows | conversions and reports | out of scope: no interleaving to check |

How they interact. `proxy_validated_request` collects candidates (selection), takes the gate, and runs
the executor. The executor consults cooldowns and in-flight counters, marks cooldowns and, through
`mark_account_unavailable_for_gateway_error`, the account's status, which invalidates the shared
candidates. `prepare_request_setup` orders the candidates by the
account the conversation is bound to, the preferred account, or the key's turn, and the final answer is recorded in the binding.
A hybrid key goes on to aggregate APIs when its accounts are used up, and takes its turn among them from the same table.
The owner's wallet is looked at during validation and charged when the request is logged.
The usage refresh writes usage snapshots and statuses, and calls the token refresh, which
the attempt also calls after a 401. A reload of the configuration
(`reload_runtime_config_from_env`, `gateway/mod.rs`) empties gate table, cooldowns and snapshot while
requests are in flight.

What is hard here: checks and actions in different critical sections (in-flight limit, status, cache);
wake-ups and time-outs on a condition variable; reference counts deciding what a sweep may remove; a
handle that is taken on one path and expected on another; two locks for one rotating token; lost
answers of the authorization server; caches invalidated before a late writer fills them; a gauge counted apart from its
queue; a mark that outlives the call that set it; a cursor into a list that changes; a balance looked at before and charged
after. The hazards
are listed line by line in `PROJECT.json`.

## Modules and how they correspond to the code

**`CoolingSet`** is what the cooldown table promises its callers: a set of cooling accounts to which a
failure adds its own account and from which a success removes its own; members may lapse.
`CandidateExecutor` extends it instead of the table.

**`AccountCooldown`** is `cooldown.rs`: five variables for the five fields, with the clock. A mark runs
the sweep if it is due, consults the ladder for rate limits, and keeps the later end, all in one step as
under the one mutex. `ImplementsCoolingSet` is the refinement
`INSTANCE CoolingSet WITH cooling <- {accounts in cooldown}`.

**`CandidateExecutor`** is `execute_candidate_sequence` for several requests at once. A program counter per
request names the points between critical sections: `candidate` (top of the loop), `slots` (the cooldown
check passed, the in-flight check to come), `claim` (both passed, guard to be taken), `attempt`, `retry`,
`deliver`, `followup`. An upstream attempt is one step with any of the decisions
`run_candidate_attempt` can return; the branches on those decisions are actions of their own, with the
marks they leave. `handle` is `request.is_some()`, `guard` the `AccountInFlightGuard`, whose drop is
part of every action that leaves the attempt. `bridge` is what a delivered answer turned out to
contain, on which the follow-up in `response_finalize.rs` decides.

**`RequestGate`** has the table of locks, each lock named after the request whose look-up made it;
`Shared` is `Arc::strong_count(&entry.lock) > 1`. `asleep` is waiting on the condition variable; a request that was
notified, woke up spuriously or timed out is `awake` until it has the mutex and looks at the boolean.
`aged` says that a key has not been asked for within the time-to-live. `ClearRuntimeState` empties the
table; requests that found their lock before are `orphaned`, and `OneInsidePerKey` speaks of the others
only, because nothing in the code keeps orphans apart from later requests. Mutexes are never poisoned: no
code panics while it holds one.

**`CandidateSelection`** has the accounts' rows, the snapshot and any number of workers, each a thread that
collects, reports an account, stores a usage snapshot or serves the administrator. Each SQL statement
and each critical section is a step. "limited" stands for limited, unavailable and banned, which the same
code sets and the same clause filters. A list is the pair of its ordinary and its scarce part; the quota
guard puts the scarce part at the back. The time-to-live counts ticks. A read of the guard's atomics that is
torn by a concurrent update sees some configuration, which the model's own choice of configurations
covers. `late` is a history variable: the collections an invalidation has overtaken since they read the rows.
The tests in `selection_tests.rs` that an evicted account is gone hold one call after the other; late
snapshots are the exception that concurrency adds, and last one time-to-live.

**`TokenRefresh`** has one account. The authorization server numbers its grants; `spent` remembers who
redeemed a refresh token that has been replaced, and by which path. Each statement on the row and each
request is a step, so a thread may sit between a redemption and its save while others run. `RedeemLost` is
the retry after a lost answer (`usage_http.rs`), which sends the same refresh token again. `mishap` is a history variable:
an answer or a write was lost, or a copy was written whose refresh token somebody else had redeemed. The API
key is present or absent, and may have expired whenever it is looked at. The server refuses only spent
tokens: a revoked one is a reason to give the account up and is not what the properties are about.

**`HttpBackend`** is the accept loop with its request in hand (`loop`), two queues with their gauges, and the workers, together
with the proxy in front and the exit of the process. Send, raise of the gauge, receive, lowering of the gauge and
the handler are steps of their own, because no lock covers two of them. `GivesUp` is a send that ends without success after the queue's
time-out, first to the other queue, then to a 503. A handler is one step: it answers or panics, and a panic leaves the answer to the drop of the
request (a 500 of the server library). `/health` and `/metrics` are handled on the accept thread (backend_runtime.rs:369). The first
request that arrives after the flag was set is answered "shutdown" and ends the loop; later ones are refused, or stay unread on a kept connection, so that
the proxy's graceful drain need not end. Only tests call `request_shutdown`; nothing in the gateway's own binary does. The gauge may stay too high for good: a worker that
is faster than the sender finds it at 0 and leaves it, and the sender then raises it. `tiny_http` and `hyper` are modelled from their use.

**`UsageRefresh`** has the queue of single refreshes and the polling loop side by side; they share no variable. In the queue, the mark and the send are
two steps of the caller; a worker clears the mark whether the refresh returned or panicked. A polling cycle lists the accounts
in some order, takes the window behind the cursor, and runs it on as many short-lived workers as could be spawned; a worker that panics may
break the cycle and then the loop, which is started again. The cursor moves only after a cycle with a success.

**`Routing`** puts together what decides the order of a request's candidates: strategy, the starts per key (a sequence, the one seen longest ago first, so that
expiry and eviction take from its front), the preferred account, and the conversation's binding. Then the candidates are tried, and the final answer does to the binding what
`record_conversation_binding_terminal_response` does. `copy` is the binding read during validation. A route is one step, and so is a change of strategy: a turn taken between its store and its
critical section is forgotten with the others. A conversation is named by a header or by a prompt cache key, always the same way by its clients
(`named`). Pools are any sublists of a fixed order. `heads`, `since` and `served` are history variables: who stood first for each key since its list last
changed, which keys have taken a turn since it did, and who has answered each conversation. `heads` of a key is forgotten when its entry expires or is reset, and once as many other keys
have come as the capacity allows entries, which is when eviction may reach it. A request in flight may bind its conversation to an account deleted meanwhile; such a binding is not selectable and is replaced by the next success.
A hybrid key is left out of `EveryoneInTurn`: its accounts and the aggregate APIs it falls back to advance one and the same start (aggregate_api.rs:461), modulo
two lengths, so that with two accounts and two APIs every such request begins with the same account. A key that is given another strategy while it is used is left out for the same
reason (`OneStartForTwo`).

**`Wallets`** follows requests and administrators through the statements they execute. The precheck (`auth.rs:121`) and the charge (`request_log.rs:633`) look the owner, the user
and the wallet up one after the other, and each time anew; `charging` tells which of the two a request is in. The charge does not look at
the balance, and its cost is anything up to `MostCost`. `row` is what an administrator's call has read: the user for the role and status it writes, the wallet for the difference it adds. Wallet ids are numbered, so that the wallet of a deleted
user and a later one are told apart. Three history variables name what concurrency adds: `disturbed` (the owner of the request's key has
changed since it came), `skewed` (a wallet was charged for a request another one, or none, has let in, or was set by an outdated difference), `overtaken` (the administrators have changed since the call read
them). The properties say what is true apart from these, and each of these happens.

`MC*` modules hold nothing but values for constants and symmetry sets. Definitions marked "Mutant:" are
plausible bugs next to the definition they replace; `PROJECT.json` pairs each with the property it violates,
which shows that the property depends on that line of the code.

## Runs, bounds and fairness

| Run | Instance | What it shows |
|---|---|---|
| `cooldown` | 2 accounts, 9 seconds, ladder 2-3-4-6, forgetting after 4, sweep every 2, counter cap 5 | types and agreement of the maps, one cooldown is the maximum, running cooldowns are only lifted by a success, refinement of `CoolingSet` |
| `executor` | 2 accounts of one ChatGPT account, 2 requests, one of each profile, limit 1 | guards are counted exactly, one answer at most, only Anthropic requests run out, failover leaves a mark, every started request ends |
| `lost_request` | the same with an account each | a statement of the repository that does not hold, see below |
| `gate` | 3 requests, 2 keys | exclusion per key, no lost wake-up, everyone gets through |
| `selection` | 2 accounts, 2 workers, low and exhausted readings, time-to-live 1 | scarce accounts as last resort, staleness only through late collections |
| `manual_disable`, `half_known` | 1 account, 2 workers | two statements that do not hold |
| `token` | 2 threads, 4 grants | the row stays redeemable, queued refreshes see each other, a lost race is recovered from |
| `http` | 3 requests, a queue of one place and a worker each | gauges cover the queues, a request is in one place, the exit cuts off only the abandoned, the loop comes back, what was queued is answered |
| `usage` | 3 accounts, 1 of them asked for, 2 callers, 2 workers, 2 pollers, batches of 2 | a mark is one task and temporary, a cycle polls nobody twice, polling goes on and comes around |
| `routing` | 2 accounts, 2 APIs, 3 keys (with conversations, hybrid, aggregate), 2 requests, capacity 2, expiry | everybody in turn, bound to who served, moved only by failover, a cached conversation stays |
| `wallets` | 2 users, 1 key, 2 requests at a cost of 1, 2 administrators' threads, balances -3 .. 1 | debt is bounded, a success is charged, no call on its own retires the last administrator |

Why the bounds are enough for what happens in them. The cooldown clock runs long enough for an offence to climb,
be forgotten and be marked again after a skipped sweep; the scaled durations keep the order of the
source's (6 < 20 < 30 < 45 < 60 < 300 < 1800 = forgetting window < 7200). Two requests are what a race on a guard takes, and two
accounts make the difference between "more candidates" and "the last". Three requests let one sleep, one hold and
one look up, with the sweep in between. Two workers are a collector and a writer. Four grants let two threads redeem
one after the other with a sign-in and one more redemption, and the two paths overtake each other in both orders. In the HTTP backend the
accept loop holds one request while each queue holds another, so that both sends time out, in either direction. A batch of two in a list of up to three makes the
window wrap and the list shrink below the cursor. A capacity of two starts for three keys evicts one that is in use elsewhere; two accounts give a list whose turns
can be out of order. Two wallet requests are admitted on the last unit of credit together; two administrators' threads overtake each other between read, count and
write. The
proofs remove the bounds for the safety properties.

Bounds that are in the specifications: `LastSecond` stops the cooldown clock, `MaxGrants` the
authorization server, `MaxWallets`, `Lowest` and `Highest` the wallets (a debt of 3 is one more than two requests can make). A request runs once in `CandidateExecutor`, `RequestGate` and `HttpBackend`, so these systems really end, and their
configurations turn the deadlock check off. The others keep it.

Fairness. In the executor and the gate: weak fairness of each request's own steps (`Serve`), because a request
has a worker thread of its own and an upstream attempt ends by the HTTP client's time-outs. Nothing else is fair: no
cooldown need lapse, no deadline pass, no wait time out, no spurious wake-up come. A request that waits for the gate is
served only by what others must do anyway, that is finish and notify. In the HTTP backend: weak fairness of the
accept loop (its own handlers included, which only read counters) and of each worker outside of its handler; that handlers end is the premise of `QueuedIsAnswered` (`HandlersEnd`), and `AcceptLoopReturns` does without it.
In the usage refresh: weak fairness of a send that has begun, of the workers and pollers, and of the polling loop, justified by the total
time-out of the usage HTTP client (`usage_http.rs:564-580`): no refresh takes for ever. That the list settles and cycles succeed again and again is not
assumed but the premise of the second half of `PollingComesAround`. `FairSpec` of each module, in the executor `MCSpec`, is that formula; the other runs have no fairness.

## Where the code and its documentation disagree

Each is a run that TLC finds violated, quoted with its line in `PROJECT.json`.

1. `RequestStillExists` (`candidate_executor.rs:540`). The `expect` says the request is still there when no candidate
   handled it. After an answer was handed to the bridge and named the account deactivated or over its limit, the loop goes on without the
   handle; if all remaining candidates are skipped the `expect` panics, and if one is not, the sequence ends with
   "request already consumed". The panic is caught by the worker, and the client has its answer, or the
   server library answers 500 for a request dropped unanswered.
2. `ManualDisableSticks` (tests `*_manual_disabled_status`). An automatic change that checked before the administrator
   disabled the account overwrites the disabled status.
3. `AvailableMeansInService`. `evaluate_snapshot` in Rust and the filter in SQL treat a half-known secondary window differently:
   such an account is set active and never offered.

Met on the way, without a run of their own: the in-flight counter is read in one critical section and raised in another, so an account can
exceed `account_max_inflight` (`support/candidates.rs:143`); the turns of a hybrid key (see `Routing`); the last two active administrators can be
retired by two calls at once (`app_manager.rs:434`), as the test `admin_user_update_edits_member_and_protects_last_active_admin` makes one call after the other;
a failed charge is logged and not tried again.

## What is proved

TLAPS checks every leaf; the backends are Z3, Zenon and LS4. The assumptions are the named `ASSUME`s on constants of each module, which
TLC evaluates in the runs. All theorems are of the form `Spec => []Inv` or `Spec => [][A]_vars`.

- **`GatewayRouting_proofs`** on `AccountCooldown`: types and cap of the counter, agreement of the maps, the bound on a cooldown, that a running
  cooldown is only lifted, that the ladder is descended one rung at a time and old offences are forgotten, and the refinement of `CoolingSet`. The three invariants are inductive together; a mark is
  decomposed into sweep, ladder and "keep the later end" (`LadderSecsRange`, `NextOffenseRange`, `CleanedFacts`), so that each
  action needs one fact about each part.
- **`GatewayRouting_proofs`** on `Routing`: types, turns, and the three properties of bindings. `EveryoneInTurn` speaks of the heads of the past, so the invariant
  `TurnsInv` ties them to the table. `Follows` says that the remembered heads of a key are consecutive places of its list and end right before its start,
  modulo the length; as there are at most as many as the list has places, they differ (`FollowingIsInjective`). That the start is still the one of these heads needs
  `Kept`: the entry is there, and all keys behind it have come since. Entries have different keys, so fewer than `Capacity` keys that came mean fewer than `Capacity` entries behind it
  (`FewBehind`), and eviction, which leaves the last `Capacity`, cannot reach it (`TurnTaken`). `OneFamily` says that the two lists of a key do not share a start, which is where hybrid
  keys drop out. `RouteLosesNobody` says that
  no ordering loses a candidate (`RotateLeftIsInjective`, `RoutedList`). Of the bindings, `RecordedIs` says what an answer can do, and `BindingsStay` that nothing else binds; `BoundToWhoServed` is inductive with the types, and
  `MovedOnlyByFailover` and `CacheConversationStays` follow step by step (`MovedByAnswer`).
- **`CandidateExecutor_proofs`**: exact in-flight counts, one answer, who runs out, marks on failover. The invariant `RInv(r)` says
  what each program point implies for one request's guard, handle, answers and position; `Frame` gives it to all other requests for
  free, and the counts follow a claim and a release by cardinality lemmas. `OnlyAnthropicRunsOut` alone is not
  inductive: it needs that a position past the end of the list is reached only by a skip of the last candidate.
- **`RequestGate_proofs`**: mutual exclusion needs `UsersKeepEntry` (a request keeps finding in the table the lock it looked up, which is
  what the reference count is for) and `HeldIsOne` (the boolean tells the truth); `NoLostWakeup` is inductive next to them.
- **`CandidateSelection_proofs`**: a snapshot inherits its truth from the collection that wrote it, so `GuardKept` and `SnapshotFresh` have
  counterparts for a list under way (`CollectionsFresh`), and `ChangeReady` types the pending change of a writer.
- **`TokenRefresh_proofs`**: `PrivateUntilSaved` (a rotated token that is not saved yet is known to its redeemer alone) makes
  `SpentRowIsReplaced` inductive: whoever spent the token of the row still has its successor in hand, because nobody else
  can have spent that. With `NobodyKeepsOwnSpent` and `OriginalKept` follow the three properties. Steps are grouped by what they do to the
  tokens (quiet, write, loss, grant) so that each group is handled once.

- **`HttpBackend_proofs`**: `GaugeIsNoUnderstatement` is inductive next to the types once it counts the request just sent and
  the receivers that have not counted yet. `RequestsAreHeldOnce` goes by holders: connection, loop, two queues, workers hold a request at most once each and
  no two of them the same one; every step moves it from one holder to another, and the counts of the property follow at the end. `ExitIsSafe` needs that the proxy
  has drained: nobody waits when `front` is past `serving`.
- **`UsageRefresh_proofs`**: marks likewise go by holders (caller, queue, worker). `CyclesPollOnce` is arithmetic: fewer than n consecutive numbers
  have different remainders modulo n (`ModApart`), so the window behind the cursor is injective for any list and limit (`WindowIsInjective`). `NobodyTwice` puts the two
  together.
- **`Wallets_proofs`**: the balance alone does not bound the debt, because a request is charged long after it was let in. `DebtIsCovered` does: every request in flight that a wallet has let in lowers the debt
  the wallet may have by `MostCost`. Letting one in takes a positive balance, and a charge takes at most what the departure of its request frees; `NotYetLetIn` says who has none yet. `SeenStillHolds` and `CountStillHolds` carry
  what an administrator's call has read, and the number it has counted, to its write unless it was overtaken; with them `LastAdminStays` is a matter of one step. `SuccessIsCharged` follows from
  the program points of the charge.

## What is only model-checked, and what is not modelled

Only model-checked: `EveryRequestEnds`, `EveryRequestPasses`, `AcceptLoopReturns`, `QueuedIsAnswered`, `MarkIsTemporary`, `PollingComesAround` (liveness
under fairness is beyond the prover), and the three violated statements. Every other property is
proved: every invariant and every action property that a run checks; that the ladder is descended one rung at a time and old offences are forgotten, and that a
route loses no candidate, is proved and not run.

Left out of modelled components: the proxy attempt towards aggregate APIs; the inside of an attempt; reasons and events of status changes;
patching of identities into a copy of the row; switching the database file; deleted accounts and accounts without a refresh token
in `TokenRefresh`; the schedule of the next refresh; the sweep of exchange locks, which follows the pattern of the gate's; the loops for tokens, warm-up and keepalive, which poll like the usage
loop without batches; the health challenge among the first candidates, off by default (its window is one), and the scores it reads; thread anchors and epochs of a conversation, which only rewrite the request sent
upstream; the sweep of old bindings, which nothing calls; projects as owners, billing rules and the switch of distribution; sessions. A deleted account's token
row can be written again by a refresh in flight, as the tables have no foreign keys; no property is about it.

Not modelled at all, with reasons per component in `PROJECT.json`: code without shared state (protocol adapters, rewriting, bridges), reports,
configuration, row-by-row administration, the desktop shell and the frontend.

## Plan

Done: the path of a request (HTTP backend, routing, selection, gate, executor, cooldowns), the tokens it runs on, the usage refresh, and the
wallets that pay for it, with a proof of every safety property. What is left, in this order:

1. The connection pool (`StoragePool` in `storage/storage_helpers.rs`): handles taken, returned, replaced when the database file is switched.
2. Composition of executor and selection: the executor's candidate lists come from real snapshots; an account out of service is offered only from
   a late snapshot.
3. The branches of one attempt, refined to the choice of outcomes in `CandidateExecutor`. They work on values of one request only (statuses,
   headers, error texts), which tests enumerate as well, so that they come last.
