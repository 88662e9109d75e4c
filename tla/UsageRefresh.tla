----------------------------- MODULE UsageRefresh -----------------------------
(***************************************************************************)
(* Who refreshes the usage of which account, and when (usage/refresh):     *)
(*                                                                         *)
(*  - the queue (queue.rs): request threads ask for an account, a set of   *)
(*    pending accounts keeps out a second task for the same one, a fixed   *)
(*    pool of workers takes the tasks;                                     *)
(*  - the polling loop (batch.rs, runner.rs): one thread that lists the    *)
(*    accounts, takes a batch behind a cursor, runs it on short-lived      *)
(*    workers of its own and moves the cursor on.                          *)
(*                                                                         *)
(* What a refresh does to the account and its token is modelled in         *)
(* CandidateSelection and TokenRefresh.  Here it succeeds, fails, panics   *)
(* or takes for ever.                                                      *)
(***************************************************************************)
EXTENDS Naturals, Sequences, FiniteSets, Functions

CONSTANTS
    Accounts,
    Asked,        \* those the queue is asked for; a bound, the others are only polled
    Callers,      \* threads that ask the queue for a refresh
    Workers,      \* threads of the queue
    Pollers,      \* the most workers of one polling cycle
    BatchLimit,   \* CODEXMANAGER_USAGE_POLL_BATCH_LIMIT; 0 is no limit
    None

ASSUME AccountsFinite == IsFiniteSet(Accounts)
ASSUME AskedAssumption == Asked \subseteq Accounts
ASSUME NoneAssumption == None \notin Accounts
ASSUME BatchLimitAssumption == BatchLimit \in Nat

VARIABLES
    pending,    \* PENDING_USAGE_REFRESH_TASKS
    asking,     \* caller -> the account it has marked and not sent yet
    queue,
    worker,     \* "recv", "run", "clear", or "gone"
    task,       \* worker -> the account of its task
    listed,     \* the accounts to poll, in the order of the last query
    enabled,    \* USAGE_POLLING_ENABLED
    poll,       \* the polling loop: "sleep", "cycle" or "down" (it panicked)
    cursor,     \* USAGE_POLL_CURSOR
    cycle,      \* of the running cycle: accounts listed and accounts taken
    batch,      \* the channel of those of its accounts nobody has started on
    poller,     \* worker of the cycle -> its account
    crew,       \* the workers of the cycle that still run
    verdict     \* "failed" so far, "succeeded" for some account, or "broken"

asks == <<pending, asking, queue, worker, task>>
cycleVars == <<cycle, batch, poller, crew, verdict>>
polls == <<listed, enabled, poll, cursor, cycleVars>>
vars == <<asks, polls>>

\* Orders of some of the accounts.
Listings == UNION {Injection(1..n, Accounts) : n \in 0..Cardinality(Accounts)}

NoCycle == [total |-> 0, taken |-> 0]

\* A worker whose thread could not be spawned takes its receiver with it.
Init ==
    /\ pending = {}
    /\ asking = [c \in Callers |-> None]
    /\ queue = <<>>
    /\ worker \in [Workers -> {"recv", "gone"}]
    /\ task = [w \in Workers |-> None]
    /\ listed = <<>>
    /\ enabled \in BOOLEAN
    /\ poll = "sleep" /\ cursor = 0
    /\ cycle = NoCycle /\ batch = <<>> /\ crew = {} /\ verdict = "failed"
    /\ poller = [p \in Pollers |-> None]

-----------------------------------------------------------------------------
(* The queue *)

\* mark_usage_refresh_task_pending: who finds the account pending is done.
Ask(c, a) ==
    /\ asking[c] = None /\ a \notin pending
    /\ pending' = pending \cup {a}
    /\ asking' = [asking EXCEPT ![c] = a]
    /\ UNCHANGED <<queue, worker, task, polls>>

Connected == \E w \in Workers : worker[w] # "gone"

\* Mutant: a send that fails leaves the mark.
StayMarked(a) == UNCHANGED pending

Unmark(a) == pending' = pending \ {a}

SendTask(c) ==
    /\ asking[c] # None
    /\ asking' = [asking EXCEPT ![c] = None]
    /\ \/ /\ Connected
          /\ queue' = Append(queue, asking[c])
          /\ UNCHANGED pending
       \/ /\ ~Connected
          /\ Unmark(asking[c])
          /\ UNCHANGED queue
    /\ UNCHANGED <<worker, task, polls>>

Receive(w) ==
    /\ worker[w] = "recv" /\ queue # <<>>
    /\ task' = [task EXCEPT ![w] = Head(queue)]
    /\ queue' = Tail(queue)
    /\ worker' = [worker EXCEPT ![w] = "run"]
    /\ UNCHANGED <<pending, asking, polls>>

\* Mutant: a panic ends the thread, and the mark stays.
DiesOf(panics) == IF panics THEN "gone" ELSE "clear"

\* catch_unwind
Continues(panics) == "clear"

Run(w) ==
    /\ worker[w] = "run"
    /\ \E panics \in BOOLEAN : worker' = [worker EXCEPT ![w] = Continues(panics)]
    /\ UNCHANGED <<pending, asking, queue, task, polls>>

ClearTask(w) ==
    /\ worker[w] = "clear"
    /\ Unmark(task[w])
    /\ worker' = [worker EXCEPT ![w] = "recv"]
    /\ task' = [task EXCEPT ![w] = None]
    /\ UNCHANGED <<asking, queue, polls>>

-----------------------------------------------------------------------------
(* The polling loop *)

\* set_background_tasks_settings
Switch ==
    /\ enabled' = ~enabled
    /\ UNCHANGED <<asks, listed, poll, cursor, cycleVars>>

\* Mutant: the limit is not cut down to the length of the list.
ConfiguredLimit(total) == IF BatchLimit = 0 THEN total ELSE BatchLimit

\* usage_poll_batch_limit
Limit(total) == IF BatchLimit = 0 \/ BatchLimit > total THEN total ELSE BatchLimit

\* usage_poll_batch_indices
Window(s) == [k \in 1..Limit(Len(s)) |-> s[((cursor + k - 1) % Len(s)) + 1]]

\* usage_refresh_worker_count, never more than there is to do
Crews(taken) == {s \in SUBSET Pollers : s # {} /\ Cardinality(s) <= taken}

\* refresh_usage_for_polling_batch up to run_usage_refresh_tasks.  Since the last cycle
\* accounts have come, gone, been disabled, or moved because they were updated; an empty
\* list is nothing to do.
BeginCycle ==
    /\ poll = "sleep" /\ enabled
    /\ listed' \in Listings
    /\ \/ /\ listed' = <<>>
          /\ UNCHANGED <<poll, cycleVars>>
       \/ /\ listed' # <<>>
          /\ batch' = Window(listed')
          /\ cycle' = [total |-> Len(listed'), taken |-> Len(batch')]
          /\ crew' \in Crews(Len(batch'))
          /\ poll' = "cycle" /\ verdict' = "failed"
          /\ UNCHANGED poller
    /\ UNCHANGED <<asks, enabled, cursor>>

Take(p) ==
    /\ p \in crew /\ poller[p] = None /\ batch # <<>>
    /\ poller' = [poller EXCEPT ![p] = Head(batch)]
    /\ batch' = Tail(batch)
    /\ UNCHANGED <<asks, listed, enabled, poll, cursor, cycle, crew, verdict>>

PollSucceeds(p) ==
    /\ poller[p] # None
    /\ poller' = [poller EXCEPT ![p] = None]
    /\ verdict' = IF verdict = "broken" THEN "broken" ELSE "succeeded"
    /\ UNCHANGED <<asks, listed, enabled, poll, cursor, cycle, batch, crew>>

\* The error is recorded; the worker goes on to its next account.
PollFails(p) ==
    /\ poller[p] # None
    /\ poller' = [poller EXCEPT ![p] = None]
    /\ UNCHANGED <<asks, listed, enabled, poll, cursor, cycle, batch, crew, verdict>>

\* The worker finds no database, or its refresh panics: it is gone, and the cycle is
\* an error whatever the others do.
PollerBreaks(p) ==
    /\ p \in crew
    /\ crew' = crew \ {p}
    /\ poller' = [poller EXCEPT ![p] = None]
    /\ verdict' = "broken"
    /\ UNCHANGED <<asks, listed, enabled, poll, cursor, cycle, batch>>

\* Mutant: the cursor is set behind the accounts taken, wherever they began.
Restarted == cycle.taken % cycle.total

\* Mutant: wrapped by subtracting the length of the list.
Subtracted == IF cursor + cycle.taken < cycle.total THEN cursor + cycle.taken
              ELSE cursor + cycle.taken - cycle.total - 1

\* next_usage_poll_cursor
Advanced == ((cursor % cycle.total) + cycle.taken) % cycle.total

\* The batch is run: nobody works on it, and nothing is left or nobody to take it.  A
\* cycle without one success is an error, and an error leaves the cursor where it is.
\* One that panics takes the loop down with it.
EndCycle ==
    /\ poll = "cycle"
    /\ \A p \in Pollers : poller[p] = None
    /\ batch = <<>> \/ crew = {}
    /\ cursor' = IF verdict = "succeeded" THEN Advanced ELSE cursor
    /\ poll' \in IF verdict = "broken" THEN {"sleep", "down"} ELSE {"sleep"}
    /\ cycle' = NoCycle /\ batch' = <<>> /\ crew' = {} /\ verdict' = "failed"
    /\ UNCHANGED <<asks, listed, enabled, poller>>

\* spawn_background_loop
Restart ==
    /\ poll = "down"
    /\ poll' = "sleep"
    /\ UNCHANGED <<asks, listed, enabled, cursor, cycleVars>>

-----------------------------------------------------------------------------
Poll(p) == Take(p) \/ PollSucceeds(p) \/ PollFails(p) \/ PollerBreaks(p)
PollLoop == BeginCycle \/ EndCycle \/ Restart
Work(w) == Receive(w) \/ Run(w) \/ ClearTask(w)

Next ==
    \/ \E c \in Callers : SendTask(c) \/ \E a \in Asked : Ask(c, a)
    \/ \E w \in Workers : Work(w)
    \/ \E p \in Pollers : Poll(p)
    \/ PollLoop \/ Switch

Spec == Init /\ [][Next]_vars

\* The threads run, and a refresh ends: its HTTP client has a timeout.
FairSpec ==
    /\ Spec
    /\ \A c \in Callers : WF_vars(SendTask(c))
    /\ \A w \in Workers : WF_vars(Work(w))
    /\ \A p \in Pollers : WF_vars(Poll(p))
    /\ WF_vars(PollLoop)

-----------------------------------------------------------------------------
(* Properties *)

QueueTypeOK ==
    /\ pending \subseteq Accounts
    /\ asking \in [Callers -> Accounts \cup {None}]
    /\ queue \in Seq(Accounts)
    /\ worker \in [Workers -> {"recv", "run", "clear", "gone"}]
    /\ task \in [Workers -> Accounts \cup {None}]
    /\ \A w \in Workers : /\ worker[w] = "recv" => task[w] = None
                          /\ worker[w] \in {"run", "clear"} => task[w] # None

PollTypeOK ==
    /\ listed \in Listings
    /\ enabled \in BOOLEAN
    /\ poll \in {"sleep", "cycle", "down"}
    /\ cursor \in Nat
    /\ cycle \in [total : Nat, taken : Nat]
    /\ poll = "cycle" => cycle.total > 0
    /\ batch \in Seq(Accounts)
    /\ poller \in [Pollers -> Accounts \cup {None}]
    /\ crew \subseteq Pollers
    /\ \A p \in Pollers : poller[p] # None => p \in crew
    /\ verdict \in {"failed", "succeeded", "broken"}

TypeOK == QueueTypeOK /\ PollTypeOK

InQueue(a) == {i \in DOMAIN queue : queue[i] = a}
Asking(a) == {c \in Callers : asking[c] = a}
Running(a) == {w \in Workers : task[w] = a}

\* An account is pending exactly while one task of it is with a caller, in the queue or
\* with a worker, and never two: the same account is not refreshed twice at a time by
\* the queue, and no mark is left behind that would keep it from being refreshed again.
PendingIsOneTask ==
    \A a \in Accounts :
       Cardinality(Asking(a)) + Cardinality(InQueue(a)) + Cardinality(Running(a))
          = IF a \in pending THEN 1 ELSE 0

\* A polling cycle never has an account twice, however short the list is against the
\* batch limit and wherever the cursor stands in it.
PolledOncePerCycle ==
    /\ IsInjective(batch)
    /\ \A p \in Pollers : poller[p] \notin Range(batch)
    /\ \A p, q \in Pollers : poller[p] = poller[q] /\ poller[p] # None => p = q

\* Neither part refreshes an account twice at a time.
OneRefreshEach == PendingIsOneTask /\ PolledOncePerCycle

\* A mark is taken off again, panics or not: the account can be asked for again.
MarkIsTemporary == \A a \in Accounts : (a \in pending) ~> (a \notin pending)

\* Whatever workers of a cycle panic, and if the loop does with them, polling goes on.
\* And it goes round: once the list stays as it is, and as long as cycles succeed again
\* and again, every listed account is polled again and again, however the batch divides
\* the list.  (A batch that fails as a whole is tried again without end: that is why the
\* successes are a condition.)
GoesOn == (poll # "sleep") ~> (poll = "sleep")
ListSettles == <>[][UNCHANGED listed]_listed
CyclesSucceed == []<><<EndCycle /\ verdict = "succeeded">>_vars
Polled(a) == \E p \in Pollers : poller[p] = a
Listed(a) == a \in Range(listed)

PollingComesAround ==
    /\ GoesOn
    /\ ListSettles /\ CyclesSucceed
          => \A a \in Accounts : []<>(Polled(a) \/ ~Listed(a))

=============================================================================
