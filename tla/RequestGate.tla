----------------------------- MODULE RequestGate -----------------------------
(***************************************************************************)
(* The request gate: requests with the same key (API key, path, model) go  *)
(* through execute_candidate_sequence one after the other                  *)
(* (gateway/routing/request_gate.rs, proxy_pipeline/request_gate.rs).      *)
(*                                                                         *)
(* A table maps keys to reference-counted locks.  A lock is a boolean      *)
(* under a mutex with a condition variable.  The table sweeps entries that *)
(* have not been asked for in a while, and a reload of the configuration   *)
(* empties it.  The gate is soft: a request whose wait times out goes on   *)
(* without it.                                                             *)
(*                                                                         *)
(* Each critical section, of the table's mutex or of a lock's mutex, is a  *)
(* step.  Waiting on the condition variable is being "asleep"; a request   *)
(* that was notified, woke up spuriously or timed out is "awake" until it  *)
(* has the mutex again and looks at the boolean.                           *)
(***************************************************************************)
EXTENDS FiniteSets

CONSTANTS
    Requests,
    Keys,
    NoLock

ASSUME NoLockAssumption == NoLock \notin Requests

\* A RequestGateLock is named after the request whose look-up made it.
Locks == Requests

\* How long acquire_request_gate may wait: for ever (no gate timeout and no
\* deadline), for a while, or not at all (the deadline has passed).
Patience == {"unbounded", "bounded", "none"}

VARIABLES
    entry,       \* REQUEST_GATE_LOCKS.entries: key -> lock
    aged,        \* keys not asked for within REQUEST_GATE_LOCK_TTL_SECS
    held,        \* locks whose state.held is true
    pc,
    key,         \* gate_key of each request
    patience,    \* how long each request may wait
    ref,         \* the Arc<RequestGateLock> the request keeps alive
    timedOut,    \* the wait of the request has lasted for its timeout
    orphaned     \* requests that found their lock before the table was last emptied

vars == <<entry, aged, held, pc, key, patience, ref, timedOut, orphaned>>

At(r, label) == pc[r] = label
Goto(r, label) == pc' = [pc EXCEPT ![r] = label]

Inside(r) == At(r, "holding")
Sleepers(l) == {r \in Requests : At(r, "asleep") /\ ref[r] = l}

\* Arc::strong_count(&entry.lock) > 1: somebody besides the table refers to it.
Shared(l) == \E r \in Requests : ref[r] = l

Init ==
    /\ entry = [k \in Keys |-> NoLock]
    /\ aged = {}
    /\ held = {}
    /\ pc = [r \in Requests |-> "idle"]
    /\ key \in [Requests -> Keys]
    /\ patience \in [Requests -> Patience]
    /\ ref = [r \in Requests |-> NoLock]
    /\ timedOut = [r \in Requests |-> FALSE]
    /\ orphaned = {}

-----------------------------------------------------------------------------
(* The table *)

\* Mutant: the reference count is not looked at.
ReclaimedWhenAged(k) == k \in aged

\* maybe_cleanup_request_gate_locks, when it is due
Reclaimed(k) == k \in aged /\ ~Shared(entry[k])
SweptEntry == [k \in Keys |-> IF Reclaimed(k) THEN NoLock ELSE entry[k]]

\* request_gate_lock: perhaps a sweep, then the entry of the key, made if missing.
LookUp(r) ==
    /\ At(r, "idle")
    /\ \E table \in {entry, SweptEntry} :
          entry' = [table EXCEPT ![key[r]] = IF @ = NoLock THEN r ELSE @]
    /\ ref' = [ref EXCEPT ![r] = entry'[key[r]]]
    /\ aged' = aged \ {key[r]}
    /\ Goto(r, "found")
    /\ UNCHANGED <<held, key, patience, timedOut, orphaned>>

\* clear_runtime_state, when the configuration is reloaded
ClearRuntimeState ==
    /\ \E k \in Keys : entry[k] # NoLock
    /\ entry' = [k \in Keys |-> NoLock]
    /\ aged' = {}
    /\ orphaned' = {r \in Requests : ref[r] # NoLock}
    /\ UNCHANGED <<held, pc, key, patience, ref, timedOut>>

\* Mutant: the sweep remembers locks instead of keys.
AgeLock(k) ==
    /\ entry[k] # NoLock /\ k \notin aged
    /\ aged' = aged \cup {entry[k]}
    /\ UNCHANGED <<entry, held, pc, key, patience, ref, timedOut, orphaned>>

\* Half an hour passes without a look-up of the key.
Age(k) ==
    /\ entry[k] # NoLock /\ k \notin aged
    /\ aged' = aged \cup {k}
    /\ UNCHANGED <<entry, held, pc, key, patience, ref, timedOut, orphaned>>

-----------------------------------------------------------------------------
(* The lock *)

Free(l) == l \notin held

Enter(r) ==
    /\ held' = held \cup {ref[r]}
    /\ Goto(r, "holding")
    /\ UNCHANGED <<ref, orphaned>>

\* acquire_request_gate returns None and its Arc is dropped.
GoWithout(r) ==
    /\ Goto(r, "bypassing")
    /\ ref' = [ref EXCEPT ![r] = NoLock]
    /\ orphaned' = orphaned \ {r}
    /\ UNCHANGED held

\* try_acquire
TryAcquire(r) ==
    /\ At(r, "found")
    /\ \/ Free(ref[r]) /\ Enter(r)
       \/ ~Free(ref[r]) /\ Goto(r, "busy") /\ UNCHANGED <<held, ref, orphaned>>
    /\ UNCHANGED <<entry, aged, key, patience, timedOut>>

\* acquire and acquire_with_timeout up to the first wait; with a wait of zero
\* neither is called.
BeginWait(r) ==
    /\ At(r, "busy")
    /\ \/ patience[r] = "none" /\ GoWithout(r)
       \/ patience[r] # "none" /\ Free(ref[r]) /\ Enter(r)
       \/ /\ patience[r] # "none" /\ ~Free(ref[r])
          /\ Goto(r, "asleep")
          /\ UNCHANGED <<held, ref, orphaned>>
    /\ UNCHANGED <<entry, aged, key, patience, timedOut>>

\* Condvar may wake a thread for no reason.
WakeUp(r) ==
    /\ At(r, "asleep")
    /\ Goto(r, "awake")
    /\ UNCHANGED <<entry, aged, held, key, patience, ref, timedOut, orphaned>>

\* The timeout can also pass between a notification and the mutex.
TimeOut(r) ==
    /\ pc[r] \in {"asleep", "awake"}
    /\ patience[r] = "bounded" /\ ~timedOut[r]
    /\ timedOut' = [timedOut EXCEPT ![r] = TRUE]
    /\ Goto(r, "awake")
    /\ UNCHANGED <<entry, aged, held, key, patience, ref, orphaned>>

\* Mutant: the clock is looked at before the boolean.
RecheckClockFirst(r) ==
    /\ At(r, "awake")
    /\ \/ timedOut[r] /\ GoWithout(r)
       \/ ~timedOut[r] /\ Free(ref[r]) /\ Enter(r)
       \/ /\ ~Free(ref[r]) /\ ~timedOut[r]
          /\ Goto(r, "asleep")
          /\ UNCHANGED <<held, ref, orphaned>>
    /\ UNCHANGED <<entry, aged, key, patience, timedOut>>

\* The loop of wait_while and wait_timeout_while: the boolean is looked at before
\* the clock.
Recheck(r) ==
    /\ At(r, "awake")
    /\ \/ Free(ref[r]) /\ Enter(r)
       \/ ~Free(ref[r]) /\ timedOut[r] /\ GoWithout(r)
       \/ /\ ~Free(ref[r]) /\ ~timedOut[r]
          /\ Goto(r, "asleep")
          /\ UNCHANGED <<held, ref, orphaned>>
    /\ UNCHANGED <<entry, aged, key, patience, timedOut>>

\* Mutant: the drop does not notify.
NotifyNobody(r, l) == Goto(r, "done")

\* notify_one: some sleeper of the lock wakes up, if there is one.
NotifyOne(r, l) ==
    \/ /\ Sleepers(l) = {}
       /\ Goto(r, "done")
    \/ \E s \in Sleepers(l) : pc' = [pc EXCEPT ![r] = "done", ![s] = "awake"]

\* RequestGateGuard::drop, at the end of proxy_validated_request or in its panic
Release(r) ==
    /\ Inside(r)
    /\ held' = held \ {ref[r]}
    /\ NotifyOne(r, ref[r])
    /\ ref' = [ref EXCEPT ![r] = NoLock]
    /\ orphaned' = orphaned \ {r}
    /\ UNCHANGED <<entry, aged, key, patience, timedOut>>

FinishWithout(r) ==
    /\ At(r, "bypassing")
    /\ Goto(r, "done")
    /\ UNCHANGED <<entry, aged, held, key, patience, ref, timedOut, orphaned>>

-----------------------------------------------------------------------------
\* Steps of the thread that serves the request, once it has started
Serve(r) ==
    \/ TryAcquire(r)
    \/ BeginWait(r)
    \/ Recheck(r)
    \/ Release(r)
    \/ FinishWithout(r)

Next ==
    \/ ClearRuntimeState
    \/ \E k \in Keys : Age(k)
    \/ \E r \in Requests : LookUp(r) \/ WakeUp(r) \/ TimeOut(r) \/ Serve(r)

Spec == Init /\ [][Next]_vars

\* Threads keep running and the guarded work ends; timeouts may come late, spurious
\* wake-ups and notifications beyond notify_one's may not come at all.
FairSpec == Spec /\ \A r \in Requests : WF_vars(Serve(r))

-----------------------------------------------------------------------------
(* Properties *)

Label == {"idle", "found", "busy", "asleep", "awake", "holding", "bypassing", "done"}

TypeOK ==
    /\ entry \in [Keys -> Locks \cup {NoLock}]
    /\ aged \subseteq Keys
    /\ held \subseteq Locks
    /\ pc \in [Requests -> Label]
    /\ key \in [Requests -> Keys]
    /\ patience \in [Requests -> Patience]
    /\ ref \in [Requests -> Locks \cup {NoLock}]
    /\ timedOut \in [Requests -> BOOLEAN]
    /\ orphaned \subseteq Requests

\* Two requests of one key are never inside together, although look-up, first try
\* and wait are separate critical sections and the sweep may run between them.
\* Only a request that found its lock before a reload of the configuration is
\* outside this guarantee: the reload empties the table while locks are in use.
OneInsidePerKey ==
    \A r, s \in Requests \ orphaned :
       Inside(r) /\ Inside(s) /\ key[r] = key[s] => r = s

\* No wake-up is lost: when a lock is free and somebody sleeps on it, somebody else
\* is awake and will look at it.  One notification per release is enough although
\* the notified request may find the lock taken again, or may have timed out.
NoLostWakeup ==
    \A l \in Locks :
       Free(l) /\ Sleepers(l) # {} => \E r \in Requests : At(r, "awake") /\ ref[r] = l

\* Every request that asked for the gate gets through, with or without the guard.
EveryRequestPasses == \A r \in Requests : (pc[r] # "idle") ~> (pc[r] = "done")

=============================================================================
