-------------------------- MODULE CandidateExecutor --------------------------
(***************************************************************************)
(* One gateway request walks its list of candidate accounts                *)
(* (upstream/proxy_pipeline/candidate_executor.rs,                         *)
(* execute_candidate_sequence) while other requests do the same.           *)
(*                                                                         *)
(* The requests share three things: the set of accounts that are cooling   *)
(* down (CoolingSet), the counters of requests in flight per account, and  *)
(* the accounts taken out of service in the database.  Everything else     *)
(* belongs to one request: its candidates in route order, the position     *)
(* reached, the handle on the client's connection (an Option that is taken *)
(* when an answer is sent) and the guard of the account it occupies.       *)
(*                                                                         *)
(* Checking a candidate and occupying it are separate critical sections    *)
(* in the code and separate steps here.  One upstream attempt is one step  *)
(* that ends in any decision run_candidate_attempt can return.             *)
(***************************************************************************)
EXTENDS CoolingSet, Integers, Sequences, FiniteSets

CONSTANTS
    Requests,
    Profiles,        \* what the loop wants to know of a request, see Profile
    Scope,           \* account -> ChatGPT account or workspace it acts for
    MaxInflight,     \* account_max_inflight, 0 turns the limit off
    NoAccount

Profile == [anthropic : BOOLEAN,   \* protocol_type is anthropic_native
            anchored  : BOOLEAN,   \* anthropic_has_thread_anchor
            retryable : BOOLEAN,   \* turn state header or encrypted content
            deadline  : BOOLEAN]   \* request_deadline is Some

ASSUME ProfilesAssumption == Profiles \subseteq Profile
ASSUME MaxInflightAssumption == MaxInflight \in Nat
ASSUME NoAccountAssumption == NoAccount \notin Accounts
ASSUME AccountsFinite == IsFiniteSet(Accounts) /\ IsFiniteSet(Requests)

VARIABLES
    inflight,      \* ACCOUNT_INFLIGHT: account -> requests that hold a guard
    unavailable,   \* accounts banned or limited in the database
    pc,            \* where each request is
    profile,
    order,         \* candidates, in route order
    idx,           \* position in order, from 1
    forceStrip,    \* force_strip_session_affinity_after_challenge
    expired,       \* the request deadline has passed
    handle,        \* request.is_some()
    guard,         \* account whose in-flight guard the request holds
    bridge,        \* what the delivered answer turned out to contain
    answers,       \* answers the gateway has sent for the request
    result         \* how execute_candidate_sequence ended

shared == <<cooling, inflight, unavailable>>
plan == <<profile, order>>
vars == <<shared, pc, plan, idx, forceStrip, expired, handle, guard, bridge,
          answers, result>>

ErrorKind == {"Other", "UsageLimit", "Deactivation"}
Actionable(kind) == kind # "Other"
NoBridge == [kind |-> "Other", streamFailed |-> FALSE]

-----------------------------------------------------------------------------
(* State functions of one request *)

Candidate(r) == order[r][idx[r]]
InLoop(r) == pc[r] = "candidate" /\ idx[r] <= Len(order[r])
HasMore(r) == idx[r] < Len(order[r])

\* The candidate lists: some accounts (model route, plan filter, quota guard) in
\* some order (route strategy).  The list comes from a snapshot of the database
\* that may be older than the last change, see CandidateSelection.
CandidateOrders ==
    UNION {{s \in [1..n -> Accounts] : \A i, j \in 1..n : i # j => s[i] # s[j]} :
              n \in 1..Cardinality(Accounts)}

\* strip_session_affinity of the current candidate
StripsAffinity(r) ==
    \/ forceStrip[r]
    \/ IF profile[r].anchored THEN Scope[Candidate(r)] # Scope[order[r][1]] ELSE idx[r] > 1

\* candidate_skip_reason_for_proxy
SkippedForCooldown(r) ==
    Candidate(r) \in cooling /\ (HasMore(r) \/ profile[r].anthropic)
\* Mutant: the last candidate is skipped like any other.
SkippedWheneverFull(r) == MaxInflight > 0 /\ inflight[Candidate(r)] >= MaxInflight

SkippedForInflight(r) ==
    MaxInflight > 0 /\ inflight[Candidate(r)] >= MaxInflight /\ HasMore(r)

-----------------------------------------------------------------------------
(* Building blocks of the actions *)

At(r, label) == pc[r] = label
Goto(r, label) == pc' = [pc EXCEPT ![r] = label]

\* Mutants: released by hand and by the drop; the guard is forgotten (mem::forget).
ReleaseGuardTwice(r) ==
    /\ inflight' = [inflight EXCEPT ![guard[r]] = @ - 2]
    /\ guard' = [guard EXCEPT ![r] = NoAccount]
LeakGuard(r) ==
    /\ inflight' = inflight
    /\ guard' = [guard EXCEPT ![r] = NoAccount]

\* AccountInFlightGuard: dropped at every `continue` and `return`
ReleaseGuard(r) ==
    /\ inflight' = [inflight EXCEPT ![guard[r]] = @ - 1]
    /\ guard' = [guard EXCEPT ![r] = NoAccount]

\* Mutant: the same candidate again.
SameCandidate(r) == idx' = idx /\ Goto(r, "candidate")

NextCandidate(r) ==
    /\ idx' = [idx EXCEPT ![r] = @ + 1]
    /\ Goto(r, "candidate")

Finish(r, how) ==
    /\ result' = [result EXCEPT ![r] = how]
    /\ Goto(r, "done")

\* request.take() and respond: the handle is spent on the one answer.
Respond(r) ==
    /\ answers' = [answers EXCEPT ![r] = @ + 1]
    /\ handle' = [handle EXCEPT ![r] = FALSE]

\* request.take().expect(..): without the handle the worker thread panics.
RespondOrPanic(r, how) ==
    IF handle[r]
    THEN Respond(r) /\ Finish(r, how)
    ELSE Finish(r, "panic") /\ UNCHANGED <<answers, handle>>

\* Effect of an attempt on the cooldown of its account.
CoolDownIf(a, marked) == IF marked THEN CoolDown(a) ELSE UNCHANGED cooling

\* Mutant: the account stays in service.
KeepInService(a, taken) == unavailable' = unavailable

\* mark_account_unavailable_for_gateway_error
TakeOutOfServiceIf(a, taken) ==
    unavailable' = IF taken THEN unavailable \cup {a} ELSE unavailable

-----------------------------------------------------------------------------
Init ==
    /\ CoolingInit
    /\ inflight = [a \in Accounts |-> 0]
    /\ unavailable = {}
    /\ pc = [r \in Requests |-> "idle"]
    /\ profile \in [Requests -> Profiles]
    /\ order = [r \in Requests |-> <<>>]
    /\ idx = [r \in Requests |-> 1]
    /\ forceStrip = [r \in Requests |-> FALSE]
    /\ expired = [r \in Requests |-> FALSE]
    /\ handle = [r \in Requests |-> TRUE]
    /\ guard = [r \in Requests |-> NoAccount]
    /\ bridge = [r \in Requests |-> NoBridge]
    /\ answers = [r \in Requests |-> 0]
    /\ result = [r \in Requests |-> "running"]

\* prepare_candidates_for_proxy: with no candidate at all the 503 is sent there.
NoCandidates(r) ==
    /\ At(r, "idle")
    /\ Respond(r)
    /\ Finish(r, "handled")
    /\ UNCHANGED <<shared, plan, idx, forceStrip, expired, guard, bridge>>

Start(r) ==
    /\ At(r, "idle")
    /\ \E s \in CandidateOrders : order' = [order EXCEPT ![r] = s]
    /\ Goto(r, "candidate")
    /\ UNCHANGED <<shared, profile, idx, forceStrip, expired, handle, guard, bridge,
                   answers, result>>

\* The deadline is looked at before every candidate.
TotalTimeout(r) ==
    /\ InLoop(r)
    /\ expired[r]
    /\ RespondOrPanic(r, "handled")
    /\ UNCHANGED <<shared, plan, idx, forceStrip, expired, guard, bridge>>

\* Then the cooldown table is asked.
CheckCooldown(r) ==
    /\ InLoop(r)
    /\ ~expired[r]
    /\ IF SkippedForCooldown(r)
       THEN NextCandidate(r)
       ELSE Goto(r, "slots") /\ UNCHANGED idx
    /\ UNCHANGED <<shared, plan, forceStrip, expired, handle, guard, bridge, answers, result>>

\* Then the in-flight counter is read, under another lock.
CheckInflight(r) ==
    /\ At(r, "slots")
    /\ IF SkippedForInflight(r)
       THEN NextCandidate(r)
       ELSE Goto(r, "claim") /\ UNCHANGED idx
    /\ UNCHANGED <<shared, plan, forceStrip, expired, handle, guard, bridge,
                   answers, result>>

\* request.as_ref().ok_or("request already consumed"), then the guard is acquired.
Claim(r) ==
    /\ At(r, "claim")
    /\ IF handle[r]
       THEN /\ inflight' = [inflight EXCEPT ![Candidate(r)] = @ + 1]
            /\ guard' = [guard EXCEPT ![r] = Candidate(r)]
            /\ Goto(r, "attempt")
            /\ UNCHANGED result
       ELSE /\ Finish(r, "consumed")
            /\ UNCHANGED <<inflight, guard>>
    /\ UNCHANGED <<cooling, unavailable, plan, idx, forceStrip, expired, handle,
                   bridge, answers>>

-----------------------------------------------------------------------------
(* run_candidate_attempt: the deadline is looked at once more, then the request  *)
(* is sent upstream and one of its decisions comes back.                         *)

AttemptSend(r) ==
    /\ pc[r] \in {"attempt", "retry"}
    /\ ~expired[r]
    /\ Goto(r, IF pc[r] = "attempt" THEN "sent" ELSE "resent")
    /\ UNCHANGED <<shared, plan, idx, forceStrip, expired, handle, guard, bridge, answers,
                   result>>

AttemptTooLate(r) ==
    /\ pc[r] \in {"attempt", "retry"}
    /\ expired[r]
    /\ ReleaseGuard(r)
    /\ RespondOrPanic(r, "handled")
    /\ UNCHANGED <<cooling, unavailable, plan, idx, forceStrip, expired, bridge>>

\* CandidateUpstreamDecision::Failover is only returned while there are more
\* candidates, and after a cooldown was set on the account.
AttemptFailover(r) ==
    /\ At(r, "sent")
    /\ HasMore(r)
    /\ CoolDown(Candidate(r))
    /\ \E challenge \in BOOLEAN :
          forceStrip' = [forceStrip EXCEPT ![r] = @ \/ (challenge /\ profile[r].anthropic)]
    /\ ReleaseGuard(r)
    /\ NextCandidate(r)
    /\ UNCHANGED <<unavailable, plan, expired, handle, bridge, answers, result>>

\* CandidateUpstreamDecision::Terminal whose message names the account as the
\* culprit: should_failover_terminal_gateway_error goes on to the next one.
AttemptTerminalFailover(r) ==
    /\ At(r, "sent")
    /\ HasMore(r)
    /\ \E kind \in {"UsageLimit", "Deactivation"}, marked \in BOOLEAN, challenge \in BOOLEAN :
          /\ CoolDownIf(Candidate(r), marked \/ kind = "UsageLimit")
          /\ forceStrip' = [forceStrip EXCEPT ![r] = @ \/ (challenge /\ profile[r].anthropic)]
    /\ TakeOutOfServiceIf(Candidate(r), TRUE)
    /\ ReleaseGuard(r)
    /\ NextCandidate(r)
    /\ UNCHANGED <<plan, expired, handle, bridge, answers, result>>

\* Any other Terminal decision ends the request with an error of the gateway.
TerminalAnswer(r, mayFailOver) ==
    /\ \E kind \in ErrorKind, marked \in BOOLEAN :
          /\ mayFailOver => ~(Actionable(kind) /\ HasMore(r))
          /\ CoolDownIf(Candidate(r), marked)
          /\ TakeOutOfServiceIf(Candidate(r), Actionable(kind))
    /\ ReleaseGuard(r)
    /\ RespondOrPanic(r, "handled")
    /\ UNCHANGED <<plan, idx, forceStrip, expired, bridge>>

AttemptTerminal(r) == At(r, "sent") /\ TerminalAnswer(r, TRUE)

\* CandidateUpstreamDecision::RespondUpstream.  A 2xx has lifted the cooldown;
\* another status may or may not have set one.  The handle goes to the delivery.
Deliverable(r) ==
    /\ handle' = [handle EXCEPT ![r] = FALSE]
    /\ Goto(r, "deliver")

AttemptRespond(r) ==
    /\ At(r, "sent")
    /\ \/ LiftCooldown(Candidate(r)) /\ Deliverable(r)
       \/ \E marked \in BOOLEAN : CoolDownIf(Candidate(r), marked) /\ Deliverable(r)
    /\ UNCHANGED <<inflight, unavailable, plan, idx, forceStrip, expired, guard, bridge,
                   answers, result>>

\* A 400 to a request whose affinity was kept is tried again without it.
AttemptBadRequest(r) ==
    /\ At(r, "sent")
    /\ ~StripsAffinity(r) /\ profile[r].retryable
    /\ \E marked \in BOOLEAN : CoolDownIf(Candidate(r), marked)
    /\ Goto(r, "retry")
    /\ UNCHANGED <<inflight, unavailable, plan, idx, forceStrip, expired, handle, guard,
                   bridge, answers, result>>

\* The decisions of the second attempt; a Terminal one is answered at once.
RetryFailover(r) ==
    /\ At(r, "resent")
    /\ HasMore(r)
    /\ CoolDown(Candidate(r))
    /\ ReleaseGuard(r)
    /\ NextCandidate(r)
    /\ UNCHANGED <<unavailable, plan, forceStrip, expired, handle, bridge, answers, result>>

RetryTerminal(r) == At(r, "resent") /\ TerminalAnswer(r, FALSE)

RetryRespond(r) ==
    /\ At(r, "resent")
    /\ \/ LiftCooldown(Candidate(r))
       \/ \E marked \in BOOLEAN : CoolDownIf(Candidate(r), marked)
    /\ Deliverable(r)
    /\ UNCHANGED <<inflight, unavailable, plan, idx, forceStrip, expired, guard, bridge,
                   answers, result>>

-----------------------------------------------------------------------------
(* finalize_upstream_response *)

\* Mutant: the answer of the last candidate is withheld as well.
SuppressAny(r, kind) == kind = "Deactivation"

\* should_suppress_deactivation_delivery: the answer is withheld because another
\* account is expected to give a better one.
MaySuppress(r, kind) == kind = "Deactivation" /\ HasMore(r)

\* respond_with_upstream streams the answer out; the guard falls when it returns.
Deliver(r) ==
    /\ At(r, "deliver")
    /\ \E kind \in ErrorKind, streamFailed \in BOOLEAN, suppressed \in BOOLEAN :
          /\ suppressed => MaySuppress(r, kind)
          /\ bridge' = [bridge EXCEPT ![r] = [kind |-> kind, streamFailed |-> streamFailed]]
          /\ answers' = [answers EXCEPT ![r] = IF suppressed THEN @ ELSE @ + 1]
    /\ ReleaseGuard(r)
    /\ Goto(r, "followup")
    /\ UNCHANGED <<cooling, unavailable, plan, idx, forceStrip, expired, handle, result>>

\* Reading the upstream body fails: `?` ends the sequence with the error.
DeliverFails(r) ==
    /\ At(r, "deliver")
    /\ ReleaseGuard(r)
    /\ Finish(r, "broken")
    /\ UNCHANGED <<cooling, unavailable, plan, idx, forceStrip, expired, handle, bridge,
                   answers>>

\* apply_gateway_error_follow_up, and the cooldown of a broken stream
FollowUp(r) ==
    /\ At(r, "followup")
    /\ LET kind == bridge[r].kind
           failover == Actionable(kind) /\ HasMore(r)
       IN  /\ CoolDownIf(Candidate(r),
                         bridge[r].streamFailed \/ (failover /\ kind = "UsageLimit"))
           /\ TakeOutOfServiceIf(Candidate(r), Actionable(kind))
           /\ IF failover
              THEN NextCandidate(r) /\ UNCHANGED result
              ELSE Finish(r, "handled") /\ UNCHANGED idx
    /\ bridge' = [bridge EXCEPT ![r] = NoBridge]
    /\ UNCHANGED <<inflight, plan, forceStrip, expired, handle, guard, answers>>

\* The loop is over: CandidateExecutionResult::Exhausted carries the request back
\* and proxy_validated_request answers it (503, or the aggregate API route).
Exhausted(r) ==
    /\ At(r, "candidate")
    /\ idx[r] > Len(order[r])
    /\ RespondOrPanic(r, "exhausted")
    /\ UNCHANGED <<shared, plan, idx, forceStrip, expired, guard, bridge>>

-----------------------------------------------------------------------------
(* The rest of the world *)

CooldownLapses ==
    /\ cooling # {}
    /\ Lapse
    /\ UNCHANGED <<inflight, unavailable, pc, plan, idx, forceStrip, expired, handle,
                   guard, bridge, answers, result>>

\* A usage refresh finds the account in order again, or the user enables it.
BackInService(a) ==
    /\ a \in unavailable
    /\ unavailable' = unavailable \ {a}
    /\ UNCHANGED <<cooling, inflight, pc, plan, idx, forceStrip, expired, handle, guard,
                   bridge, answers, result>>

DeadlinePasses(r) ==
    /\ profile[r].deadline /\ ~expired[r]
    /\ pc[r] \notin {"idle", "done"}
    /\ expired' = [expired EXCEPT ![r] = TRUE]
    /\ UNCHANGED <<shared, pc, plan, idx, forceStrip, handle, guard, bridge, answers,
                   result>>

\* Steps of the worker thread that serves the request.
Serve(r) ==
    \/ TotalTimeout(r)
    \/ CheckCooldown(r)
    \/ CheckInflight(r)
    \/ Claim(r)
    \/ AttemptSend(r)
    \/ AttemptTooLate(r)
    \/ AttemptFailover(r)
    \/ AttemptTerminalFailover(r)
    \/ AttemptTerminal(r)
    \/ AttemptRespond(r)
    \/ AttemptBadRequest(r)
    \/ RetryFailover(r)
    \/ RetryTerminal(r)
    \/ RetryRespond(r)
    \/ Deliver(r)
    \/ DeliverFails(r)
    \/ FollowUp(r)
    \/ Exhausted(r)

Next ==
    \/ CooldownLapses
    \/ \E a \in Accounts : BackInService(a)
    \/ \E r \in Requests : Start(r) \/ NoCandidates(r) \/ Serve(r) \/ DeadlinePasses(r)

Spec == Init /\ [][Next]_vars

\* A worker thread keeps running, and an upstream attempt ends (connect and read
\* timeouts of the HTTP client).  Nothing obliges a request to arrive, a cooldown
\* to lapse or a deadline to pass.
FairSpec == Spec /\ \A r \in Requests : WF_vars(Serve(r))

-----------------------------------------------------------------------------
(* Properties *)

Label == {"idle", "candidate", "slots", "claim", "attempt", "sent", "retry", "resent",
          "deliver", "followup", "done"}
Ending == {"running", "handled", "exhausted", "consumed", "panic", "broken"}

TypeOK ==
    /\ CoolingTypeOK
    /\ inflight \in [Accounts -> Nat]
    /\ unavailable \subseteq Accounts
    /\ pc \in [Requests -> Label]
    /\ profile \in [Requests -> Profiles]
    /\ order \in [Requests -> Seq(Accounts)]
    /\ idx \in [Requests -> Nat \ {0}]
    /\ forceStrip \in [Requests -> BOOLEAN]
    /\ expired \in [Requests -> BOOLEAN]
    /\ handle \in [Requests -> BOOLEAN]
    /\ guard \in [Requests -> Accounts \cup {NoAccount}]
    /\ bridge \in [Requests -> [kind : ErrorKind, streamFailed : BOOLEAN]]
    /\ answers \in [Requests -> Nat]
    /\ result \in [Requests -> Ending]

\* The in-flight counter of an account is the number of requests that occupy it,
\* on every path out of an attempt: a leaked guard would make the account look
\* full for ever, a double release would let the limit be exceeded.
InflightCountsGuards ==
    \A a \in Accounts : inflight[a] = Cardinality({r \in Requests : guard[r] = a})

\* The client gets one answer at most, none while the handle is still there, and
\* a request reported as served got exactly one - also when the delivery of a
\* deactivation error was withheld in the hope of another account.
ServedMeansAnsweredOnce ==
    \A r \in Requests :
       /\ answers[r] <= 1
       /\ handle[r] => answers[r] = 0
       /\ result[r] \in {"handled", "exhausted"} => answers[r] = 1

\* The last candidate is never skipped for its load, and for its cooldown only by
\* the Anthropic protocol; nor does an attempt on it fail over.  So no other
\* request ever runs out of candidates ("the last candidate is still tried",
\* candidates.rs:142).
OnlyAnthropicRunsOut ==
    \A r \in Requests : result[r] = "exhausted" => profile[r].anthropic

\* A request goes on to another account only when the one it tried is marked, in
\* the cooldown table or in the database, so that other requests avoid it - also
\* when it goes on after an answer was delivered, without its handle.
FailedOver(r) == pc[r] \in {"sent", "resent", "followup"} /\ pc'[r] = "candidate"

FailoverLeavesMark ==
    [][\A r \in Requests : FailedOver(r) => Candidate(r) \in cooling' \cup unavailable']_vars

\* Every request that has started comes to an end, whatever the others do.
EveryRequestEnds == \A r \in Requests : (pc[r] # "idle") ~> (pc[r] = "done")

-----------------------------------------------------------------------------
(* Statements of the repository that the code does not keep *)

\* "request should still exist when no candidate handled the response"
\* (candidate_executor.rs:540)
RequestStillExists ==
    \A r \in Requests : At(r, "candidate") /\ idx[r] > Len(order[r]) => handle[r]

=============================================================================
