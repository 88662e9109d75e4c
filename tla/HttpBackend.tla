----------------------------- MODULE HttpBackend -----------------------------
(***************************************************************************)
(* The HTTP server behind the front proxy (http/backend_runtime.rs), and   *)
(* what http/server.rs and the proxy do with it around a shutdown.         *)
(*                                                                         *)
(* One thread accepts requests and spreads them over two bounded queues,   *)
(* one for requests that accept an event stream.  A queue that stays full  *)
(* for its timeout sends the request to the other one, and two full        *)
(* queues to a 503.  Each queue has workers of its own.  A gauge per queue *)
(* is raised after the send and lowered by the worker, neither under a     *)
(* lock that covers the queue.                                             *)
(*                                                                         *)
(* What a handler does is one step: it answers, or panics and leaves the   *)
(* answer to the drop of the request.  A handler may take for ever.        *)
(***************************************************************************)
EXTENDS Naturals, Sequences, FiniteSets, Functions

CONSTANTS
    Requests,
    Workers,
    PoolOf,      \* worker -> the queue it takes from
    Capacity,    \* queue -> its bound
    None

Pool == {"normal", "stream"}

ASSUME PoolOfAssumption == PoolOf \in [Workers -> Pool]
ASSUME CapacityAssumption == Capacity \in [Pool -> Nat \ {0}]
ASSUME WorkersFinite == IsFiniteSet(Workers)
ASSUME NoneAssumption == None \notin Requests

VARIABLES
    client,     \* what the proxy knows of it: "new", "waiting", "done" or "gone"
    incoming,   \* requests read off a connection and not accepted yet
    loop,       \* the accept loop: where it is, its request, the queue it tries
    queue,
    depth,      \* HTTP_QUEUE_DEPTH and HTTP_STREAM_QUEUE_DEPTH
    worker,     \* "recv", "count", "handle", or "gone"
    job,        \* the request of a worker
    stopping,   \* SHUTDOWN_REQUESTED
    front       \* "serving", or start_http is past it: "closing", "returned"

vars == <<client, incoming, loop, queue, depth, worker, job, stopping, front>>
pools == <<queue, depth, worker, job>>
process == <<stopping, front>>

Accepting == [at |-> "accept", request |-> None, pool |-> "normal"]

\* A pool none of whose threads could be spawned has no receiver.
Init ==
    /\ client = [r \in Requests |-> "new"]
    /\ incoming = <<>>
    /\ loop = Accepting
    /\ queue = [p \in Pool |-> <<>>]
    /\ depth = [p \in Pool |-> 0]
    /\ worker \in [Workers -> {"recv", "gone"}]
    /\ job = [w \in Workers |-> None]
    /\ stopping = FALSE
    /\ front = "serving"

-----------------------------------------------------------------------------
(* The front proxy and the accept loop *)

\* proxy_handler: a backend that no longer listens refuses the connection, or reads
\* the request from a connection that was kept.
Forward(r) ==
    /\ front = "serving" /\ client[r] = "new"
    /\ \/ /\ incoming' = Append(incoming, r)
          /\ client' = [client EXCEPT ![r] = "waiting"]
       \/ /\ loop.at = "ended"
          /\ client' = [client EXCEPT ![r] = "done"]
          /\ UNCHANGED incoming
    /\ UNCHANGED <<loop, pools, process>>

\* The client hangs up; what the backend does for it goes on.
HangUp(r) ==
    /\ client[r] = "waiting"
    /\ client' = [client EXCEPT ![r] = "gone"]
    /\ UNCHANGED <<incoming, loop, pools, process>>

\* respond, whose error is ignored.
Respond(r) == client' = [client EXCEPT ![r] = IF @ = "gone" THEN "gone" ELSE "done"]

Ended == [at |-> "ended", request |-> None, pool |-> "normal"]
Other(p) == IF p = "stream" THEN "normal" ELSE "stream"

\* The first request is taken.  After the flag is set it ends the loop whatever it
\* asks for, and /__shutdown does without the flag.  /health and /metrics are handled
\* on this thread, and a request that accepts an event stream prefers that queue.
Accept ==
    /\ loop.at = "accept" /\ incoming # <<>>
    /\ incoming' = Tail(incoming)
    /\ \/ /\ Respond(Head(incoming))
          /\ loop' = Ended
       \/ /\ ~stopping
          /\ \/ loop' = [at |-> "inline", request |-> Head(incoming), pool |-> "normal"]
             \/ \E p \in Pool : loop' = [at |-> "send", request |-> Head(incoming), pool |-> p]
          /\ UNCHANGED client
    /\ UNCHANGED <<pools, process>>

HandleInline ==
    /\ loop.at = "inline"
    /\ Respond(loop.request)
    /\ loop' = Accepting
    /\ UNCHANGED <<incoming, pools, process>>

HasRoom(p) == Len(queue[p]) < Capacity[p]
Connected(p) == \E w \in Workers : PoolOf[w] = p /\ worker[w] # "gone"

Send ==
    /\ loop.at \in {"send", "overflow"}
    /\ HasRoom(loop.pool) /\ Connected(loop.pool)
    /\ queue' = [queue EXCEPT ![loop.pool] = Append(@, loop.request)]
    /\ loop' = [loop EXCEPT !.at = "raise"]
    /\ UNCHANGED <<incoming, client, depth, worker, job, process>>

\* Mutant: the gauge of the other queue is raised.
RaiseOther == depth' = [depth EXCEPT ![Other(loop.pool)] = @ + 1]

Raise == depth' = [depth EXCEPT ![loop.pool] = @ + 1]

\* record_http_queue_enqueue
CountSent ==
    /\ loop.at = "raise"
    /\ Raise
    /\ loop' = Accepting
    /\ UNCHANGED <<incoming, client, queue, worker, job, process>>

\* Mutant: a send that waits without a timeout.
NeverGivesUp(p) == FALSE

\* The queue was full until the timeout, or nobody receives from it.
GivesUp(p) == ~HasRoom(p) \/ ~Connected(p)

\* Mutant: the client is told "server busy" before the other queue is tried.
TryOtherAfterBusy ==
    /\ loop' = [loop EXCEPT !.at = "overflow", !.pool = Other(loop.pool)]
    /\ Respond(loop.request)

TryOther ==
    /\ loop' = [loop EXCEPT !.at = "overflow", !.pool = Other(loop.pool)]
    /\ UNCHANGED client

Overflow ==
    /\ loop.at = "send" /\ GivesUp(loop.pool)
    /\ TryOther
    /\ UNCHANGED <<incoming, pools, process>>

\* "server busy"
Refuse ==
    /\ loop.at = "overflow" /\ GivesUp(loop.pool)
    /\ Respond(loop.request)
    /\ loop' = Accepting
    /\ UNCHANGED <<incoming, pools, process>>

-----------------------------------------------------------------------------
(* Workers *)

Receive(w) ==
    /\ worker[w] = "recv" /\ queue[PoolOf[w]] # <<>>
    /\ job' = [job EXCEPT ![w] = Head(queue[PoolOf[w]])]
    /\ queue' = [queue EXCEPT ![PoolOf[w]] = Tail(@)]
    /\ worker' = [worker EXCEPT ![w] = "count"]
    /\ UNCHANGED <<incoming, client, loop, depth, process>>

\* Mutant: fetch_sub, which leaves no count behind at 0.
LowerBelowZero(p) == depth' = [depth EXCEPT ![p] = IF @ = 0 THEN None ELSE @ - 1]

\* atomic_dec_saturating
Lower(p) == depth' = [depth EXCEPT ![p] = IF @ = 0 THEN 0 ELSE @ - 1]

\* record_http_queue_dequeue
CountReceived(w) ==
    /\ worker[w] = "count"
    /\ Lower(PoolOf[w])
    /\ worker' = [worker EXCEPT ![w] = "handle"]
    /\ UNCHANGED <<incoming, client, loop, queue, job, process>>

\* Mutant: a panic ends the thread.
DiesOf(panics) == IF panics THEN "gone" ELSE "recv"

\* catch_unwind
Continues(panics) == "recv"

\* handle_backend_request_safely: a handler that panics leaves the answer to the drop
\* of its request.
Handle(w) ==
    /\ worker[w] = "handle"
    /\ Respond(job[w])
    /\ \E panics \in BOOLEAN : worker' = [worker EXCEPT ![w] = Continues(panics)]
    /\ job' = [job EXCEPT ![w] = None]
    /\ UNCHANGED <<incoming, loop, queue, depth, process>>

\* recv fails once the senders are dropped and the queue is empty.
Finish(w) ==
    /\ worker[w] = "recv" /\ loop.at = "ended" /\ queue[PoolOf[w]] = <<>>
    /\ worker' = [worker EXCEPT ![w] = "gone"]
    /\ UNCHANGED <<incoming, client, loop, queue, depth, job, process>>

-----------------------------------------------------------------------------
(* Shutdown *)

\* request_shutdown sets the flag; its request to the proxy is one more Forward.
RequestShutdown ==
    /\ ~stopping
    /\ stopping' = TRUE
    /\ UNCHANGED <<incoming, client, loop, pools, front>>

\* Mutant: the proxy returns at once.
NotGraceful == TRUE

NobodyWaits == \A r \in Requests : client[r] # "waiting"

\* with_graceful_shutdown: the proxy returns when no request is left open.
Drain ==
    /\ front = "serving" /\ stopping /\ NobodyWaits
    /\ front' = "closing"
    /\ UNCHANGED <<incoming, client, loop, pools, stopping>>

\* wake_backend_shutdown: a request of start_http's own, to a loop that still runs.
WakeBackend ==
    /\ front = "closing" /\ loop.at = "accept" /\ incoming = <<>>
    /\ loop' = Ended
    /\ UNCHANGED <<incoming, client, pools, process>>

\* start_http returns, and main with it.
Join ==
    /\ front = "closing" /\ loop.at = "ended"
    /\ front' = "returned"
    /\ UNCHANGED <<incoming, client, loop, pools, stopping>>

-----------------------------------------------------------------------------
Loop == Accept \/ HandleInline \/ Send \/ CountSent \/ Overflow \/ Refuse \/ WakeBackend
Work(w) == Receive(w) \/ CountReceived(w) \/ Finish(w)

Next ==
    \/ Loop \/ RequestShutdown \/ Drain \/ Join
    \/ \E r \in Requests : Forward(r) \/ HangUp(r)
    \/ \E w \in Workers : Work(w) \/ Handle(w)

Spec == Init /\ [][Next]_vars

\* The threads run.  That a handler on a worker ends is not assumed here.
FairSpec == Spec /\ WF_vars(Loop) /\ \A w \in Workers : WF_vars(Work(w))
HandlersEnd == \A w \in Workers : WF_vars(Handle(w))

-----------------------------------------------------------------------------
(* Properties *)

TypeOK ==
    /\ client \in [Requests -> {"new", "waiting", "gone", "done"}]
    /\ incoming \in Seq(Requests)
    /\ loop \in [at : {"accept", "send", "overflow", "raise", "inline", "ended"},
                 request : Requests \cup {None}, pool : Pool]
    /\ loop.at \in {"accept", "ended"} <=> loop.request = None
    /\ queue \in [Pool -> Seq(Requests)]
    /\ depth \in [Pool -> Nat]
    /\ worker \in [Workers -> {"recv", "count", "handle", "gone"}]
    /\ job \in [Workers -> Requests \cup {None}]
    /\ \A w \in Workers : worker[w] \in {"recv", "gone"} <=> job[w] = None
    /\ stopping \in BOOLEAN
    /\ front \in {"serving", "closing", "returned"}

Sent(p) == IF loop.at = "raise" /\ loop.pool = p THEN 1 ELSE 0
Received(p) == {w \in Workers : PoolOf[w] = p /\ worker[w] = "count"}

\* The gauge of a queue never hides a request that waits in it, but for the one just
\* sent: a worker that is faster than the sender finds the gauge at 0 and leaves it
\* there, which makes it too high later, never too low.
GaugeCoversQueue ==
    \A p \in Pool : depth[p] + Sent(p) >= Len(queue[p]) + Cardinality(Received(p))

Count(r, s) == Cardinality({i \in DOMAIN s : s[i] = r})
Places(r) ==
    Count(r, incoming) + Count(r, queue["normal"]) + Count(r, queue["stream"])
    + (IF loop.request = r /\ loop.at # "raise" THEN 1 ELSE 0)
    + Cardinality({w \in Workers : job[w] = r})

\* A request that waits for its answer is in exactly one place, and nobody works on
\* an answered one: no way from one queue to the other, to a 503 or through a panic
\* loses or doubles a request.
WaitingIsHeldOnce ==
    \A r \in Requests :
       /\ client[r] = "waiting" => Places(r) = 1
       /\ client[r] = "gone" => Places(r) <= 1
       /\ client[r] \in {"new", "done"} => Places(r) = 0

\* start_http joins the accept loop and none of the workers.  What the end of the
\* process cuts off is work for clients that have hung up.
ExitCutsOffOnlyAbandoned ==
    front = "returned" => \A w \in Workers : job[w] # None => client[job[w]] = "gone"

\* However busy the workers are, the accept loop is soon back.
AcceptLoopReturns == (loop.at # "accept") ~> (loop.at \in {"accept", "ended"})

InQueue(r) == \E p \in Pool : r \in Range(queue[p])

\* What has been queued is answered, also after the accept loop has ended.
QueuedIsAnswered ==
    HandlersEnd => \A r \in Requests : InQueue(r) ~> (client[r] # "waiting")

=============================================================================
