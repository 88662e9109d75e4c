-------------------------- MODULE HttpBackend_proofs --------------------------
(***************************************************************************)
(* The gauges cover the queues, and a request that waits for its answer is *)
(* in exactly one place, for any number of requests and workers and any    *)
(* bounds of the queues.                                                   *)
(*                                                                         *)
(* The gauge needs no fact but its own: that the worker who finds it at 0  *)
(* must be the receiver of the request the loop has just sent.  That a     *)
(* request is held once is proved from its holders, one predicate each,    *)
(* which every step moves it between; the counts of the property follow.   *)
(***************************************************************************)
EXTENDS HttpBackend, FiniteSetTheorems, TLAPS

-----------------------------------------------------------------------------
(* Queues that never hold an element twice: what sending and receiving do to *)
(* the set of elements, and how often an element is counted in one.          *)

\* Appending adds one element, at the end.
LEMMA AppendRange ==
  ASSUME NEW S, NEW s \in Seq(S), NEW x \in S
  PROVE  /\ Append(s, x) \in Seq(S) /\ Len(Append(s, x)) = Len(s) + 1
         /\ Range(Append(s, x)) = Range(s) \cup {x}
         /\ IsInjective(s) /\ x \notin Range(s) => IsInjective(Append(s, x))
<1>1. /\ Append(s, x) \in Seq(S) /\ Len(Append(s, x)) = Len(s) + 1
      /\ DOMAIN s = 1 .. Len(s) /\ DOMAIN Append(s, x) = 1 .. Len(s) + 1 /\ Len(s) \in Nat
      /\ \A i \in 1 .. Len(s) : Append(s, x)[i] = s[i]
      /\ Append(s, x)[Len(s) + 1] = x
  OBVIOUS
<1>2. \A y \in Range(Append(s, x)) : y \in Range(s) \cup {x}
  <2> SUFFICES ASSUME NEW i \in 1 .. Len(s) + 1 PROVE Append(s, x)[i] \in Range(s) \cup {x}
    BY <1>1 DEF Range
  <2>1. CASE i \in 1 .. Len(s)
    BY <1>1, <2>1 DEF Range
  <2>2. CASE i = Len(s) + 1
    BY <1>1, <2>2
  <2> QED BY <1>1, <2>1, <2>2
<1>3. \A y \in Range(s) \cup {x} : y \in Range(Append(s, x))
  <2>1. \A i \in 1 .. Len(s) : i \in 1 .. Len(s) + 1
    BY <1>1
  <2>2. Len(s) + 1 \in 1 .. Len(s) + 1
    BY <1>1
  <2> QED BY <1>1, <2>1, <2>2 DEF Range
<1>4. ASSUME IsInjective(s), x \notin Range(s) PROVE IsInjective(Append(s, x))
  <2> SUFFICES ASSUME NEW i \in 1 .. Len(s) + 1, NEW j \in 1 .. Len(s) + 1,
                      Append(s, x)[i] = Append(s, x)[j]
               PROVE  i = j
    BY <1>1 DEF IsInjective
  <2>1. \A k \in 1 .. Len(s) : s[k] # x
    BY <1>1, <1>4 DEF Range
  <2>2. CASE i \in 1 .. Len(s) /\ j \in 1 .. Len(s)
    BY <1>1, <1>4, <2>2 DEF IsInjective
  <2>3. CASE i = Len(s) + 1 \/ j = Len(s) + 1
    BY <1>1, <2>1, <2>3
  <2> QED BY <1>1, <2>2, <2>3
<1> QED BY <1>1, <1>2, <1>3, <1>4

\* Taking the head takes one element away, and all of it if it is there once.
LEMMA TailRange ==
  ASSUME NEW S, NEW s \in Seq(S), s # <<>>
  PROVE  /\ Head(s) \in S /\ Head(s) \in Range(s) /\ Tail(s) \in Seq(S)
         /\ Len(s) \in Nat /\ Len(Tail(s)) + 1 = Len(s)
         /\ IsInjective(s) => IsInjective(Tail(s)) /\ Range(Tail(s)) = Range(s) \ {Head(s)}
<1>1. /\ Len(s) \in Nat /\ Len(s) >= 1 /\ Len(Tail(s)) = Len(s) - 1 /\ Tail(s) \in Seq(S)
      /\ Head(s) = s[1] /\ Head(s) \in S
      /\ DOMAIN s = 1 .. Len(s) /\ DOMAIN Tail(s) = 1 .. Len(s) - 1
      /\ \A i \in 1 .. Len(s) - 1 : Tail(s)[i] = s[i + 1]
  OBVIOUS
<1>2. 1 \in 1 .. Len(s) /\ \A i \in 1 .. Len(s) - 1 : i + 1 \in 1 .. Len(s) /\ i + 1 # 1
  BY <1>1
<1>3. Head(s) \in Range(s)
  BY <1>1, <1>2 DEF Range
<1>4. ASSUME IsInjective(s) PROVE IsInjective(Tail(s)) /\ Range(Tail(s)) = Range(s) \ {Head(s)}
  <2>1. IsInjective(Tail(s))
    <3> SUFFICES ASSUME NEW i \in 1 .. Len(s) - 1, NEW j \in 1 .. Len(s) - 1, s[i + 1] = s[j + 1]
                 PROVE  i = j
      BY <1>1 DEF IsInjective
    <3>1. i + 1 = j + 1
      BY <1>1, <1>2, <1>4 DEF IsInjective
    <3> QED BY <1>1, <3>1
  <2>2. \A x \in Range(Tail(s)) : x \in Range(s) \ {Head(s)}
    <3> SUFFICES ASSUME NEW i \in 1 .. Len(s) - 1 PROVE s[i + 1] \in Range(s) /\ s[i + 1] # s[1]
      BY <1>1 DEF Range
    <3> QED BY <1>1, <1>2, <1>4 DEF Range, IsInjective
  <2>3. \A x \in Range(s) \ {Head(s)} : x \in Range(Tail(s))
    <3> SUFFICES ASSUME NEW i \in 1 .. Len(s), s[i] # s[1] PROVE s[i] \in Range(Tail(s))
      BY <1>1 DEF Range
    <3>1. i - 1 \in 1 .. Len(s) - 1 /\ (i - 1) + 1 = i
      BY <1>1
    <3>2. Tail(s)[i - 1] = s[i]
      BY <1>1, <3>1
    <3> QED BY <1>1, <3>1, <3>2 DEF Range
  <2> QED BY <2>1, <2>2, <2>3
<1> QED BY <1>1, <1>3, <1>4

\* An element of such a queue is counted once.
LEMMA CountOfInjective ==
  ASSUME NEW S, NEW s \in Seq(S), IsInjective(s), NEW r
  PROVE  Cardinality({i \in DOMAIN s : s[i] = r}) = IF r \in Range(s) THEN 1 ELSE 0
<1>1. CASE r \notin Range(s)
  <2>1. {i \in DOMAIN s : s[i] = r} = {}
    BY <1>1 DEF Range
  <2> QED BY <1>1, <2>1, FS_EmptySet
<1>2. CASE r \in Range(s)
  <2>1. PICK i \in DOMAIN s : s[i] = r
    BY <1>2 DEF Range
  <2>2. {j \in DOMAIN s : s[j] = r} = {i}
    BY <2>1 DEF IsInjective
  <2> QED BY <1>2, <2>2, FS_Singleton
<1> QED BY <1>1, <1>2

-----------------------------------------------------------------------------
(* Types *)

LoopTypeOK ==
    /\ loop \in [at : {"accept", "send", "overflow", "raise", "inline", "ended"},
                 request : Requests \cup {None}, pool : Pool]
    /\ loop.at \in {"accept", "ended"} <=> loop.request = None

WorkersTypeOK ==
    /\ queue \in [Pool -> Seq(Requests)]
    /\ depth \in [Pool -> Nat]
    /\ worker \in [Workers -> {"recv", "count", "handle", "gone"}]
    /\ job \in [Workers -> Requests \cup {None}]
    /\ \A w \in Workers : worker[w] \in {"recv", "gone"} <=> job[w] = None

LEMMA InitTypeOK == Init => TypeOK
<1> SUFFICES ASSUME Init PROVE TypeOK
  OBVIOUS
<1>1. LoopTypeOK
  BY NoneAssumption DEF Init, Accepting, LoopTypeOK, Pool
<1>2. WorkersTypeOK
  BY NoneAssumption DEF Init, WorkersTypeOK
<1> QED BY <1>1, <1>2 DEF Init, TypeOK, LoopTypeOK, WorkersTypeOK

LEMMA RespondType ==
  ASSUME TypeOK, NEW r \in Requests, Respond(r)
  PROVE  client' \in [Requests -> {"new", "waiting", "gone", "done"}]
  BY DEF Respond, TypeOK

LEMMA LoopTypes ==
  ASSUME TypeOK, Loop PROVE TypeOK'
<1>0. LoopTypeOK /\ WorkersTypeOK
  BY DEF TypeOK, LoopTypeOK, WorkersTypeOK
<1> USE <1>0 DEF pools, process
<1>1. PoolOf \in [Workers -> Pool] /\ None \notin Requests
  BY PoolOfAssumption, NoneAssumption
<1>2. CASE Accept
  <2>1. Head(incoming) \in Requests /\ Tail(incoming) \in Seq(Requests)
    BY <1>2, TailRange DEF TypeOK, Accept
  <2>2. LoopTypeOK'
    BY <1>1, <1>2, <2>1 DEF Accept, LoopTypeOK, Ended, Pool
  <2>3. client' \in [Requests -> {"new", "waiting", "gone", "done"}]
    BY <1>2, <2>1, RespondType DEF Accept, TypeOK
  <2>4. WorkersTypeOK'
    BY <1>2 DEF Accept, WorkersTypeOK
  <2> QED BY <1>2, <2>1, <2>2, <2>3, <2>4 DEF Accept, TypeOK, LoopTypeOK, WorkersTypeOK
<1>3. CASE HandleInline \/ Refuse
  <2>1. loop.request \in Requests /\ Respond(loop.request)
    BY <1>3 DEF HandleInline, Refuse, TypeOK
  <2>2. LoopTypeOK' /\ WorkersTypeOK'
    BY <1>1, <1>3 DEF HandleInline, Refuse, Accepting, LoopTypeOK, WorkersTypeOK, Pool
  <2> QED BY <1>3, <2>1, <2>2, RespondType
         DEF HandleInline, Refuse, TypeOK, LoopTypeOK, WorkersTypeOK
<1>4. CASE Send
  <2>1. loop.request \in Requests /\ loop.pool \in Pool /\ queue[loop.pool] \in Seq(Requests)
    BY <1>4 DEF Send, TypeOK
  <2>2. Append(queue[loop.pool], loop.request) \in Seq(Requests)
    BY <2>1, AppendRange
  <2>3. WorkersTypeOK'
    BY <1>4, <2>2 DEF Send, WorkersTypeOK
  <2>4. LoopTypeOK'
    BY <1>4 DEF Send, LoopTypeOK
  <2> QED BY <1>4, <2>3, <2>4 DEF Send, TypeOK, LoopTypeOK, WorkersTypeOK
<1>5. CASE CountSent
  <2>0. loop.pool \in Pool
    BY DEF LoopTypeOK
  <2>1. WorkersTypeOK'
    BY <1>5, <2>0 DEF CountSent, Raise, WorkersTypeOK
  <2>2. LoopTypeOK'
    BY <1>1, <1>5 DEF CountSent, Accepting, LoopTypeOK, Pool
  <2> QED BY <1>5, <2>1, <2>2 DEF CountSent, TypeOK, LoopTypeOK, WorkersTypeOK
<1>6. CASE Overflow
  <2>1. LoopTypeOK'
    BY <1>6 DEF Overflow, TryOther, Other, LoopTypeOK, Pool
  <2> QED BY <1>6, <2>1 DEF Overflow, TryOther, TypeOK, LoopTypeOK, WorkersTypeOK
<1>7. CASE WakeBackend
  <2>1. LoopTypeOK'
    BY <1>1, <1>7 DEF WakeBackend, Ended, LoopTypeOK, Pool
  <2> QED BY <1>7, <2>1 DEF WakeBackend, WorkersTypeOK, TypeOK, LoopTypeOK
<1> QED BY <1>2, <1>3, <1>4, <1>5, <1>6, <1>7 DEF Loop

LEMMA WorkTypes ==
  ASSUME TypeOK, NEW w \in Workers, Work(w) \/ Handle(w) PROVE TypeOK'
<1>0. LoopTypeOK /\ WorkersTypeOK
  BY DEF TypeOK, LoopTypeOK, WorkersTypeOK
<1> USE <1>0 DEF process
<1>1. PoolOf[w] \in Pool /\ None \notin Requests
  BY PoolOfAssumption, NoneAssumption
<1>2. CASE Receive(w)
  <2>1. queue[PoolOf[w]] \in Seq(Requests)
    BY <1>1 DEF TypeOK
  <2>2. Head(queue[PoolOf[w]]) \in Requests /\ Tail(queue[PoolOf[w]]) \in Seq(Requests)
    BY <1>2, <2>1, TailRange DEF Receive
  <2>3. WorkersTypeOK'
    BY <1>1, <1>2, <2>2 DEF Receive, WorkersTypeOK
  <2> QED BY <1>2, <2>3 DEF Receive, LoopTypeOK, TypeOK, WorkersTypeOK
<1>3. CASE CountReceived(w)
  <2>1. WorkersTypeOK'
    BY <1>1, <1>3 DEF CountReceived, Lower, WorkersTypeOK
  <2> QED BY <1>3, <2>1 DEF CountReceived, LoopTypeOK, TypeOK, WorkersTypeOK
<1>4. CASE Handle(w)
  <2>1. job[w] \in Requests /\ Respond(job[w])
    BY <1>4 DEF Handle, TypeOK
  <2>2. WorkersTypeOK'
    BY <1>4 DEF Handle, Continues, WorkersTypeOK
  <2> QED BY <1>4, <2>1, <2>2, RespondType DEF Handle, LoopTypeOK, TypeOK, WorkersTypeOK
<1>5. CASE Finish(w)
  <2>1. WorkersTypeOK'
    BY <1>5 DEF Finish, WorkersTypeOK
  <2> QED BY <1>5, <2>1 DEF Finish, LoopTypeOK, TypeOK, WorkersTypeOK
<1> QED BY <1>2, <1>3, <1>4, <1>5 DEF Work

\* Steps of the proxy and its clients.
Outside ==
    \/ RequestShutdown \/ Drain \/ Join
    \/ \E r \in Requests : Forward(r) \/ HangUp(r)

LEMMA OutsideTypes ==
  ASSUME TypeOK, Outside PROVE TypeOK'
<1>0. LoopTypeOK /\ WorkersTypeOK
  BY DEF TypeOK, LoopTypeOK, WorkersTypeOK
<1> USE <1>0 DEF pools
<1>1. CASE RequestShutdown \/ Drain \/ Join
  BY <1>1 DEF RequestShutdown, Drain, Join, LoopTypeOK, WorkersTypeOK, TypeOK
<1>2. ASSUME NEW r \in Requests, Forward(r) PROVE TypeOK'
  <2>1. Append(incoming, r) \in Seq(Requests)
    BY AppendRange DEF TypeOK
  <2>2. client' \in [Requests -> {"new", "waiting", "gone", "done"}] /\ incoming' \in Seq(Requests)
    BY <1>2, <2>1 DEF Forward, TypeOK
  <2> QED BY <1>2, <2>2 DEF Forward, LoopTypeOK, WorkersTypeOK, process, TypeOK
<1>3. ASSUME NEW r \in Requests, HangUp(r) PROVE TypeOK'
  <2>1. client' \in [Requests -> {"new", "waiting", "gone", "done"}]
    BY <1>3 DEF HangUp, TypeOK
  <2> QED BY <1>3, <2>1 DEF HangUp, LoopTypeOK, WorkersTypeOK, process, TypeOK
<1> QED BY <1>1, <1>2, <1>3 DEF Outside

LEMMA StepTypeOK == TypeOK /\ [Next]_vars => TypeOK'
<1> SUFFICES ASSUME TypeOK, [Next]_vars PROVE TypeOK'
  OBVIOUS
<1>1. CASE UNCHANGED vars
  BY <1>1 DEF vars, pools, process, TypeOK
<1> QED BY <1>1, LoopTypes, WorkTypes, OutsideTypes DEF Next, Outside

\* Every variable stays in its range, and a request is in hand where it should be.
THEOREM TypeCorrect == Spec => []TypeOK
<1> QED BY InitTypeOK, StepTypeOK, PTL DEF Spec

-----------------------------------------------------------------------------
(* The gauges *)

LEMMA ReceivedFinite ==
  ASSUME NEW p \in Pool PROVE IsFiniteSet(Received(p)) /\ Cardinality(Received(p)) \in Nat
  BY WorkersFinite, FS_Subset, FS_CardinalityType DEF Received

\* What a step leaves alone of all that the gauges count.
SameCounts ==
    /\ queue' = queue /\ depth' = depth
    /\ \A p \in Pool : Sent(p)' = Sent(p) /\ Received(p)' = Received(p)

LEMMA SameCountsKeepGauge ==
  ASSUME TypeOK, GaugeCoversQueue, SameCounts PROVE GaugeCoversQueue'
<1>1. \A p \in Pool : Cardinality(Received(p))' = Cardinality(Received(p))
  BY DEF SameCounts
<1> QED BY <1>1 DEF GaugeCoversQueue, SameCounts

LEMMA LoopKeepsGauge ==
  ASSUME TypeOK, GaugeCoversQueue, Loop PROVE GaugeCoversQueue'
<1>1. CASE Accept \/ HandleInline \/ Overflow \/ Refuse \/ WakeBackend
  <2>1. queue' = queue /\ depth' = depth /\ worker' = worker
    BY <1>1 DEF Accept, HandleInline, Overflow, Refuse, WakeBackend, pools
  <2>2. loop.at # "raise"
    BY <1>1 DEF Accept, HandleInline, Overflow, Refuse, WakeBackend
  <2>3. loop'.at # "raise"
    <3>1. CASE Accept \/ WakeBackend
      BY <3>1 DEF Accept, WakeBackend, Ended
    <3>2. CASE HandleInline \/ Refuse
      BY <3>2 DEF HandleInline, Refuse, Accepting
    <3>3. CASE Overflow
      BY <3>3 DEF Overflow, TryOther, TypeOK
    <3> QED BY <1>1, <3>1, <3>2, <3>3
  <2> QED BY <2>1, <2>2, <2>3, SameCountsKeepGauge DEF SameCounts, Sent, Received
<1>2. CASE Send
  <2> SUFFICES ASSUME NEW p \in Pool
               PROVE  depth'[p] + Sent(p)' >= Len(queue'[p]) + Cardinality(Received(p)')
    BY DEF GaugeCoversQueue
  <2>1. depth' = depth /\ Received(p)' = Received(p) /\ depth[p] \in Nat
    BY <1>2 DEF Send, Received, TypeOK
  <2>0. /\ loop.at \in {"send", "overflow"} /\ loop.pool \in Pool /\ loop.request \in Requests
        /\ loop'.at = "raise" /\ loop'.pool = loop.pool
    BY <1>2 DEF Send, TypeOK
  <2>2. /\ loop.pool \in Pool /\ loop.request \in Requests /\ queue[p] \in Seq(Requests)
        /\ Sent(p) = 0 /\ Sent(p)' = IF p = loop.pool THEN 1 ELSE 0
        /\ queue'[p] = IF p = loop.pool THEN Append(queue[p], loop.request) ELSE queue[p]
    BY <1>2, <2>0 DEF Send, Sent, TypeOK
  <2>3. Len(queue[p]) \in Nat /\ Len(Append(queue[p], loop.request)) = Len(queue[p]) + 1
    BY <2>2, AppendRange
  <2>4. depth[p] + Sent(p) >= Len(queue[p]) + Cardinality(Received(p))
    BY DEF GaugeCoversQueue
  <2> QED BY <2>1, <2>2, <2>3, <2>4, ReceivedFinite
<1>3. CASE CountSent
  <2> SUFFICES ASSUME NEW p \in Pool
               PROVE  depth'[p] + Sent(p)' >= Len(queue'[p]) + Cardinality(Received(p)')
    BY DEF GaugeCoversQueue
  <2>1. queue' = queue /\ Received(p)' = Received(p) /\ depth[p] \in Nat
    BY <1>3 DEF CountSent, Received, TypeOK
  <2>2. /\ loop.pool \in Pool /\ Sent(p)' = 0 /\ Sent(p) = IF p = loop.pool THEN 1 ELSE 0
        /\ depth'[p] = IF p = loop.pool THEN depth[p] + 1 ELSE depth[p]
    BY <1>3 DEF CountSent, Raise, Sent, Accepting, TypeOK
  <2>3. depth[p] + Sent(p) >= Len(queue[p]) + Cardinality(Received(p))
    BY DEF GaugeCoversQueue
  <2>4. Len(queue[p]) \in Nat
    BY DEF TypeOK
  <2> QED BY <2>1, <2>2, <2>3, <2>4, ReceivedFinite
<1> QED BY <1>1, <1>2, <1>3 DEF Loop

LEMMA WorkKeepsGauge ==
  ASSUME TypeOK, GaugeCoversQueue, NEW w \in Workers, Work(w) \/ Handle(w)
  PROVE  GaugeCoversQueue'
<1>1. PoolOf[w] \in Pool /\ loop' = loop
  BY PoolOfAssumption DEF Work, Receive, CountReceived, Finish, Handle
<1>2. CASE Finish(w) \/ Handle(w)
  <2>1. queue' = queue /\ depth' = depth
    BY <1>2 DEF Finish, Handle
  <2>2. \A p \in Pool : Received(p)' = Received(p)
    BY <1>2 DEF Finish, Handle, Continues, Received, TypeOK
  <2> QED BY <1>1, <2>1, <2>2, SameCountsKeepGauge DEF SameCounts, Sent
<1>3. CASE Receive(w)
  <2> SUFFICES ASSUME NEW p \in Pool
               PROVE  depth'[p] + Sent(p)' >= Len(queue'[p]) + Cardinality(Received(p)')
    BY DEF GaugeCoversQueue
  <2>1. depth' = depth /\ Sent(p)' = Sent(p) /\ depth[p] \in Nat /\ Sent(p) \in {0, 1}
    BY <1>1, <1>3 DEF Receive, Sent, TypeOK
  <2>2. depth[p] + Sent(p) >= Len(queue[p]) + Cardinality(Received(p))
    BY DEF GaugeCoversQueue
  <2>3. CASE p # PoolOf[w]
    <3>1. queue'[p] = queue[p] /\ Received(p)' = Received(p)
      BY <1>3, <2>3 DEF Receive, Received, TypeOK
    <3> QED BY <2>1, <2>2, <3>1
  <2>4. CASE p = PoolOf[w]
    <3>1. queue[p] \in Seq(Requests) /\ queue[p] # <<>> /\ queue'[p] = Tail(queue[p])
      BY <1>3, <2>4 DEF Receive, TypeOK
    <3>2. Len(queue[p]) \in Nat /\ Len(Tail(queue[p])) + 1 = Len(queue[p]) /\ Len(Tail(queue[p])) \in Nat
      BY <3>1, TailRange
    <3>3. Received(p)' = Received(p) \cup {w} /\ w \notin Received(p)
      BY <1>3, <2>4 DEF Receive, Received, TypeOK
    <3>4. Cardinality(Received(p)') = Cardinality(Received(p)) + 1
      BY <3>3, ReceivedFinite, FS_AddElement
    <3> QED BY <2>1, <2>2, <3>1, <3>2, <3>4, ReceivedFinite
  <2> QED BY <2>3, <2>4
<1>4. CASE CountReceived(w)
  <2> SUFFICES ASSUME NEW p \in Pool
               PROVE  depth'[p] + Sent(p)' >= Len(queue'[p]) + Cardinality(Received(p)')
    BY DEF GaugeCoversQueue
  <2>1. queue' = queue /\ Sent(p)' = Sent(p) /\ depth[p] \in Nat /\ Sent(p) \in {0, 1}
    BY <1>1, <1>4 DEF CountReceived, Sent, TypeOK
  <2>2. depth[p] + Sent(p) >= Len(queue[p]) + Cardinality(Received(p))
    BY DEF GaugeCoversQueue
  <2>3. CASE p # PoolOf[w]
    <3>1. depth'[p] = depth[p] /\ Received(p)' = Received(p)
      BY <1>4, <2>3 DEF CountReceived, Lower, Received, TypeOK
    <3> QED BY <2>1, <2>2, <3>1
  <2>4. CASE p = PoolOf[w]
    <3>1. depth'[p] = IF depth[p] = 0 THEN 0 ELSE depth[p] - 1
      BY <1>4, <2>4 DEF CountReceived, Lower, TypeOK
    <3>2. Received(p)' = Received(p) \ {w} /\ w \in Received(p)
      BY <1>4, <2>4 DEF CountReceived, Received, TypeOK
    <3>3. Cardinality(Received(p)') = Cardinality(Received(p)) - 1
      BY <3>2, ReceivedFinite, FS_RemoveElement
    <3>4. Len(queue[p]) \in Nat
      BY DEF TypeOK
    <3> QED BY <2>1, <2>2, <3>1, <3>3, <3>4, ReceivedFinite
  <2> QED BY <2>3, <2>4
<1> QED BY <1>2, <1>3, <1>4 DEF Work

LEMMA OutsideKeepsGauge ==
  ASSUME TypeOK, GaugeCoversQueue, Outside \/ UNCHANGED vars PROVE GaugeCoversQueue'
<1>1. queue' = queue /\ depth' = depth /\ worker' = worker /\ loop' = loop
  BY DEF Outside, RequestShutdown, Drain, Join, Forward, HangUp, pools, vars
<1> QED BY <1>1, SameCountsKeepGauge DEF SameCounts, Sent, Received

LEMMA InitGauge == Init => GaugeCoversQueue
<1> SUFFICES ASSUME Init, NEW p \in Pool
             PROVE  depth[p] + Sent(p) >= Len(queue[p]) + Cardinality(Received(p))
  BY DEF GaugeCoversQueue
<1>1. Received(p) = {}
  BY DEF Init, Received
<1>2. Cardinality(Received(p)) = 0
  BY <1>1, FS_EmptySet
<1>3. depth[p] = 0 /\ Sent(p) = 0 /\ queue[p] = <<>>
  BY DEF Init, Sent, Accepting
<1> QED BY <1>2, <1>3

\* record_http_queue_enqueue and _dequeue, and the order in which they come: the gauge
\* of a queue never shows less than waits in it, but for the request just sent.
THEOREM GaugeIsNoUnderstatement == Spec => []GaugeCoversQueue
<1>1. TypeOK /\ GaugeCoversQueue /\ [Next]_vars => GaugeCoversQueue'
  BY LoopKeepsGauge, WorkKeepsGauge, OutsideKeepsGauge DEF Next, Outside
<1> QED BY <1>1, InitGauge, TypeCorrect, PTL DEF Spec

-----------------------------------------------------------------------------
(* Who holds a request *)

InIncoming(r) == r \in Range(incoming)
InHand(r) == loop.request = r /\ loop.at # "raise"
Queued(r, p) == r \in Range(queue[p])
InWork(r) == \E w \in Workers : job[w] = r
Open(r) == client[r] \in {"waiting", "gone"}

NoRepetition ==
    /\ IsInjective(incoming) /\ IsInjective(queue["normal"]) /\ IsInjective(queue["stream"])
    /\ \A w, x \in Workers : job[w] = job[x] /\ job[w] # None => w = x

OneHolder ==
    \A r \in Requests :
       /\ InIncoming(r) => ~InHand(r) /\ ~Queued(r, "normal") /\ ~Queued(r, "stream") /\ ~InWork(r)
       /\ InHand(r) => ~Queued(r, "normal") /\ ~Queued(r, "stream") /\ ~InWork(r)
       /\ Queued(r, "normal") => ~Queued(r, "stream") /\ ~InWork(r)
       /\ Queued(r, "stream") => ~InWork(r)

Held(r) == InIncoming(r) \/ InHand(r) \/ Queued(r, "normal") \/ Queued(r, "stream") \/ InWork(r)

HeldIsOpen ==
    \A r \in Requests :
       /\ Held(r) => Open(r)
       /\ client[r] = "waiting" => Held(r)

\* The proxy has returned, so nobody waits and nobody comes.
ClosedIsQuiet == front # "serving" => NobodyWaits

HInv == TypeOK /\ NoRepetition /\ OneHolder /\ HeldIsOpen /\ ClosedIsQuiet

LEMMA InitHInv == Init => HInv
<1> SUFFICES ASSUME Init PROVE HInv
  OBVIOUS
<1>0. incoming = <<>> /\ queue["normal"] = <<>> /\ queue["stream"] = <<>> /\ DOMAIN <<>> = {}
  BY DEF Init, Pool
<1>1. \A r \in Requests : ~Held(r)
  <2>1. Range(<<>>) = {}
    BY <1>0 DEF Range
  <2> QED BY <1>0, <2>1, NoneAssumption DEF Init, Accepting, Held, InIncoming, InHand, Queued, InWork
<1>2. NoRepetition
  <2>1. IsInjective(<<>>)
    BY <1>0 DEF IsInjective
  <2> QED BY <1>0, <2>1 DEF Init, NoRepetition
<1>3. OneHolder /\ HeldIsOpen /\ ClosedIsQuiet
  BY <1>1 DEF OneHolder, HeldIsOpen, Held, ClosedIsQuiet, NobodyWaits, Init
<1> QED BY <1>2, <1>3, InitTypeOK DEF HInv

\* A request read off its connection, or refused one.
LEMMA ForwardHInv ==
  ASSUME HInv, TypeOK', NEW q \in Requests, Forward(q) PROVE HInv'
<1> USE DEF HInv
<1>1. /\ client[q] = "new" /\ loop' = loop /\ queue' = queue /\ job' = job
      /\ incoming \in Seq(Requests) /\ ~Held(q) /\ front' = front /\ front = "serving"
  BY DEF Forward, pools, process, TypeOK, HeldIsOpen, Open
<1>2. /\ \A r \in Requests \ {q} : client'[r] = client[r]
      /\ \/ incoming' = Append(incoming, q) /\ client'[q] = "waiting"
         \/ incoming' = incoming /\ client'[q] = "done"
  BY DEF Forward, TypeOK
<1>3. /\ \A r \in Requests : /\ InHand(r)' = InHand(r) /\ InWork(r)' = InWork(r)
                             /\ \A p \in Pool : Queued(r, p)' = Queued(r, p)
      /\ IsInjective(incoming')
      /\ \A r \in Requests : InIncoming(r)' <=> InIncoming(r) \/ (r = q /\ client'[q] = "waiting")
  <2>1. q \notin Range(incoming)
    BY <1>1 DEF Held, InIncoming
  <2>2. /\ Range(Append(incoming, q)) = Range(incoming) \cup {q}
        /\ IsInjective(Append(incoming, q)) /\ IsInjective(incoming)
    BY <1>1, <2>1, AppendRange DEF NoRepetition
  <2>3. IsInjective(incoming') /\ \A r \in Requests : InIncoming(r)' <=>
                                InIncoming(r) \/ (r = q /\ client'[q] = "waiting")
    BY <1>2, <2>2 DEF InIncoming
  <2>4. \A r \in Requests : /\ InHand(r)' = InHand(r) /\ InWork(r)' = InWork(r)
                             /\ \A p \in Pool : Queued(r, p)' = Queued(r, p)
    BY <1>1 DEF InHand, InWork, Queued
  <2> QED BY <2>3, <2>4
<1>4. NoRepetition'
  BY <1>1, <1>3 DEF NoRepetition
<1>5. OneHolder'
  BY <1>1, <1>3 DEF OneHolder, Held, Pool
<1>6. HeldIsOpen'
  BY <1>1, <1>2, <1>3 DEF HeldIsOpen, Held, Open, Pool
<1> QED BY <1>1, <1>4, <1>5, <1>6 DEF ClosedIsQuiet

\* Only what the proxy knows changes.
LEMMA StillHInv ==
  ASSUME HInv, TypeOK', incoming' = incoming, loop' = loop, queue' = queue, job' = job,
         \A r \in Requests : client'[r] = client[r] \/ (client[r] = "waiting" /\ client'[r] = "gone"),
         front' # "serving" => front # "serving" \/ NobodyWaits
  PROVE  HInv'
<1>1. \A r \in Requests : Held(r)' = Held(r) /\ (Open(r)' <=> Open(r))
  BY DEF Held, InIncoming, InHand, Queued, InWork, Open
<1>2. NoRepetition' /\ OneHolder'
  BY DEF HInv, NoRepetition, OneHolder, InIncoming, InHand, Queued, InWork
<1>3. HeldIsOpen'
  BY <1>1 DEF HInv, HeldIsOpen
<1>4. ClosedIsQuiet'
  BY DEF HInv, ClosedIsQuiet, NobodyWaits
<1> QED BY <1>2, <1>3, <1>4 DEF HInv

\* The request that is answered, by the loop or a worker, leaves its holder; another
\* one may be in hand.
LEMMA AcceptHInv ==
  ASSUME HInv, TypeOK', Accept PROVE HInv'
<1> USE DEF HInv
<1>0. PICK q \in Requests : q = Head(incoming)
  BY TailRange DEF Accept, TypeOK
<1>1. /\ q \in Requests /\ q \in Range(incoming) /\ IsInjective(incoming')
      /\ Range(incoming') = Range(incoming) \ {q}
  BY <1>0, TailRange DEF Accept, TypeOK, NoRepetition
<1>2. /\ queue' = queue /\ job' = job /\ front' = front
      /\ loop.at = "accept" /\ loop.request = None
      /\ \/ Respond(q) /\ loop' = Ended
         \/ client' = client /\ loop'.request = q /\ loop'.at # "raise"
  BY <1>0 DEF Accept, pools, process, TypeOK
<1>3. \A r \in Requests : /\ InWork(r)' = InWork(r) /\ \A p \in Pool : Queued(r, p)' = Queued(r, p)
                          /\ ~InHand(r) /\ (InIncoming(r)' <=> InIncoming(r) /\ r # q)
                          /\ (InHand(r)' <=> r = q /\ loop' # Ended)
  BY <1>1, <1>2, NoneAssumption DEF InWork, Queued, InHand, InIncoming, Ended
<1>4. /\ InIncoming(q)
      /\ \A r \in Requests \ {q} : client'[r] = client[r]
      /\ loop' = Ended => client'[q] \in {"done", "gone"}
      /\ loop' # Ended => client' = client
  BY <1>1, <1>2, NoneAssumption DEF InIncoming, Respond, TypeOK, Ended
<1>5. NoRepetition'
  BY <1>1, <1>2 DEF NoRepetition
<1>6. OneHolder'
  BY <1>3, <1>4 DEF OneHolder, Pool
<1>7. HeldIsOpen'
  <2>1. loop' = Ended => ~Held(q)'
    BY <1>1, <1>3, <1>4 DEF OneHolder, Held, Pool
  <2>2. \A r \in Requests \ {q} : Held(r)' <=> Held(r)
    BY <1>3 DEF Held, Pool
  <2>3. Held(q) /\ (loop' # Ended => Held(q)')
    BY <1>1, <1>3, <1>4 DEF Held
  <2> QED BY <1>1, <1>4, <2>1, <2>2, <2>3 DEF HeldIsOpen, Open
<1>8. ClosedIsQuiet'
  BY <1>1, <1>2, <1>4 DEF ClosedIsQuiet, NobodyWaits, Respond, TypeOK
<1> QED BY <1>5, <1>6, <1>7, <1>8

LEMMA AnswerInHandHInv ==
  ASSUME HInv, TypeOK', HandleInline \/ Refuse PROVE HInv'
<1> USE DEF HInv
<1>0. PICK q \in Requests : q = loop.request
  BY DEF HandleInline, Refuse, TypeOK
<1>1. /\ q \in Requests /\ InHand(q) /\ incoming' = incoming /\ queue' = queue /\ job' = job
      /\ front' = front /\ loop'.request = None /\ Respond(q)
  BY <1>0 DEF HandleInline, Refuse, InHand, pools, process, Accepting, TypeOK
<1>2. \A r \in Requests : /\ InIncoming(r)' = InIncoming(r) /\ InWork(r)' = InWork(r)
                          /\ \A p \in Pool : Queued(r, p)' = Queued(r, p)
                          /\ ~InHand(r)' /\ (InHand(r) => r = q)
  BY <1>1, NoneAssumption DEF InIncoming, InWork, Queued, InHand
<1>3. NoRepetition' /\ OneHolder'
  BY <1>1, <1>2 DEF NoRepetition, OneHolder, Pool
<1>4. \A r \in Requests \ {q} : client'[r] = client[r] /\ Held(r)' = Held(r)
  BY <1>1, <1>2 DEF Respond, Held, Pool, TypeOK
<1>5. client'[q] \in {"done", "gone"} /\ ~Held(q)'
  BY <1>1, <1>2 DEF Respond, OneHolder, Held, Pool, HeldIsOpen, TypeOK
<1>6. HeldIsOpen' /\ ClosedIsQuiet'
  BY <1>1, <1>4, <1>5 DEF HeldIsOpen, Open, ClosedIsQuiet, NobodyWaits
<1> QED BY <1>3, <1>6

LEMMA SendHInv ==
  ASSUME HInv, TypeOK', Send PROVE HInv'
<1> USE DEF HInv
<1>0. PICK q \in Requests, p \in Pool : q = loop.request /\ p = loop.pool
  BY DEF Send, TypeOK
<1>1. /\ q \in Requests /\ p \in Pool /\ InHand(q) /\ queue[p] \in Seq(Requests)
      /\ incoming' = incoming /\ job' = job /\ front' = front /\ client' = client
      /\ loop'.at = "raise" /\ loop'.request = q
      /\ queue'[p] = Append(queue[p], q) /\ \A o \in Pool \ {p} : queue'[o] = queue[o]
  BY <1>0 DEF Send, InHand, process, TypeOK
<1>2. ~Queued(q, "normal") /\ ~Queued(q, "stream") /\ ~InIncoming(q) /\ ~InWork(q)
  BY <1>1 DEF OneHolder
<1>3. Range(queue'[p]) = Range(queue[p]) \cup {q} /\ IsInjective(queue'[p])
  <2>1. q \notin Range(queue[p]) /\ IsInjective(queue[p])
    BY <1>1, <1>2 DEF Queued, NoRepetition, Pool
  <2> QED BY <1>1, <2>1, AppendRange
<1>4. \A r \in Requests : /\ InIncoming(r)' = InIncoming(r) /\ InWork(r)' = InWork(r)
                          /\ ~InHand(r)' /\ (InHand(r) <=> r = q)
                          /\ \A o \in Pool : Queued(r, o)' <=> Queued(r, o) \/ (r = q /\ o = p)
  <2>1. \A r \in Requests : /\ InIncoming(r)' = InIncoming(r) /\ InWork(r)' = InWork(r)
                             /\ ~InHand(r)' /\ (InHand(r) <=> r = q)
    BY <1>1 DEF InIncoming, InWork, InHand
  <2>2. \A r \in Requests, o \in Pool : Queued(r, o)' <=> Queued(r, o) \/ (r = q /\ o = p)
    BY <1>1, <1>3 DEF Queued
  <2> QED BY <2>1, <2>2
<1>5. NoRepetition'
  BY <1>1, <1>3 DEF NoRepetition, Pool
<1>6. OneHolder'
  BY <1>1, <1>2, <1>4 DEF OneHolder, Pool
<1>7. HeldIsOpen' /\ ClosedIsQuiet'
  BY <1>1, <1>4 DEF HeldIsOpen, Held, Open, Pool, ClosedIsQuiet, NobodyWaits
<1> QED BY <1>5, <1>6, <1>7

LEMMA MoveLoopHInv ==
  ASSUME HInv, TypeOK', CountSent \/ Overflow \/ WakeBackend PROVE HInv'
<1> USE DEF HInv
<1>1. /\ incoming' = incoming /\ queue' = queue /\ job' = job /\ client' = client /\ front' = front
  BY DEF CountSent, Overflow, TryOther, WakeBackend, pools, process
<1>2. \A r \in Requests : /\ InIncoming(r)' = InIncoming(r) /\ InWork(r)' = InWork(r)
                          /\ \A p \in Pool : Queued(r, p)' = Queued(r, p)
  BY <1>1 DEF InIncoming, InWork, Queued
<1>3. \A r \in Requests : InHand(r)' <=> InHand(r)
  <2>1. CASE CountSent
    BY <2>1, NoneAssumption DEF CountSent, Accepting, InHand
  <2>2. CASE Overflow
    BY <2>2 DEF Overflow, TryOther, InHand, TypeOK
  <2>3. CASE WakeBackend
    BY <2>3, NoneAssumption DEF WakeBackend, Ended, InHand, TypeOK
  <2> QED BY <2>1, <2>2, <2>3
<1>4. NoRepetition' /\ OneHolder'
  BY <1>1, <1>2, <1>3 DEF NoRepetition, OneHolder, Pool
<1>5. HeldIsOpen' /\ ClosedIsQuiet'
  BY <1>1, <1>2, <1>3 DEF HeldIsOpen, Held, Open, Pool, ClosedIsQuiet, NobodyWaits
<1> QED BY <1>4, <1>5

LEMMA ReceiveHInv ==
  ASSUME HInv, TypeOK', NEW w \in Workers, Receive(w) PROVE HInv'
<1> DEFINE p == PoolOf[w]
<1> USE DEF HInv
<1>0. PICK q \in Requests : q = Head(queue[p])
  BY PoolOfAssumption, TailRange DEF Receive, TypeOK
<1>1. /\ p \in Pool /\ queue[p] \in Seq(Requests) /\ queue[p] # <<>> /\ job[w] = None
      /\ incoming' = incoming /\ loop' = loop /\ front' = front /\ client' = client
      /\ job'[w] = q /\ \A x \in Workers \ {w} : job'[x] = job[x]
      /\ queue'[p] = Tail(queue[p]) /\ \A o \in Pool \ {p} : queue'[o] = queue[o]
  BY <1>0, PoolOfAssumption DEF Receive, process, TypeOK
<1>2. /\ q \in Requests /\ q \in Range(queue[p]) /\ IsInjective(queue'[p])
      /\ Range(queue'[p]) = Range(queue[p]) \ {q}
  BY <1>0, <1>1, TailRange DEF NoRepetition, Pool
<1>3. Queued(q, p) /\ ~InWork(q)
  BY <1>1, <1>2 DEF Queued, OneHolder, Pool
<1>4. \A r \in Requests : /\ InIncoming(r)' = InIncoming(r) /\ InHand(r)' = InHand(r)
                          /\ (InWork(r)' <=> InWork(r) \/ r = q)
                          /\ \A o \in Pool : Queued(r, o)' <=> Queued(r, o) /\ ~(r = q /\ o = p)
  BY <1>1, <1>2, NoneAssumption DEF InIncoming, InWork, InHand, Queued
<1>5. NoRepetition'
  <2>1. \A x \in Workers : job[x] # q
    BY <1>3 DEF InWork
  <2> QED BY <1>1, <1>2, <2>1 DEF NoRepetition, Pool
<1>6. OneHolder'
  BY <1>1, <1>3, <1>4 DEF OneHolder, Pool
<1>7. HeldIsOpen' /\ ClosedIsQuiet'
  BY <1>1, <1>3, <1>4 DEF HeldIsOpen, Held, Open, Pool, ClosedIsQuiet, NobodyWaits
<1> QED BY <1>5, <1>6, <1>7

LEMMA HandleHInv ==
  ASSUME HInv, TypeOK', NEW w \in Workers, Handle(w) PROVE HInv'
<1> USE DEF HInv
<1>0. PICK q \in Requests : q = job[w]
  BY DEF Handle, TypeOK
<1>1. /\ q \in Requests /\ InWork(q) /\ incoming' = incoming /\ queue' = queue /\ loop' = loop
      /\ front' = front /\ job'[w] = None /\ Respond(q)
      /\ \A x \in Workers \ {w} : job'[x] = job[x]
  BY <1>0 DEF Handle, InWork, process, TypeOK
<1>2. \A x \in Workers \ {w} : job[x] # q
  BY <1>0, <1>1, NoneAssumption DEF NoRepetition
<1>3. \A r \in Requests : /\ InIncoming(r)' = InIncoming(r) /\ InHand(r)' = InHand(r)
                          /\ \A p \in Pool : Queued(r, p)' = Queued(r, p)
                          /\ (InWork(r)' <=> InWork(r) /\ r # q)
  BY <1>0, <1>1, <1>2, NoneAssumption DEF InIncoming, InHand, Queued, InWork
<1>4. NoRepetition' /\ OneHolder'
  BY <1>1, <1>3 DEF NoRepetition, OneHolder, Pool
<1>5. \A r \in Requests \ {q} : client'[r] = client[r] /\ Held(r)' = Held(r)
  BY <1>1, <1>3 DEF Respond, Held, Pool, TypeOK
<1>6. client'[q] \in {"done", "gone"} /\ ~Held(q)'
  BY <1>1, <1>3 DEF Respond, OneHolder, Held, Pool, HeldIsOpen, TypeOK
<1>7. HeldIsOpen' /\ ClosedIsQuiet'
  BY <1>1, <1>5, <1>6 DEF HeldIsOpen, Open, ClosedIsQuiet, NobodyWaits
<1> QED BY <1>4, <1>7

LEMMA StepHInv == HInv /\ [Next]_vars => HInv'
<1> SUFFICES ASSUME HInv, [Next]_vars PROVE HInv'
  OBVIOUS
<1>1. TypeOK'
  BY StepTypeOK DEF HInv
<1>2. CASE Loop
  BY <1>1, <1>2, AcceptHInv, AnswerInHandHInv, SendHInv, MoveLoopHInv DEF Loop
<1>3. ASSUME NEW w \in Workers, CountReceived(w) \/ Finish(w) PROVE HInv'
  BY <1>1, <1>3, StillHInv DEF CountReceived, Finish, process
<1>4. ASSUME NEW r \in Requests, HangUp(r) PROVE HInv'
  <2>1. \A q \in Requests : client'[q] = client[q] \/ (client[q] = "waiting" /\ client'[q] = "gone")
    BY <1>4 DEF HangUp, HInv, TypeOK
  <2> QED BY <1>1, <1>4, <2>1, StillHInv DEF HangUp, pools, process
<1>5. CASE RequestShutdown \/ Drain \/ Join \/ UNCHANGED vars
  BY <1>1, <1>5, StillHInv DEF RequestShutdown, Drain, Join, vars, pools
<1> QED BY <1>1, <1>2, <1>3, <1>4, <1>5, ForwardHInv, ReceiveHInv, HandleHInv DEF Next, Work

-----------------------------------------------------------------------------
(* From the holders to the counts *)

LEMMA PlacesOfHolders ==
  ASSUME HInv, NEW r \in Requests PROVE Places(r) = IF Held(r) THEN 1 ELSE 0
<1> DEFINE at(p) == Count(r, queue[p])
           jobs == {w \in Workers : job[w] = r}
<1>1. Count(r, incoming) = IF InIncoming(r) THEN 1 ELSE 0
  BY CountOfInjective DEF HInv, TypeOK, NoRepetition, InIncoming, Count
<1>2. /\ at("normal") = IF Queued(r, "normal") THEN 1 ELSE 0
      /\ at("stream") = IF Queued(r, "stream") THEN 1 ELSE 0
  BY CountOfInjective DEF HInv, TypeOK, NoRepetition, Queued, Pool, Count
<1>3. Cardinality(jobs) = IF InWork(r) THEN 1 ELSE 0
  <2>1. CASE ~InWork(r)
    <3>1. jobs = {}
      BY <2>1 DEF InWork
    <3> QED BY <2>1, <3>1, FS_EmptySet
  <2>2. CASE InWork(r)
    <3>1. PICK w \in Workers : job[w] = r
      BY <2>2 DEF InWork
    <3>2. jobs = {w}
      BY <3>1, NoneAssumption DEF HInv, NoRepetition
    <3> QED BY <2>2, <3>2, FS_Singleton
  <2> QED BY <2>1, <2>2
<1>4. Places(r) = Count(r, incoming) + at("normal") + at("stream")
                  + (IF InHand(r) THEN 1 ELSE 0) + Cardinality(jobs)
  BY DEF Places, InHand
<1> HIDE DEF at, jobs
<1>5. /\ InIncoming(r) => ~InHand(r) /\ ~Queued(r, "normal") /\ ~Queued(r, "stream") /\ ~InWork(r)
      /\ InHand(r) => ~Queued(r, "normal") /\ ~Queued(r, "stream") /\ ~InWork(r)
      /\ Queued(r, "normal") => ~Queued(r, "stream") /\ ~InWork(r)
      /\ Queued(r, "stream") => ~InWork(r)
  BY DEF HInv, OneHolder
<1> QED BY <1>1, <1>2, <1>3, <1>4, <1>5 DEF Held

\* Both queues, the hand-over between them, the workers and their panics: a request
\* that waits for its answer is in exactly one place, and an answered one in none.
THEOREM RequestsAreHeldOnce == Spec => []WaitingIsHeldOnce
<1>1. HInv => WaitingIsHeldOnce
  <2> SUFFICES ASSUME HInv, NEW r \in Requests
               PROVE  /\ client[r] = "waiting" => Places(r) = 1
                      /\ client[r] = "gone" => Places(r) <= 1
                      /\ client[r] \in {"new", "done"} => Places(r) = 0
    BY DEF WaitingIsHeldOnce
  <2>1. /\ client[r] = "waiting" => Held(r)
        /\ client[r] \in {"new", "done"} => ~Held(r)
    BY DEF HInv, HeldIsOpen, Open
  <2> QED BY <2>1, PlacesOfHolders
<1> QED BY <1>1, InitHInv, StepHInv, PTL DEF Spec

\* start_http does not join the workers; the requests it leaves them with have no
\* client any more.
THEOREM ExitIsSafe == Spec => []ExitCutsOffOnlyAbandoned
<1>1. HInv => ExitCutsOffOnlyAbandoned
  <2> SUFFICES ASSUME HInv, front = "returned", NEW w \in Workers, job[w] # None
               PROVE  client[job[w]] = "gone"
    BY DEF ExitCutsOffOnlyAbandoned
  <2>1. job[w] \in Requests /\ Open(job[w])
    BY DEF HInv, TypeOK, HeldIsOpen, Held, InWork
  <2> QED BY <2>1 DEF HInv, ClosedIsQuiet, NobodyWaits, Open
<1> QED BY <1>1, InitHInv, StepHInv, PTL DEF Spec

=============================================================================
