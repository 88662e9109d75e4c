------------------------- MODULE UsageRefresh_proofs -------------------------
(***************************************************************************)
(* The marks of the queue and the batches of the polling loop, for any     *)
(* number of accounts, threads and any batch limit.                        *)
(*                                                                         *)
(* That a mark stands for one task is proved like a hand-over: the caller, *)
(* the queue and the worker each hold an account at most once and never    *)
(* two of them the same one.  That a cycle has nobody twice comes down to  *)
(* arithmetic: the indices behind the cursor, wrapped around the list, do  *)
(* not meet while there are no more of them than the list is long.         *)
(***************************************************************************)
EXTENDS UsageRefresh, SequenceTheorems, FiniteSetTheorems, TLAPS

-----------------------------------------------------------------------------
(* Queues that never hold an element twice: what sending and receiving do to *)
(* the set of elements, and how often an element is counted in one.          *)

\* Appending adds one element, at the end.
LEMMA AppendRange ==
  ASSUME NEW S, NEW s \in Seq(S), NEW x \in S
  PROVE  /\ Append(s, x) \in Seq(S) /\ Len(Append(s, x)) = Len(s) + 1
         /\ Range(Append(s, x)) = Range(s) \cup {x}
         /\ IsInjective(s) /\ x \notin Range(s) => IsInjective(Append(s, x))
<1>1. /\ Append(s, x) \in Seq(S) /\ Len(Append(s, x)) = Len(s) + 1
      /\ DOMAIN s = 1 .. Len(s) /\ DOMAIN Append(s, x) = 1 .. Len(s) + 1 /\ Len(s) \in Nat
      /\ \A i \in 1 .. Len(s) : Append(s, x)[i] = s[i]
      /\ Append(s, x)[Len(s) + 1] = x
  OBVIOUS
<1>2. \A y \in Range(Append(s, x)) : y \in Range(s) \cup {x}
  <2> SUFFICES ASSUME NEW i \in 1 .. Len(s) + 1 PROVE Append(s, x)[i] \in Range(s) \cup {x}
    BY <1>1 DEF Range
  <2>1. CASE i \in 1 .. Len(s)
    BY <1>1, <2>1 DEF Range
  <2>2. CASE i = Len(s) + 1
    BY <1>1, <2>2
  <2> QED BY <1>1, <2>1, <2>2
<1>3. \A y \in Range(s) \cup {x} : y \in Range(Append(s, x))
  <2>1. \A i \in 1 .. Len(s) : i \in 1 .. Len(s) + 1
    BY <1>1
  <2>2. Len(s) + 1 \in 1 .. Len(s) + 1
    BY <1>1
  <2> QED BY <1>1, <2>1, <2>2 DEF Range
<1>4. ASSUME IsInjective(s), x \notin Range(s) PROVE IsInjective(Append(s, x))
  <2> SUFFICES ASSUME NEW i \in 1 .. Len(s) + 1, NEW j \in 1 .. Len(s) + 1,
                      Append(s, x)[i] = Append(s, x)[j]
               PROVE  i = j
    BY <1>1 DEF IsInjective
  <2>1. \A k \in 1 .. Len(s) : s[k] # x
    BY <1>1, <1>4 DEF Range
  <2>2. CASE i \in 1 .. Len(s) /\ j \in 1 .. Len(s)
    BY <1>1, <1>4, <2>2 DEF IsInjective
  <2>3. CASE i = Len(s) + 1 \/ j = Len(s) + 1
    BY <1>1, <2>1, <2>3
  <2> QED BY <1>1, <2>2, <2>3
<1> QED BY <1>1, <1>2, <1>3, <1>4

\* Taking the head takes one element away, and all of it if it is there once.
LEMMA TailRange ==
  ASSUME NEW S, NEW s \in Seq(S), s # <<>>
  PROVE  /\ Head(s) \in S /\ Head(s) \in Range(s) /\ Tail(s) \in Seq(S)
         /\ Len(s) \in Nat /\ Len(Tail(s)) + 1 = Len(s)
         /\ IsInjective(s) => IsInjective(Tail(s)) /\ Range(Tail(s)) = Range(s) \ {Head(s)}
<1>1. /\ Len(s) \in Nat /\ Len(s) >= 1 /\ Len(Tail(s)) = Len(s) - 1 /\ Tail(s) \in Seq(S)
      /\ Head(s) = s[1] /\ Head(s) \in S
      /\ DOMAIN s = 1 .. Len(s) /\ DOMAIN Tail(s) = 1 .. Len(s) - 1
      /\ \A i \in 1 .. Len(s) - 1 : Tail(s)[i] = s[i + 1]
  OBVIOUS
<1>2. 1 \in 1 .. Len(s) /\ \A i \in 1 .. Len(s) - 1 : i + 1 \in 1 .. Len(s) /\ i + 1 # 1
  BY <1>1
<1>3. Head(s) \in Range(s)
  BY <1>1, <1>2 DEF Range
<1>4. ASSUME IsInjective(s) PROVE IsInjective(Tail(s)) /\ Range(Tail(s)) = Range(s) \ {Head(s)}
  <2>1. IsInjective(Tail(s))
    <3> SUFFICES ASSUME NEW i \in 1 .. Len(s) - 1, NEW j \in 1 .. Len(s) - 1, s[i + 1] = s[j + 1]
                 PROVE  i = j
      BY <1>1 DEF IsInjective
    <3>1. i + 1 = j + 1
      BY <1>1, <1>2, <1>4 DEF IsInjective
    <3> QED BY <1>1, <3>1
  <2>2. \A x \in Range(Tail(s)) : x \in Range(s) \ {Head(s)}
    <3> SUFFICES ASSUME NEW i \in 1 .. Len(s) - 1 PROVE s[i + 1] \in Range(s) /\ s[i + 1] # s[1]
      BY <1>1 DEF Range
    <3> QED BY <1>1, <1>2, <1>4 DEF Range, IsInjective
  <2>3. \A x \in Range(s) \ {Head(s)} : x \in Range(Tail(s))
    <3> SUFFICES ASSUME NEW i \in 1 .. Len(s), s[i] # s[1] PROVE s[i] \in Range(Tail(s))
      BY <1>1 DEF Range
    <3>1. i - 1 \in 1 .. Len(s) - 1 /\ (i - 1) + 1 = i
      BY <1>1
    <3>2. Tail(s)[i - 1] = s[i]
      BY <1>1, <3>1
    <3> QED BY <1>1, <3>1, <3>2 DEF Range
  <2> QED BY <2>1, <2>2, <2>3
<1> QED BY <1>1, <1>3, <1>4

\* An element of such a queue is counted once.
LEMMA CountOfInjective ==
  ASSUME NEW S, NEW s \in Seq(S), IsInjective(s), NEW r
  PROVE  Cardinality({i \in DOMAIN s : s[i] = r}) = IF r \in Range(s) THEN 1 ELSE 0
<1>1. CASE r \notin Range(s)
  <2>1. {i \in DOMAIN s : s[i] = r} = {}
    BY <1>1 DEF Range
  <2> QED BY <1>1, <2>1, FS_EmptySet
<1>2. CASE r \in Range(s)
  <2>1. PICK i \in DOMAIN s : s[i] = r
    BY <1>2 DEF Range
  <2>2. {j \in DOMAIN s : s[j] = r} = {i}
    BY <2>1 DEF IsInjective
  <2> QED BY <1>2, <2>2, FS_Singleton
<1> QED BY <1>1, <1>2

-----------------------------------------------------------------------------
(* The window of a cycle *)

LEMMA ModRange ==
  ASSUME NEW a \in Nat, NEW n \in Nat, n > 0
  PROVE  a % n \in 0 .. n - 1
  OBVIOUS

\* Numbers less than n apart leave different remainders.
LEMMA ModApart ==
  ASSUME NEW a \in Nat, NEW b \in Nat, NEW n \in Nat, n > 0, a < b, b - a < n
  PROVE  a % n # b % n
<1> DEFINE p == a \div n
           q == b \div n
<1>1. p \in Int /\ q \in Int /\ a = n * p + (a % n) /\ b = n * q + (b % n)
  OBVIOUS
<1>2. a % n \in 0 .. n - 1 /\ b % n \in 0 .. n - 1
  BY ModRange
<1> HIDE DEF p, q
<1>3. ASSUME a % n = b % n PROVE FALSE
  <2>1. b - a = n * q - n * p
    BY <1>1, <1>2, <1>3
  <2>2. n * q - n * p = n * (q - p)
    BY <1>1
  <2>3. CASE q - p <= 0
    BY <1>1, <2>1, <2>2, <2>3
  <2>4. CASE q - p >= 1
    BY <1>1, <2>1, <2>2, <2>4
  <2> QED BY <1>1, <2>3, <2>4
<1> QED BY <1>3

LEMMA ListingIsSeq ==
  ASSUME NEW s \in Listings
  PROVE  s \in Seq(Accounts) /\ Len(s) \in Nat /\ DOMAIN s = 1 .. Len(s) /\ IsInjective(s)
<1>1. PICK n \in Nat : s \in [1 .. n -> Accounts] /\ IsInjective(s)
  <2>1. PICK n \in 0 .. Cardinality(Accounts) : s \in Injection(1 .. n, Accounts)
    BY DEF Listings
  <2>2. Cardinality(Accounts) \in Nat
    BY AccountsFinite, FS_CardinalityType
  <2> QED BY <2>1, <2>2 DEF Injection
<1>2. s \in Seq(Accounts)
  BY <1>1, SeqDef
<1> QED BY <1>1, <1>2

LEMMA LimitRange ==
  ASSUME NEW n \in Nat PROVE Limit(n) \in 0 .. n
  BY BatchLimitAssumption DEF Limit

\* usage_poll_batch_indices: as many accounts as the limit allows, none of them twice.
LEMMA WindowIsInjective ==
  ASSUME NEW s \in Seq(Accounts), s # <<>>, IsInjective(s), cursor \in Nat
  PROVE  /\ Window(s) \in Seq(Accounts) /\ IsInjective(Window(s))
         /\ Len(Window(s)) = Limit(Len(s))
<1> DEFINE n == Len(s)
           at(k) == ((cursor + k - 1) % n) + 1
<1>1. n \in Nat /\ n > 0 /\ DOMAIN s = 1 .. n /\ s \in [1 .. n -> Accounts]
  OBVIOUS
<1>2. Limit(n) \in 0 .. n
  BY <1>1, LimitRange
<1>3. \A k \in 1 .. Limit(n) : at(k) \in 1 .. n
  <2> SUFFICES ASSUME NEW k \in 1 .. Limit(n) PROVE at(k) \in 1 .. n
    OBVIOUS
  <2>1. cursor + k - 1 \in Nat
    BY <1>1, <1>2
  <2>2. (cursor + k - 1) % n \in 0 .. n - 1
    BY <1>1, <2>1, ModRange
  <2> QED BY <1>1, <2>2
<1>4. Window(s) = [k \in 1 .. Limit(n) |-> s[at(k)]]
  BY DEF Window
<1>5. \A j, k \in 1 .. Limit(n) : j < k => at(j) # at(k)
  <2> SUFFICES ASSUME NEW j \in 1 .. Limit(n), NEW k \in 1 .. Limit(n), j < k
               PROVE  at(j) # at(k)
    OBVIOUS
  <2>1. /\ cursor + j - 1 \in Nat /\ cursor + k - 1 \in Nat
        /\ cursor + j - 1 < cursor + k - 1 /\ (cursor + k - 1) - (cursor + j - 1) < n
    BY <1>1, <1>2
  <2>2. (cursor + j - 1) % n # (cursor + k - 1) % n
    BY <1>1, <2>1, ModApart
  <2>3. (cursor + j - 1) % n \in 0 .. n - 1 /\ (cursor + k - 1) % n \in 0 .. n - 1
    BY <1>1, <2>1, ModRange
  <2> QED BY <1>1, <2>2, <2>3
<1> HIDE DEF at
<1>6. Window(s) \in [1 .. Limit(n) -> Accounts]
  BY <1>1, <1>3, <1>4
<1>7. Window(s) \in Seq(Accounts) /\ Len(Window(s)) = Limit(n)
  <2>1. Window(s) \in Seq(Accounts)
    BY <1>2, <1>6, SeqDef
  <2> QED BY <1>2, <1>6, <2>1
<1>8. IsInjective(Window(s))
  <2> SUFFICES ASSUME NEW j \in 1 .. Limit(n), NEW k \in 1 .. Limit(n), s[at(j)] = s[at(k)]
               PROVE  j = k
    BY <1>4 DEF IsInjective
  <2>1. at(j) = at(k)
    BY <1>1, <1>3 DEF IsInjective
  <2>2. ~(j < k) /\ ~(k < j)
    BY <1>5, <2>1
  <2> QED BY <1>2, <2>2
<1> QED BY <1>7, <1>8

-----------------------------------------------------------------------------
(* Types *)

\* Between two cycles nobody works on one.
IdleHasNoCrew == poll # "cycle" => crew = {}

LEMMA EmptyListing == <<>> \in Listings
<1>1. Cardinality(Accounts) \in Nat
  BY AccountsFinite, FS_CardinalityType
<1>2. <<>> \in [1 .. 0 -> Accounts] /\ IsInjective(<<>>)
  BY DEF IsInjective
<1>3. 0 \in 0 .. Cardinality(Accounts) /\ <<>> \in Injection(1 .. 0, Accounts)
  BY <1>1, <1>2 DEF Injection
<1> QED BY <1>3 DEF Listings

LEMMA InitTypeOK == Init => TypeOK
<1> SUFFICES ASSUME Init PROVE TypeOK
  OBVIOUS
<1>1. QueueTypeOK
  BY DEF Init, QueueTypeOK
<1>2. PollTypeOK
  BY EmptyListing DEF Init, NoCycle, PollTypeOK
<1> QED BY <1>1, <1>2 DEF TypeOK

\* The threads that ask the queue, and its workers.
QueueStep ==
    \/ \E c \in Callers : SendTask(c) \/ \E a \in Asked : Ask(c, a)
    \/ \E w \in Workers : Work(w)

PollStep == (\E p \in Pollers : Poll(p)) \/ PollLoop \/ Switch

LEMMA QueueTypes ==
  ASSUME QueueTypeOK, QueueStep PROVE QueueTypeOK'
<1> USE DEF QueueTypeOK
<1>1. ASSUME NEW c \in Callers, NEW a \in Asked, Ask(c, a) PROVE QueueTypeOK'
  BY <1>1, AskedAssumption DEF Ask
<1>2. ASSUME NEW c \in Callers, SendTask(c) PROVE QueueTypeOK'
  <2>1. asking[c] \in Accounts
    BY <1>2 DEF SendTask
  <2>2. Append(queue, asking[c]) \in Seq(Accounts)
    BY <2>1, AppendRange
  <2> QED BY <1>2, <2>2 DEF SendTask, Unmark
<1>3. ASSUME NEW w \in Workers, Work(w) PROVE QueueTypeOK'
  <2>1. CASE Receive(w)
    <3>1. Head(queue) \in Accounts /\ Tail(queue) \in Seq(Accounts)
      BY <2>1, TailRange DEF Receive
    <3> QED BY <2>1, <3>1, NoneAssumption DEF Receive
  <2>2. CASE Run(w)
    BY <2>2 DEF Run, Continues
  <2>3. CASE ClearTask(w)
    BY <2>3 DEF ClearTask, Unmark
  <2> QED BY <1>3, <2>1, <2>2, <2>3 DEF Work
<1> QED BY <1>1, <1>2, <1>3 DEF QueueStep

\* A list that is not empty gives a cycle that is not.
LEMMA BeginCycleTypes ==
  ASSUME PollTypeOK, IdleHasNoCrew, BeginCycle PROVE PollTypeOK' /\ IdleHasNoCrew'
<1> USE DEF PollTypeOK, IdleHasNoCrew
<1>0. PICK s \in Listings : listed' = s
  BY DEF BeginCycle
<1>1. s \in Seq(Accounts) /\ Len(s) \in Nat /\ IsInjective(s)
  BY ListingIsSeq
<1>2. CASE s = <<>>
  BY <1>0, <1>2 DEF BeginCycle, cycleVars
<1>3. CASE s # <<>>
  <2>1. Window(s) \in Seq(Accounts) /\ Len(Window(s)) \in Nat /\ Len(s) > 0
    BY <1>1, <1>3, WindowIsInjective
  <2>2. /\ batch' = Window(s) /\ cycle' = [total |-> Len(s), taken |-> Len(Window(s))]
        /\ crew' \subseteq Pollers /\ poll' = "cycle" /\ verdict' = "failed"
        /\ poller' = poller /\ poll = "sleep" /\ enabled' = enabled /\ cursor' = cursor
    BY <1>0, <1>3 DEF BeginCycle, Crews
  <2> QED BY <1>0, <1>1, <2>1, <2>2
<1> QED BY <1>2, <1>3

LEMMA PollTypes ==
  ASSUME PollTypeOK, IdleHasNoCrew, PollStep PROVE PollTypeOK' /\ IdleHasNoCrew'
<1> USE DEF PollTypeOK, IdleHasNoCrew
<1>1. ASSUME NEW p \in Pollers, Take(p) PROVE PollTypeOK' /\ IdleHasNoCrew'
  <2>1. Head(batch) \in Accounts /\ Tail(batch) \in Seq(Accounts)
    BY <1>1, TailRange DEF Take
  <2> QED BY <1>1, <2>1 DEF Take
<1>2. ASSUME NEW p \in Pollers, PollSucceeds(p) \/ PollFails(p) \/ PollerBreaks(p)
      PROVE  PollTypeOK' /\ IdleHasNoCrew'
  BY <1>2 DEF PollSucceeds, PollFails, PollerBreaks
<1>3. CASE EndCycle
  <2>1. cursor' \in Nat
    <3>1. cycle.total \in Nat /\ cycle.total > 0 /\ cycle.taken \in Nat
      BY <1>3 DEF EndCycle
    <3>2. cursor % cycle.total \in Nat
      BY <3>1, ModRange
    <3>3. Advanced \in Nat
      BY <3>1, <3>2, ModRange DEF Advanced
    <3> QED BY <1>3, <3>3 DEF EndCycle
  <2>2. cycle' = NoCycle /\ batch' = <<>> /\ crew' = {} /\ verdict' = "failed"
        /\ poll' \in {"sleep", "down"} /\ listed' = listed /\ enabled' = enabled
        /\ poller' = poller /\ \A p \in Pollers : poller[p] = None
    BY <1>3 DEF EndCycle
  <2> QED BY <2>1, <2>2 DEF NoCycle
<1>4. CASE Restart
  BY <1>4 DEF Restart, cycleVars
<1>5. CASE Switch
  BY <1>5 DEF Switch, cycleVars
<1> QED BY <1>1, <1>2, <1>3, <1>4, <1>5, BeginCycleTypes DEF PollStep, Poll, PollLoop

\* The two halves of the module share no variable.
LEMMA StepHalves ==
  ASSUME [Next]_vars
  PROVE  (QueueStep /\ UNCHANGED polls) \/ (PollStep /\ UNCHANGED asks) \/ UNCHANGED vars
<1>1. ASSUME NEW c \in Callers, NEW a \in Asked, Ask(c, a) PROVE QueueStep /\ UNCHANGED polls
  BY <1>1 DEF Ask, QueueStep
<1>2. ASSUME NEW c \in Callers, SendTask(c) PROVE QueueStep /\ UNCHANGED polls
  BY <1>2 DEF SendTask, QueueStep
<1>3. ASSUME NEW w \in Workers, Work(w) PROVE QueueStep /\ UNCHANGED polls
  BY <1>3 DEF Work, Receive, Run, ClearTask, QueueStep
<1>4. ASSUME NEW p \in Pollers, Poll(p) PROVE PollStep /\ UNCHANGED asks
  BY <1>4 DEF Poll, Take, PollSucceeds, PollFails, PollerBreaks, PollStep
<1>5. ASSUME PollLoop \/ Switch PROVE PollStep /\ UNCHANGED asks
  BY <1>5 DEF PollLoop, BeginCycle, EndCycle, Restart, Switch, PollStep
<1> QED BY <1>1, <1>2, <1>3, <1>4, <1>5 DEF Next

TInv == QueueTypeOK /\ PollTypeOK /\ IdleHasNoCrew

LEMMA InitTInv == Init => TInv
<1>1. Init => IdleHasNoCrew
  BY DEF Init, IdleHasNoCrew
<1>2. TypeOK => QueueTypeOK /\ PollTypeOK
  BY DEF TypeOK
<1> QED BY <1>1, <1>2, InitTypeOK DEF TInv

LEMMA StepTInv == TInv /\ [Next]_vars => TInv'
<1> SUFFICES ASSUME TInv, [Next]_vars PROVE TInv'
  OBVIOUS
<1> USE DEF TInv
<1>1. ASSUME UNCHANGED asks PROVE QueueTypeOK'
  BY <1>1 DEF asks, QueueTypeOK
<1>2. ASSUME UNCHANGED polls PROVE PollTypeOK' /\ IdleHasNoCrew'
  BY <1>2 DEF polls, cycleVars, PollTypeOK, IdleHasNoCrew
<1>3. UNCHANGED vars => UNCHANGED asks /\ UNCHANGED polls
  BY DEF vars
<1> QED BY <1>1, <1>2, <1>3, StepHalves, QueueTypes, PollTypes

\* Every variable stays in its range; the cursor stays a number, whatever the lengths
\* of the lists it was moved around.
THEOREM TypeCorrect == Spec => []TypeOK
<1>1. TInv => TypeOK
  BY DEF TInv, TypeOK
<1> QED BY <1>1, InitTInv, StepTInv, PTL DEF Spec

-----------------------------------------------------------------------------
(* A cycle polls nobody twice *)

PInv == TInv /\ PolledOncePerCycle

\* What holds of the accounts of a cycle holds of fewer of them.
LEMMA FewerPolled ==
  ASSUME PInv, batch' = batch,
         \A p \in Pollers : poller'[p] = poller[p] \/ poller'[p] = None
  PROVE  PolledOncePerCycle'
  BY NoneAssumption DEF PInv, TInv, PollTypeOK, PolledOncePerCycle, Range

LEMMA TakePolled ==
  ASSUME PInv, NEW p \in Pollers, Take(p) PROVE PolledOncePerCycle'
<1> USE DEF PInv, TInv, PollTypeOK, PolledOncePerCycle
<1>0. PICK a \in Accounts : a = Head(batch)
  BY TailRange DEF Take
<1>1. /\ a \in Range(batch) /\ IsInjective(batch')
      /\ Range(batch') = Range(batch) \ {a}
  BY <1>0, TailRange DEF Take
<1>2. poller'[p] = a /\ \A q \in Pollers \ {p} : poller'[q] = poller[q]
  BY <1>0 DEF Take
<1>3. \A q \in Pollers : poller[q] # a
  BY <1>1
<1> QED BY <1>1, <1>2, <1>3

LEMMA BeginPolled ==
  ASSUME PInv, BeginCycle PROVE PolledOncePerCycle'
<1> USE DEF PInv, TInv, PollTypeOK
<1>0. PICK s \in Listings : listed' = s
  BY DEF BeginCycle
<1>1. CASE s = <<>>
  <2>1. batch' = batch /\ poller' = poller
    BY <1>0, <1>1 DEF BeginCycle, cycleVars
  <2> QED BY <2>1, FewerPolled
<1>2. CASE s # <<>>
  <2>1. Window(s) \in Seq(Accounts) /\ IsInjective(Window(s))
    BY <1>2, ListingIsSeq, WindowIsInjective
  <2>2. batch' = Window(s) /\ poller' = poller /\ \A p \in Pollers : poller[p] = None
    BY <1>0, <1>2 DEF BeginCycle, IdleHasNoCrew
  <2>3. None \notin Range(Window(s))
    BY <2>1, NoneAssumption DEF Range
  <2> QED BY <2>1, <2>2, <2>3 DEF PolledOncePerCycle
<1> QED BY <1>1, <1>2

\* Wherever the cursor stands in a list of whatever length, and whoever breaks in
\* between: no cycle has an account twice.
THEOREM CyclesPollOnce == Spec => []PolledOncePerCycle
<1>1. Init => PInv
  <2>1. Init => PolledOncePerCycle
    BY DEF Init, PolledOncePerCycle, IsInjective, Range
  <2> QED BY <2>1, InitTInv DEF PInv
<1>2. PInv /\ [Next]_vars => PInv'
  <2> SUFFICES ASSUME PInv, [Next]_vars PROVE PolledOncePerCycle'
    BY StepTInv DEF PInv
  <2>1. CASE UNCHANGED polls
    BY <2>1, FewerPolled DEF polls, cycleVars
  <2>2. ASSUME NEW p \in Pollers, Poll(p) PROVE PolledOncePerCycle'
    <3>1. CASE PollSucceeds(p) \/ PollFails(p) \/ PollerBreaks(p)
      BY <3>1, FewerPolled DEF PollSucceeds, PollFails, PollerBreaks, PInv, TInv, PollTypeOK
    <3> QED BY <2>2, <3>1, TakePolled DEF Poll
  <2>3. CASE EndCycle
    BY <2>3 DEF EndCycle, PolledOncePerCycle, IsInjective, Range
  <2>4. CASE Restart \/ Switch
    BY <2>4, FewerPolled DEF Restart, Switch, cycleVars
  <2>5. UNCHANGED vars => UNCHANGED polls
    BY DEF vars
  <2> QED BY <2>1, <2>2, <2>3, <2>4, <2>5, BeginPolled, StepHalves DEF PollStep, PollLoop
<1>3. PInv => PolledOncePerCycle
  BY DEF PInv
<1> QED BY <1>1, <1>2, <1>3, PTL DEF Spec

-----------------------------------------------------------------------------
(* A mark stands for one task *)

IsAsked(a) == \E c \in Callers : asking[c] = a
IsQueued(a) == a \in Range(queue)
IsRun(a) == \E w \in Workers : task[w] = a
IsHeld(a) == IsAsked(a) \/ IsQueued(a) \/ IsRun(a)

\* No holder has an account twice.
HeldOnce ==
    /\ IsInjective(queue)
    /\ \A c, d \in Callers : asking[c] = asking[d] /\ asking[c] # None => c = d
    /\ \A v, w \in Workers : task[v] = task[w] /\ task[v] # None => v = w

OneHolder ==
    \A a \in Accounts : /\ IsAsked(a) => ~IsQueued(a) /\ ~IsRun(a)
                        /\ IsQueued(a) => ~IsRun(a)

MarkIsHolder == \A a \in Accounts : a \in pending <=> IsHeld(a)

QInv == QueueTypeOK /\ HeldOnce /\ OneHolder /\ MarkIsHolder

LEMMA InitQInv == Init => QInv
<1> SUFFICES ASSUME Init PROVE QInv
  OBVIOUS
<1>1. QueueTypeOK
  BY InitTInv DEF TInv
<1>2. \A a \in Accounts : ~IsAsked(a) /\ ~IsQueued(a) /\ ~IsRun(a)
  BY NoneAssumption DEF Init, IsAsked, IsQueued, IsRun, Range
<1>3. HeldOnce
  BY DEF Init, HeldOnce, IsInjective
<1> QED BY <1>1, <1>2, <1>3 DEF Init, QInv, OneHolder, MarkIsHolder, IsHeld

LEMMA AskQInv ==
  ASSUME QInv, QueueTypeOK', NEW c \in Callers, NEW b \in Accounts, Ask(c, b) PROVE QInv'
<1> USE DEF QInv, QueueTypeOK
<1>1. ~IsHeld(b) /\ asking[c] = None /\ pending' = pending \cup {b}
  BY DEF Ask, MarkIsHolder
<1>2. /\ asking'[c] = b /\ \A d \in Callers \ {c} : asking'[d] = asking[d]
      /\ queue' = queue /\ task' = task
  BY DEF Ask
<1>3. \A a \in Accounts : /\ IsQueued(a)' = IsQueued(a) /\ IsRun(a)' = IsRun(a)
                          /\ (IsAsked(a)' <=> IsAsked(a) \/ a = b)
  BY <1>1, <1>2, NoneAssumption DEF IsQueued, IsRun, IsAsked
<1>4. HeldOnce'
  BY <1>1, <1>2 DEF HeldOnce, IsHeld, IsAsked
<1>5. OneHolder' /\ MarkIsHolder'
  BY <1>1, <1>3 DEF OneHolder, MarkIsHolder, IsHeld
<1> QED BY <1>4, <1>5

LEMMA SendTaskQInv ==
  ASSUME QInv, QueueTypeOK', NEW c \in Callers, SendTask(c) PROVE QInv'
<1> USE DEF QInv, QueueTypeOK
<1>0. PICK b \in Accounts : b = asking[c]
  BY DEF SendTask
<1>1. /\ asking'[c] = None /\ \A d \in Callers \ {c} : asking'[d] = asking[d]
      /\ task' = task /\ IsAsked(b) /\ ~IsQueued(b) /\ ~IsRun(b)
  BY <1>0 DEF SendTask, IsAsked, OneHolder
<1>2. \A a \in Accounts : IsRun(a)' = IsRun(a) /\ (IsAsked(a)' <=> IsAsked(a) /\ a # b)
  BY <1>0, <1>1, NoneAssumption DEF IsRun, IsAsked, HeldOnce
<1>3. CASE queue' = Append(queue, b) /\ pending' = pending
  <2>1. Range(queue') = Range(queue) \cup {b} /\ IsInjective(queue')
    BY <1>1, <1>3, AppendRange DEF IsQueued, HeldOnce
  <2>2. \A a \in Accounts : IsQueued(a)' <=> IsQueued(a) \/ a = b
    BY <2>1 DEF IsQueued
  <2>3. HeldOnce'
    BY <1>1, <2>1 DEF HeldOnce
  <2> QED BY <1>1, <1>2, <1>3, <2>2, <2>3 DEF OneHolder, MarkIsHolder, IsHeld
<1>4. CASE queue' = queue /\ pending' = pending \ {b}
  <2>1. \A a \in Accounts : IsQueued(a)' <=> IsQueued(a)
    BY <1>4 DEF IsQueued
  <2>2. HeldOnce'
    BY <1>1, <1>4 DEF HeldOnce
  <2> QED BY <1>1, <1>2, <1>4, <2>1, <2>2 DEF OneHolder, MarkIsHolder, IsHeld
<1> QED BY <1>0, <1>3, <1>4 DEF SendTask, Unmark

LEMMA ReceiveQInv ==
  ASSUME QInv, QueueTypeOK', NEW w \in Workers, Receive(w) PROVE QInv'
<1> USE DEF QInv, QueueTypeOK
<1>0. PICK b \in Accounts : b = Head(queue)
  BY TailRange DEF Receive
<1>1. /\ b \in Range(queue) /\ IsInjective(queue') /\ Range(queue') = Range(queue) \ {b}
  BY <1>0, TailRange DEF Receive, HeldOnce
<1>2. /\ task[w] = None /\ task'[w] = b /\ \A v \in Workers \ {w} : task'[v] = task[v]
      /\ asking' = asking /\ pending' = pending
      /\ IsQueued(b) /\ ~IsAsked(b) /\ ~IsRun(b)
  BY <1>0, <1>1 DEF Receive, IsQueued, OneHolder
<1>3. \A a \in Accounts : /\ IsAsked(a)' = IsAsked(a)
                          /\ (IsQueued(a)' <=> IsQueued(a) /\ a # b)
                          /\ (IsRun(a)' <=> IsRun(a) \/ a = b)
  BY <1>1, <1>2, NoneAssumption DEF IsAsked, IsQueued, IsRun
<1>4. HeldOnce'
  BY <1>1, <1>2 DEF HeldOnce, IsRun
<1> QED BY <1>2, <1>3, <1>4 DEF OneHolder, MarkIsHolder, IsHeld

LEMMA ClearTaskQInv ==
  ASSUME QInv, QueueTypeOK', NEW w \in Workers, ClearTask(w) PROVE QInv'
<1> USE DEF QInv, QueueTypeOK
<1>0. PICK b \in Accounts : b = task[w]
  BY DEF ClearTask
<1>1. /\ task'[w] = None /\ \A v \in Workers \ {w} : task'[v] = task[v]
      /\ asking' = asking /\ queue' = queue /\ pending' = pending \ {b}
      /\ IsRun(b) /\ ~IsQueued(b) /\ ~IsAsked(b)
  BY <1>0 DEF ClearTask, Unmark, IsRun, OneHolder
<1>2. \A a \in Accounts : /\ IsAsked(a)' = IsAsked(a) /\ IsQueued(a)' = IsQueued(a)
                          /\ (IsRun(a)' <=> IsRun(a) /\ a # b)
  BY <1>0, <1>1, NoneAssumption DEF IsAsked, IsQueued, IsRun, HeldOnce
<1>3. HeldOnce'
  BY <1>1 DEF HeldOnce
<1> QED BY <1>1, <1>2, <1>3 DEF OneHolder, MarkIsHolder, IsHeld

\* Nothing changes hands.
LEMMA StillQInv ==
  ASSUME QInv, QueueTypeOK', UNCHANGED <<pending, asking, queue, task>> PROVE QInv'
<1>1. \A a \in Accounts : IsAsked(a)' = IsAsked(a) /\ IsQueued(a)' = IsQueued(a) /\ IsRun(a)' = IsRun(a)
  BY DEF IsAsked, IsQueued, IsRun
<1>2. HeldOnce'
  BY DEF QInv, HeldOnce
<1> QED BY <1>1, <1>2 DEF QInv, OneHolder, MarkIsHolder, IsHeld

LEMMA CountsOfHolders ==
  ASSUME QInv, NEW a \in Accounts
  PROVE  /\ Cardinality(Asking(a)) = IF IsAsked(a) THEN 1 ELSE 0
         /\ Cardinality(InQueue(a)) = IF IsQueued(a) THEN 1 ELSE 0
         /\ Cardinality(Running(a)) = IF IsRun(a) THEN 1 ELSE 0
<1> USE DEF QInv
<1>1. Cardinality(Asking(a)) = IF IsAsked(a) THEN 1 ELSE 0
  <2>1. CASE ~IsAsked(a)
    <3>1. Asking(a) = {}
      BY <2>1 DEF Asking, IsAsked
    <3> QED BY <2>1, <3>1, FS_EmptySet
  <2>2. CASE IsAsked(a)
    <3>1. PICK c \in Callers : asking[c] = a
      BY <2>2 DEF IsAsked
    <3>2. Asking(a) = {c}
      BY <3>1, NoneAssumption DEF Asking, HeldOnce
    <3> QED BY <2>2, <3>2, FS_Singleton
  <2> QED BY <2>1, <2>2
<1>2. Cardinality(InQueue(a)) = IF IsQueued(a) THEN 1 ELSE 0
  BY CountOfInjective DEF InQueue, IsQueued, QueueTypeOK, HeldOnce
<1>3. Cardinality(Running(a)) = IF IsRun(a) THEN 1 ELSE 0
  <2>1. CASE ~IsRun(a)
    <3>1. Running(a) = {}
      BY <2>1 DEF Running, IsRun
    <3> QED BY <2>1, <3>1, FS_EmptySet
  <2>2. CASE IsRun(a)
    <3>1. PICK w \in Workers : task[w] = a
      BY <2>2 DEF IsRun
    <3>2. Running(a) = {w}
      BY <3>1, NoneAssumption DEF Running, HeldOnce
    <3> QED BY <2>2, <3>2, FS_Singleton
  <2> QED BY <2>1, <2>2
<1> QED BY <1>1, <1>2, <1>3

\* Callers, a send that fails, workers and their panics: an account that is marked has
\* exactly one task, and one that is not has none.
THEOREM MarksAreTasks == Spec => []PendingIsOneTask
<1>1. QInv /\ TInv /\ [Next]_vars => QInv'
  <2> SUFFICES ASSUME QInv, TInv, [Next]_vars PROVE QInv'
    OBVIOUS
  <2>1. QueueTypeOK'
    BY StepTInv DEF TInv
  <2>2. CASE UNCHANGED asks
    BY <2>1, <2>2, StillQInv DEF asks
  <2>3. ASSUME NEW w \in Workers, Work(w) PROVE QInv'
    <3>1. CASE Run(w)
      BY <2>1, <3>1, StillQInv DEF Run
    <3> QED BY <2>1, <2>3, <3>1, ReceiveQInv, ClearTaskQInv DEF Work
  <2>4. UNCHANGED vars => UNCHANGED asks
    BY DEF vars
  <2> QED BY <2>1, <2>2, <2>3, <2>4, AskQInv, SendTaskQInv, StepHalves, AskedAssumption DEF QueueStep
<1>2. QInv => PendingIsOneTask
  BY CountsOfHolders DEF PendingIsOneTask, QInv, OneHolder, MarkIsHolder, IsHeld
<1> QED BY <1>1, <1>2, InitQInv, InitTInv, StepTInv, PTL DEF Spec

\* Neither the queue nor a cycle refreshes an account twice at a time.
THEOREM NobodyTwice == Spec => []OneRefreshEach
<1>1. PendingIsOneTask /\ PolledOncePerCycle => OneRefreshEach
  BY DEF OneRefreshEach
<1> QED BY <1>1, MarksAreTasks, CyclesPollOnce, PTL

=============================================================================
