-------------------------- MODULE RequestGate_proofs --------------------------
(***************************************************************************)
(* The gate keeps requests of one key apart, and loses no wake-up, for any *)
(* set of requests and keys.                                               *)
(*                                                                         *)
(* Mutual exclusion needs two facts that no single mutex provides: that a  *)
(* request keeps finding in the table the lock it once looked up           *)
(* (UsersKeepEntry, what the reference count is checked for), and that the *)
(* boolean of a lock tells the truth about who is inside (HeldIsOne).      *)
(***************************************************************************)
EXTENDS RequestGate, TLAPS

Using == {"found", "busy", "asleep", "awake", "holding"}

\* A request refers to a lock from its look-up to the end of its wait or work.
RefWhileUsing == \A r \in Requests : pc[r] \in Using <=> ref[r] # NoLock

UsersKeepEntry ==
    \A r \in Requests \ orphaned : ref[r] # NoLock => entry[key[r]] = ref[r]

HeldIsOne ==
    /\ \A r \in Requests : Inside(r) => ref[r] \in held
    /\ \A r, s \in Requests : Inside(r) /\ Inside(s) /\ ref[r] = ref[s] => r = s

IInv == TypeOK /\ RefWhileUsing /\ UsersKeepEntry /\ HeldIsOne /\ NoLostWakeup

\* Nothing is in use before the first look-up.
LEMMA InitIInv == Init => IInv
  BY NoLockAssumption DEF Init, IInv, TypeOK, RefWhileUsing, UsersKeepEntry, HeldIsOne,
     NoLostWakeup, Label, Using, Patience, Inside, At, Sleepers, Locks

\* The sweep never takes the entry of a request that refers to its lock, so a
\* look-up can only make a new lock for a key nobody uses.
LEMMA LookUpIInv ==
  ASSUME IInv, NEW r \in Requests, LookUp(r) PROVE IInv'
<1> USE DEF IInv
<1>1. PICK table \in {entry, SweptEntry} :
        entry' = [table EXCEPT ![key[r]] = IF @ = NoLock THEN r ELSE @]
  BY DEF LookUp
<1>2. table \in [Keys -> Locks \cup {NoLock}]
  BY DEF TypeOK, SweptEntry
<1>3. \A s \in Requests \ orphaned : ref[s] # NoLock => table[key[s]] = ref[s]
  BY DEF SweptEntry, Reclaimed, Shared, UsersKeepEntry, TypeOK
<1>4. entry' \in [Keys -> Locks \cup {NoLock}] /\ entry'[key[r]] \in Locks
  BY <1>1, <1>2, NoLockAssumption DEF TypeOK, Locks
<1>5. /\ pc[r] = "idle" /\ pc' = [pc EXCEPT ![r] = "found"]
      /\ ref' = [ref EXCEPT ![r] = entry'[key[r]]]
      /\ held' = held /\ key' = key /\ patience' = patience /\ timedOut' = timedOut
      /\ orphaned' = orphaned /\ aged' = aged \ {key[r]}
  BY DEF LookUp, At, Goto
<1>6. TypeOK'
  BY <1>4, <1>5 DEF TypeOK, Label, Locks
<1>7. RefWhileUsing'
  BY <1>4, <1>5, NoLockAssumption DEF TypeOK, RefWhileUsing, Using, Locks
<1>8. UsersKeepEntry'
  <2> SUFFICES ASSUME NEW s \in Requests \ orphaned, ref'[s] # NoLock
               PROVE  entry'[key[s]] = ref'[s]
    BY <1>5 DEF UsersKeepEntry
  <2>1. CASE s = r
    BY <2>1, <1>5 DEF TypeOK
  <2>2. CASE s # r
    BY <2>2, <1>1, <1>2, <1>3, <1>5 DEF TypeOK
  <2> QED BY <2>1, <2>2
<1>9. HeldIsOne'
  BY <1>5 DEF HeldIsOne, Inside, At, TypeOK
<1>10. NoLostWakeup'
  <2>1. \A l \in Locks : Sleepers(l)' = Sleepers(l)
    BY <1>5 DEF Sleepers, At, TypeOK
  <2>2. \A s \in Requests : At(s, "awake") => At(s, "awake")' /\ ref'[s] = ref[s]
    BY <1>5 DEF At, TypeOK
  <2> QED BY <1>5, <2>1, <2>2 DEF NoLostWakeup, Free
<1> QED BY <1>6, <1>7, <1>8, <1>9, <1>10

\* Emptying the table leaves the locks alone; every request that refers to one is
\* an orphan from then on.
LEMMA ClearIInv == IInv /\ ClearRuntimeState => IInv'
  BY NoLockAssumption DEF IInv, ClearRuntimeState, TypeOK, RefWhileUsing, UsersKeepEntry,
     HeldIsOne, NoLostWakeup, Inside, At, Sleepers, Free

\* Age only concerns the sweep.
LEMMA AgeIInv == ASSUME IInv, NEW k \in Keys, Age(k) PROVE IInv'
  BY DEF IInv, Age, TypeOK, RefWhileUsing, UsersKeepEntry, HeldIsOne, NoLostWakeup,
     Inside, At, Sleepers, Free

\* A request enters only a free lock, and nobody else can be inside a free lock.
LEMMA EnterIInv ==
  ASSUME IInv, NEW r \in Requests, pc[r] \in Using, Free(ref[r]), Enter(r),
         UNCHANGED <<entry, aged, key, patience, timedOut>>
  PROVE  IInv'
<1> USE DEF IInv
<1>1. /\ pc' = [pc EXCEPT ![r] = "holding"] /\ held' = held \cup {ref[r]}
      /\ ref' = ref /\ orphaned' = orphaned /\ ref[r] \in Locks
  BY DEF Enter, Goto, RefWhileUsing, TypeOK
<1>2. TypeOK'
  BY <1>1 DEF TypeOK, Label
<1>3. RefWhileUsing' /\ UsersKeepEntry'
  BY <1>1 DEF RefWhileUsing, UsersKeepEntry, Using, TypeOK
<1>4. HeldIsOne'
  BY <1>1 DEF HeldIsOne, Inside, At, TypeOK, Free
<1>5. NoLostWakeup'
  <2> SUFFICES ASSUME NEW l \in Locks, l \notin held', NEW s \in Requests,
                      pc'[s] = "asleep", ref[s] = l
               PROVE  \E q \in Requests : pc'[q] = "awake" /\ ref[q] = l
    BY <1>1 DEF NoLostWakeup, Free, Sleepers, At
  <2>1. l \notin held /\ l # ref[r] /\ pc[s] = "asleep"
    BY <1>1 DEF TypeOK
  <2>2. PICK q \in Requests : pc[q] = "awake" /\ ref[q] = l
    BY <2>1 DEF NoLostWakeup, Free, Sleepers, At
  <2>3. pc'[q] = "awake"
    BY <1>1, <2>1, <2>2 DEF TypeOK
  <2> QED BY <2>2, <2>3
<1> QED BY <1>2, <1>3, <1>4, <1>5

\* Giving up needs no wake-up for others: the lock is held, or nobody waits for it
\* because of this request.
LEMMA GoWithoutIInv ==
  ASSUME IInv, NEW r \in Requests, pc[r] = "busy" \/ (pc[r] = "awake" /\ ~Free(ref[r])),
         GoWithout(r), UNCHANGED <<entry, aged, key, patience, timedOut>>
  PROVE  IInv'
<1> USE DEF IInv
<1>1. /\ pc' = [pc EXCEPT ![r] = "bypassing"] /\ held' = held
      /\ ref' = [ref EXCEPT ![r] = NoLock] /\ orphaned' = orphaned \ {r}
  BY DEF GoWithout, Goto
<1>2. TypeOK'
  BY <1>1 DEF TypeOK, Label
<1>3. RefWhileUsing' /\ UsersKeepEntry'
  BY <1>1 DEF RefWhileUsing, UsersKeepEntry, Using, TypeOK
<1>4. HeldIsOne'
  BY <1>1 DEF HeldIsOne, Inside, At, TypeOK
<1>5. NoLostWakeup'
  <2> SUFFICES ASSUME NEW l \in Locks, l \notin held, NEW s \in Requests,
                      pc'[s] = "asleep", ref'[s] = l
               PROVE  \E q \in Requests : pc'[q] = "awake" /\ ref'[q] = l
    BY <1>1 DEF NoLostWakeup, Free, Sleepers, At
  <2>1. pc[s] = "asleep" /\ ref[s] = l
    BY <1>1 DEF TypeOK
  <2>2. PICK q \in Requests : pc[q] = "awake" /\ ref[q] = l
    BY <2>1 DEF NoLostWakeup, Free, Sleepers, At
  <2>3. q # r
    BY <2>2 DEF Free
  <2> QED BY <1>1, <2>2, <2>3 DEF TypeOK
<1> QED BY <1>2, <1>3, <1>4, <1>5

\* Going to sleep, or from the first try to the wait, happens under a held lock.
LEMMA WaitIInv ==
  ASSUME IInv, NEW r \in Requests, pc[r] \in Using \ {"holding"}, ~Free(ref[r]),
         NEW label \in {"busy", "asleep"}, Goto(r, label),
         UNCHANGED <<entry, aged, held, key, patience, ref, timedOut, orphaned>>
  PROVE  IInv'
<1> USE DEF IInv
<1>1. TypeOK'
  BY DEF TypeOK, Goto, Label
<1>2. RefWhileUsing' /\ UsersKeepEntry' /\ HeldIsOne'
  BY DEF RefWhileUsing, UsersKeepEntry, HeldIsOne, Inside, At, Using, TypeOK, Goto
<1>3. NoLostWakeup'
  <2> SUFFICES ASSUME NEW l \in Locks, l \notin held, NEW s \in Requests,
                      pc'[s] = "asleep", ref[s] = l
               PROVE  \E q \in Requests : pc'[q] = "awake" /\ ref[q] = l
    BY DEF NoLostWakeup, Free, Sleepers, At
  <2>1. l # ref[r] /\ s # r
    BY DEF Free
  <2>2. PICK q \in Requests : pc[q] = "awake" /\ ref[q] = l
    BY <2>1 DEF NoLostWakeup, Free, Sleepers, At, Goto, TypeOK
  <2> QED BY <2>1, <2>2 DEF TypeOK, Goto
<1> QED BY <1>1, <1>2, <1>3

\* A sleeper that wakes up stands for the awake request the invariant asks for.
LEMMA AwakenIInv ==
  ASSUME IInv, NEW r \in Requests, pc[r] \in {"asleep", "awake"}, Goto(r, "awake"),
         timedOut' \in [Requests -> BOOLEAN],
         UNCHANGED <<entry, aged, held, key, patience, ref, orphaned>>
  PROVE  IInv'
<1> USE DEF IInv
<1>1. TypeOK'
  BY DEF TypeOK, Goto, Label
<1>2. RefWhileUsing' /\ UsersKeepEntry' /\ HeldIsOne'
  BY DEF RefWhileUsing, UsersKeepEntry, HeldIsOne, Inside, At, Using, TypeOK, Goto
<1>3. NoLostWakeup'
  BY DEF NoLostWakeup, Free, Sleepers, At, TypeOK, Goto
<1> QED BY <1>1, <1>2, <1>3

\* A release frees its lock and wakes a sleeper, if there is one.
LEMMA ReleaseIInv ==
  ASSUME IInv, NEW r \in Requests, Release(r) PROVE IInv'
<1> USE DEF IInv
<1>1. /\ pc[r] = "holding" /\ ref[r] \in Locks /\ held' = held \ {ref[r]}
      /\ ref' = [ref EXCEPT ![r] = NoLock] /\ orphaned' = orphaned \ {r}
      /\ UNCHANGED <<entry, aged, key, patience, timedOut>>
  BY DEF Release, Inside, At, RefWhileUsing, Using, TypeOK
<1>2. \/ Sleepers(ref[r]) = {} /\ pc' = [pc EXCEPT ![r] = "done"]
      \/ \E s \in Sleepers(ref[r]) : pc' = [pc EXCEPT ![r] = "done", ![s] = "awake"]
  BY DEF Release, NotifyOne, Goto
<1>3. /\ pc' \in [Requests -> Label] /\ pc'[r] = "done"
      /\ \A q \in Requests \ {r} :
            \/ pc'[q] = pc[q]
            \/ pc[q] = "asleep" /\ pc'[q] = "awake" /\ ref[q] = ref[r]
  BY <1>1, <1>2 DEF TypeOK, Label, Sleepers, At
<1>4. TypeOK'
  BY <1>1, <1>3 DEF TypeOK
<1>5. RefWhileUsing' /\ UsersKeepEntry'
  BY <1>1, <1>3 DEF RefWhileUsing, UsersKeepEntry, Using, TypeOK
<1>6. HeldIsOne'
  BY <1>1, <1>3 DEF HeldIsOne, Inside, At, TypeOK
<1>7. NoLostWakeup'
  <2> SUFFICES ASSUME NEW l \in Locks, l \notin held', NEW s \in Requests,
                      pc'[s] = "asleep", ref'[s] = l
               PROVE  \E q \in Requests : pc'[q] = "awake" /\ ref'[q] = l
    BY DEF NoLostWakeup, Free, Sleepers, At
  <2>1. s # r /\ pc[s] = "asleep" /\ ref[s] = l
    BY <1>1, <1>3 DEF TypeOK
  <2>2. CASE l = ref[r]
    <3>1. PICK q \in Sleepers(ref[r]) : pc' = [pc EXCEPT ![r] = "done", ![q] = "awake"]
      BY <1>2, <2>1, <2>2 DEF Sleepers, At
    <3>2. q # r /\ pc'[q] = "awake" /\ ref'[q] = l
      BY <1>1, <2>2, <3>1 DEF Sleepers, At, TypeOK
    <3> QED BY <3>2, <3>1 DEF Sleepers
  <2>3. CASE l # ref[r]
    <3>1. PICK q \in Requests : pc[q] = "awake" /\ ref[q] = l
      BY <1>1, <2>1, <2>3 DEF NoLostWakeup, Free, Sleepers, At
    <3> QED BY <1>1, <1>3, <2>3, <3>1 DEF TypeOK
  <2> QED BY <2>2, <2>3
<1> QED BY <1>4, <1>5, <1>6, <1>7

\* One step per action.
LEMMA NextIInv == IInv /\ [Next]_vars => IInv'
<1> SUFFICES ASSUME IInv, [Next]_vars PROVE IInv'
  OBVIOUS
<1>1. CASE ClearRuntimeState
  BY <1>1, ClearIInv
<1>2. ASSUME NEW k \in Keys, Age(k) PROVE IInv'
  BY <1>2, AgeIInv
<1>3. ASSUME NEW r \in Requests, LookUp(r) PROVE IInv'
  BY <1>3, LookUpIInv
<1>4. ASSUME NEW r \in Requests, WakeUp(r) PROVE IInv'
  BY <1>4, AwakenIInv DEF WakeUp, At, IInv, TypeOK
<1>5. ASSUME NEW r \in Requests, TimeOut(r) PROVE IInv'
  <2>1. timedOut' \in [Requests -> BOOLEAN]
    BY <1>5 DEF TimeOut, IInv, TypeOK
  <2> QED BY <1>5, <2>1, AwakenIInv DEF TimeOut
<1>6. ASSUME NEW r \in Requests, TryAcquire(r) PROVE IInv'
  BY <1>6, EnterIInv, WaitIInv DEF TryAcquire, At, Using
<1>7. ASSUME NEW r \in Requests, BeginWait(r) PROVE IInv'
  BY <1>7, EnterIInv, WaitIInv, GoWithoutIInv DEF BeginWait, At, Using
<1>8. ASSUME NEW r \in Requests, Recheck(r) PROVE IInv'
  BY <1>8, EnterIInv, WaitIInv, GoWithoutIInv DEF Recheck, At, Using
<1>9. ASSUME NEW r \in Requests, Release(r) PROVE IInv'
  BY <1>9, ReleaseIInv
<1>10. ASSUME NEW r \in Requests, FinishWithout(r) PROVE IInv'
  BY <1>10 DEF FinishWithout, Goto, At, IInv, TypeOK, Label, RefWhileUsing, Using,
     UsersKeepEntry, HeldIsOne, Inside, NoLostWakeup, Sleepers, Free
<1>11. CASE UNCHANGED vars
  BY <1>11 DEF vars, IInv, TypeOK, RefWhileUsing, UsersKeepEntry, HeldIsOne, Inside, At,
     NoLostWakeup, Sleepers, Free
<1> QED
  BY <1>1, <1>2, <1>3, <1>4, <1>5, <1>6, <1>7, <1>8, <1>9, <1>10, <1>11 DEF Next, Serve

LEMMA Inductive == Spec => []IInv
  BY InitIInv, NextIInv, PTL DEF Spec

\* Type correctness of the gate.
THEOREM GateTypeCorrect == Spec => []TypeOK
  BY Inductive, PTL DEF IInv

\* Mutual exclusion per key: the reference count that the sweep looks at is what
\* keeps two requests of one key on one lock.
THEOREM GateMutualExclusion == Spec => []OneInsidePerKey
<1>1. IInv => OneInsidePerKey
  BY DEF IInv, OneInsidePerKey, UsersKeepEntry, HeldIsOne, RefWhileUsing, Using, Inside, At
<1> QED BY <1>1, Inductive, PTL

\* One notification per release is enough.
THEOREM GateLosesNoWakeup == Spec => []NoLostWakeup
  BY Inductive, PTL DEF IInv
=============================================================================
