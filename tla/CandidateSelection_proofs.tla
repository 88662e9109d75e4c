---------------------- MODULE CandidateSelection_proofs ----------------------
(***************************************************************************)
(* What requests are offered, for any accounts, workers, readings and      *)
(* time-to-live of the shared snapshot.                                    *)
(*                                                                         *)
(* A snapshot inherits what is true of it from the collection that wrote   *)
(* it, so each invariant follows the list through the collection: the rows *)
(* read, the list of the quota guard, the snapshot, the copy of a hit.     *)
(***************************************************************************)
EXTENDS CandidateSelection, TLAPS

\* A worker that is about to change a status knows of which account and to what.
ChangeReady ==
    \A w \in Workers :
       /\ At(w, "evaluate") => change[w] \in [account : Accounts, to : {"active", "limited", None}]
       /\ At(w, "set") => change[w] \in [account : Accounts, to : {"active", "limited"}]

LastResort(l, m) == m = "NormalOnly" /\ l.low # {} => l.normal = {}

GuardKept ==
    /\ \A w \in Workers : pc[w] \in {"write", "served"} => LastResort(list[w], mode[w])
    /\ cache # None => LastResort(cache.list, cache.mode)

\* What a collection that no invalidation has overtaken holds is in service.
Fresh(accounts) == Settled => \A a \in accounts : ~TakenOut(a)

CollectionsFresh ==
    \A w \in Workers : ~late[w] =>
       /\ At(w, "guard") => Fresh(found[w])
       /\ At(w, "write") => Fresh(Members(list[w]))

SnapshotFresh == cache # None /\ ~cache.late => Fresh(Members(cache.list))

IInv == TypeOK /\ ChangeReady /\ GuardKept /\ CollectionsFresh /\ SnapshotFresh

LEMMA InitIInv == Init => IInv
  BY DEF Init, IInv, TypeOK, ChangeReady, GuardKept, CollectionsFresh, SnapshotFresh,
     Status, Mode, List, NoList, Label, At

\* The quota guard drops accounts or keeps them, and puts scarce ones next to others
\* only when it was asked to.
LEMMA GuardedList ==
  ASSUME NEW rows \in SUBSET Accounts, NEW m \in Mode
  PROVE  /\ Guarded(rows, m) \in List
         /\ Members(Guarded(rows, m)) \subseteq rows
         /\ LastResort(Guarded(rows, m), m)
  BY DEF Guarded, List, Members, LastResort, Scarce, Mode

-----------------------------------------------------------------------------
(* Collecting *)

LEMMA CollectIInv ==
  ASSUME IInv, NEW w \in Workers, NEW m \in Mode, Collect(w, m) PROVE IInv'
<1> USE DEF IInv
<1>1. pc' = [pc EXCEPT ![w] = IF Hit(m) THEN "served" ELSE "list"]
  BY DEF Collect, Goto, At
<1>2. TypeOK'
  BY <1>1 DEF Collect, TypeOK, Hit, Label, database, Goto
<1>3. ChangeReady'
  BY <1>1 DEF Collect, ChangeReady, At, TypeOK, Goto
<1>4. GuardKept'
  BY <1>1 DEF Collect, GuardKept, LastResort, Hit, TypeOK, Goto
<1>5. Settled' => Settled
  BY <1>1 DEF Collect, Settled, At, TypeOK, Goto
<1>6. CollectionsFresh'
  BY <1>1, <1>5 DEF Collect, CollectionsFresh, Fresh, TakenOut, At, TypeOK, Goto, database
<1>7. SnapshotFresh'
  BY <1>1, <1>5 DEF Collect, SnapshotFresh, Fresh, TakenOut, database
<1> QED BY <1>2, <1>3, <1>4, <1>6, <1>7

LEMMA ListIInv ==
  ASSUME IInv, NEW w \in Workers, ListCandidates(w) PROVE IInv'
<1> USE DEF IInv
<1>1. TypeOK'
  BY DEF ListCandidates, TypeOK, Label, database, Goto
<1>2. ChangeReady' /\ GuardKept'
  BY DEF ListCandidates, ChangeReady, GuardKept, At, TypeOK, Goto
<1>3. Settled' => Settled
  BY DEF ListCandidates, Settled, At, TypeOK, Goto
<1>4. CollectionsFresh'
  BY <1>3 DEF ListCandidates, CollectionsFresh, Fresh, TakenOut, InService, At, TypeOK,
     Goto, database
<1>5. SnapshotFresh'
  BY <1>3 DEF ListCandidates, SnapshotFresh, Fresh, TakenOut, database
<1> QED BY <1>1, <1>2, <1>4, <1>5

LEMMA GuardIInv ==
  ASSUME IInv, NEW w \in Workers, ApplyQuotaGuard(w) PROVE IInv'
<1> USE DEF IInv
<1> DEFINE l == Guarded(found[w], mode[w])
<1>1. l \in List /\ Members(l) \subseteq found[w] /\ LastResort(l, mode[w])
  BY GuardedList DEF TypeOK
<1>2. /\ pc[w] = "guard" /\ pc' = [pc EXCEPT ![w] = "write"]
      /\ list' = [list EXCEPT ![w] = l] /\ found' = [found EXCEPT ![w] = {}]
      /\ status' = status /\ usage' = usage /\ guard' = guard /\ cache' = cache
      /\ mode' = mode /\ change' = change /\ late' = late
  BY DEF ApplyQuotaGuard, At, Goto, database
<1> HIDE DEF l
<1>3. TypeOK'
  BY <1>1, <1>2 DEF TypeOK, Label
<1>4. ChangeReady' /\ GuardKept'
  BY <1>1, <1>2 DEF ChangeReady, GuardKept, At, TypeOK
<1>5. Settled' => Settled
  BY <1>2 DEF Settled, At, TypeOK
<1>6. CollectionsFresh'
  BY <1>1, <1>2, <1>5 DEF CollectionsFresh, Fresh, TakenOut, At, TypeOK
<1>7. SnapshotFresh'
  BY <1>2, <1>5 DEF SnapshotFresh, Fresh, TakenOut
<1> QED BY <1>3, <1>4, <1>6, <1>7

LEMMA WriteCacheIInv ==
  ASSUME IInv, NEW w \in Workers, WriteCache(w) PROVE IInv'
<1> USE DEF IInv
<1>1. Settled' => Settled
  BY DEF WriteCache, Settled, At, TypeOK, Goto
<1>2. TypeOK'
  BY TtlAssumption DEF WriteCache, TypeOK, Label, database, Goto
<1>3. ChangeReady' /\ GuardKept'
  BY DEF WriteCache, ChangeReady, GuardKept, At, TypeOK, Goto
<1>4. CollectionsFresh'
  BY <1>1 DEF WriteCache, CollectionsFresh, Fresh, TakenOut, At, TypeOK, Goto, database
<1>5. SnapshotFresh'
  BY <1>1 DEF WriteCache, SnapshotFresh, CollectionsFresh, Fresh, TakenOut, At, TypeOK,
     database
<1> QED BY <1>2, <1>3, <1>4, <1>5

\* Steps that end something, or age the snapshot, take nothing into a list.
LEMMA EndIInv ==
  ASSUME IInv, Tick \/ \E w \in Workers : TakeList(w) \/ StorageFails(w)
  PROVE  IInv'
<1> USE DEF IInv
<1>1. CASE Tick
  <2>1. TypeOK'
    BY <1>1, TtlAssumption DEF Tick, Older, TypeOK, database, collecting
  <2>2. cache' # None => /\ cache'.list = cache.list /\ cache'.mode = cache.mode
                         /\ cache'.late = cache.late
    BY <1>1 DEF Tick, Older, TypeOK
  <2> QED
    BY <1>1, <2>1, <2>2 DEF Tick, ChangeReady, GuardKept, CollectionsFresh, SnapshotFresh,
       Fresh, Settled, TakenOut, At, database, collecting
<1>2. ASSUME NEW w \in Workers, TakeList(w) PROVE IInv'
  <2>1. TypeOK'
    BY <1>2 DEF TakeList, TypeOK, NoList, List, Mode, Label, Goto, database
  <2>2. Settled' => Settled
    BY <1>2 DEF TakeList, Settled, At, TypeOK, Goto
  <2> QED
    BY <1>2, <2>1, <2>2 DEF TakeList, ChangeReady, GuardKept, CollectionsFresh,
       SnapshotFresh, Fresh, TakenOut, At, Goto, TypeOK, database
<1>3. ASSUME NEW w \in Workers, StorageFails(w) PROVE IInv'
  <2>1. TypeOK'
    BY <1>3 DEF StorageFails, TypeOK, Mode, Label, Goto, database
  <2>2. Settled' => Settled
    BY <1>3 DEF StorageFails, Settled, At, TypeOK, Goto
  <2> QED
    BY <1>3, <2>1, <2>2 DEF StorageFails, ChangeReady, GuardKept, CollectionsFresh,
       SnapshotFresh, Fresh, TakenOut, At, Goto, TypeOK, database
<1> QED BY <1>1, <1>2, <1>3

-----------------------------------------------------------------------------
(* Changing statuses *)

\* A change takes an account out of service in the step that makes its writer owe an
\* invalidation; until that is done nothing is claimed of any list.
LEMMA ChangeIInv ==
  ASSUME IInv, NEW w \in Workers, pc[w] \in {"idle", "set"},
         NEW a \in Accounts, NEW s \in {"active", "limited", "disabled"}, Write(w, a, s),
         change' = change \/ change' = [change EXCEPT ![w] = None],
         UNCHANGED <<usage, guard, cache, collecting>>
  PROVE  IInv'
<1> USE DEF IInv
<1>1. /\ status' \in [Accounts -> Status] /\ pc' \in [Workers -> Label]
      /\ pc'[w] \in {"idle", "invalidate"} /\ \A v \in Workers \ {w} : pc'[v] = pc[v]
  BY DEF Write, Goto, Invalidates, TypeOK, Status, Label
<1>2. TypeOK'
  BY <1>1 DEF TypeOK, collecting
<1>3. ChangeReady' /\ GuardKept'
  BY <1>1 DEF ChangeReady, GuardKept, At, TypeOK, collecting
<1>4. Settled' => Settled /\ status' = status
  BY <1>1 DEF Write, Goto, Invalidates, Settled, At, TypeOK
<1>5. CollectionsFresh' /\ SnapshotFresh'
  BY <1>1, <1>4 DEF CollectionsFresh, SnapshotFresh, Fresh, TakenOut, At, TypeOK, collecting
<1> QED BY <1>2, <1>3, <1>5

LEMMA PrepareIInv ==
  ASSUME IInv, NEW w \in Workers,
         \/ ApplyStatus(w)
         \/ \E a \in Accounts : MarkUnavailable(w, a)
         \/ \E a \in Accounts, reading \in Readings : StoreUsageSnapshot(w, a, reading)
  PROVE  IInv'
<1> USE DEF IInv
<1>1. CASE ApplyStatus(w)
  <2>1. TypeOK' /\ ChangeReady'
    BY <1>1 DEF ApplyStatus, TypeOK, ChangeReady, At, Goto, Label, database, collecting
  <2> QED
    BY <1>1, <2>1 DEF ApplyStatus, GuardKept, CollectionsFresh, SnapshotFresh, Fresh, Settled,
       TakenOut, At, Goto, TypeOK, database, collecting
<1>2. ASSUME NEW a \in Accounts, MarkUnavailable(w, a) PROVE IInv'
  <2>1. TypeOK' /\ ChangeReady'
    BY <1>2 DEF MarkUnavailable, TypeOK, ChangeReady, At, Goto, Label, Status, database,
       collecting
  <2> QED
    BY <1>2, <2>1 DEF MarkUnavailable, GuardKept, CollectionsFresh, SnapshotFresh, Fresh,
       Settled, TakenOut, At, Goto, TypeOK, database, collecting
<1>3. ASSUME NEW a \in Accounts, NEW reading \in Readings, StoreUsageSnapshot(w, a, reading)
      PROVE  IInv'
  <2>1. StatusFor(reading) \in {"active", "limited", None}
    BY DEF StatusFor
  <2>2. TypeOK' /\ ChangeReady'
    BY <1>3, <2>1 DEF StoreUsageSnapshot, TypeOK, ChangeReady, At, Goto, Label, Status,
       collecting
  <2> QED
    BY <1>3, <2>2 DEF StoreUsageSnapshot, GuardKept, CollectionsFresh, SnapshotFresh, Fresh,
       Settled, TakenOut, At, Goto, TypeOK, collecting
<1> QED BY <1>1, <1>2, <1>3

\* The invalidation overtakes exactly the collections that have read and not written.
LEMMA InvalidateIInv ==
  ASSUME IInv, NEW w \in Workers, InvalidateCandidateCache(w) PROVE IInv'
<1> USE DEF IInv
<1>1. /\ pc' = [pc EXCEPT ![w] = "idle"] /\ cache' = None
      /\ late' = [v \in Workers |-> pc[v] \in {"guard", "write"}]
      /\ status' = status /\ usage' = usage /\ guard' = guard /\ mode' = mode
      /\ found' = found /\ list' = list /\ change' = change
  BY DEF InvalidateCandidateCache, Goto, database
<1>2. TypeOK'
  BY <1>1 DEF TypeOK, Label
<1>3. ChangeReady' /\ GuardKept' /\ SnapshotFresh'
  BY <1>1 DEF ChangeReady, GuardKept, SnapshotFresh, LastResort, At, TypeOK
<1>4. \A v \in Workers : ~late'[v] => pc'[v] \notin {"guard", "write"}
  BY <1>1 DEF TypeOK
<1>5. CollectionsFresh'
  BY <1>4 DEF CollectionsFresh, At
<1> QED BY <1>2, <1>3, <1>5

LEMMA ConfigIInv ==
  ASSUME IInv, NEW w \in Workers, NEW g \in Guard, SetQuotaGuardConfig(w, g) PROVE IInv'
<1> USE DEF IInv
<1>1. TypeOK' /\ ~Settled'
  BY DEF SetQuotaGuardConfig, TypeOK, Settled, At, Goto, Label, collecting
<1> QED
  BY <1>1 DEF SetQuotaGuardConfig, ChangeReady, GuardKept, CollectionsFresh, SnapshotFresh,
     Fresh, At, Goto, TypeOK, collecting

\* Signing in, logging out and deleting take nobody to limited or disabled.
LEMMA QuietIInv ==
  ASSUME IInv, NEW a \in Accounts, LogOut(a) \/ DeleteAccount(a) \/ SignIn(a) PROVE IInv'
<1> USE DEF IInv
<1>1. TypeOK'
  BY DEF LogOut, DeleteAccount, SignIn, TypeOK, Status, collecting
<1>2. UNCHANGED <<guard, cache, pc, collecting, change>>
  BY DEF LogOut, DeleteAccount, SignIn
<1>3. \A b \in Accounts : TakenOut(b)' => TakenOut(b)
  BY DEF LogOut, DeleteAccount, SignIn, TakenOut, TypeOK
<1>4. \A l \in List : Members(l) \subseteq Accounts
  BY DEF List, Members
<1>5. CollectionsFresh' /\ SnapshotFresh'
  BY <1>2, <1>3, <1>4 DEF CollectionsFresh, SnapshotFresh, Fresh, Settled, At, TypeOK,
     collecting
<1>6. ChangeReady'
  BY <1>2 DEF ChangeReady, At
<1>7. GuardKept'
  BY <1>2 DEF GuardKept, LastResort, collecting
<1> QED BY <1>1, <1>5, <1>6, <1>7

-----------------------------------------------------------------------------
LEMMA NextIInv == IInv /\ [Next]_vars => IInv'
<1> SUFFICES ASSUME IInv, [Next]_vars PROVE IInv'
  OBVIOUS
<1>1. CASE Tick
  BY <1>1, EndIInv
<1>2. ASSUME NEW a \in Accounts, LogOut(a) \/ DeleteAccount(a) \/ SignIn(a) PROVE IInv'
  BY <1>2, QuietIInv
<1>3. ASSUME NEW w \in Workers, Work(w) PROVE IInv'
  <2>1. CASE SetStatus(w)
    <3>1. change[w].account \in Accounts /\ change[w].to \in {"active", "limited"}
      BY <2>1 DEF SetStatus, IInv, ChangeReady, At
    <3> QED BY <2>1, <3>1, ChangeIInv DEF SetStatus, At
  <2> QED
    BY <1>3, <2>1, ListIInv, GuardIInv, WriteCacheIInv, EndIInv, PrepareIInv, InvalidateIInv
       DEF Work
<1>4. ASSUME NEW w \in Workers, StorageFails(w) PROVE IInv'
  BY <1>4, EndIInv
<1>5. ASSUME NEW w \in Workers, NEW m \in Mode, Collect(w, m) PROVE IInv'
  BY <1>5, CollectIInv
<1>6. ASSUME NEW w \in Workers, NEW g \in Guard, SetQuotaGuardConfig(w, g) PROVE IInv'
  BY <1>6, ConfigIInv
<1>7. ASSUME NEW w \in Workers, NEW a \in Accounts,
             \/ MarkUnavailable(w, a)
             \/ \E reading \in Readings : StoreUsageSnapshot(w, a, reading)
      PROVE  IInv'
  BY <1>7, PrepareIInv
<1>8. ASSUME NEW w \in Workers, NEW a \in Accounts, NEW s \in Status, UpdateAccount(w, a, s)
      PROVE  IInv'
  BY <1>8, ChangeIInv DEF UpdateAccount, At
<1>9. CASE UNCHANGED vars
  BY <1>9 DEF vars, IInv, TypeOK, ChangeReady, GuardKept, CollectionsFresh, SnapshotFresh,
     Fresh, Settled, TakenOut, At
<1> QED
  BY <1>1, <1>2, <1>3, <1>4, <1>5, <1>6, <1>7, <1>8, <1>9 DEF Next

LEMMA Inductive == Spec => []IInv
  BY InitIInv, NextIInv, PTL DEF Spec

\* Type correctness of the accounts, the snapshot and the workers.
THEOREM SelectionTypeCorrect == Spec => []TypeOK
  BY Inductive, PTL DEF IInv

\* Requests of both modes share one snapshot and the quota guard is reconfigured under
\* way, and still nobody is offered scarce accounts next to others without asking.
THEOREM ScarceOnlyAsLastResort == Spec => []LowQuotaOnlyAsLastResort
<1>1. IInv => LowQuotaOnlyAsLastResort
  BY DEF IInv, GuardKept, LastResort, LowQuotaOnlyAsLastResort, At
<1> QED BY <1>1, Inductive, PTL

\* The one way for an account taken out of service to stay in the shared snapshot is a
\* collection that had read it before the invalidation and wrote after it.
THEOREM StaleOnlyWhenLate == Spec => []OnlyLateSnapshotsAreStale
<1>1. IInv => OnlyLateSnapshotsAreStale
  BY DEF IInv, SnapshotFresh, Fresh, OnlyLateSnapshotsAreStale
<1> QED BY <1>1, Inductive, PTL
=============================================================================
