--------------------- MODULE OperationCoordinatorProofs ---------------------
(***************************************************************************)
(* Theorems about the operation coordinator, for any number of goroutines, *)
(* requests, leases, faults and crashes.                                   *)
(***************************************************************************)
EXTENDS OperationCoordinator, TLAPS

-----------------------------------------------------------------------------
(***************************************************************************)
(* Type correctness.                                                       *)
(***************************************************************************)
LEMMA ReturnType ==
    ASSUME TypeOK, NEW p \in Procs, Return(p)
    PROVE  /\ pc' \in [Procs -> Outside \cup Published \cup Holding]
           /\ call' \in [Procs -> [kind : AllKinds \cup {"none"}, token : Nat]]
           /\ saw' \in [Procs -> [marker : BOOLEAN, journal : BOOLEAN]]
           /\ cancelled' \in [Procs -> BOOLEAN]
           /\ job' \in [Procs -> JobStatus]
BY DEF TypeOK, Return, Goto, NoCall, NoToken, NothingSeen, JobStatus, Outside

LEMMA GotoType ==
    ASSUME TypeOK, NEW p \in Procs, NEW where \in Outside \cup Published \cup Holding,
           Goto(p, where)
    PROVE  pc' \in [Procs -> Outside \cup Published \cup Holding]
BY DEF TypeOK, Goto

LEMMA ServeLifecycleType == ASSUME TypeOK, NEW p \in Procs, ServeLifecycle(p) PROVE TypeOK'
<1>1. CASE StatForPrepare(p)
    BY <1>1
       DEF StatForPrepare, Files, Goto, barrier, bounds, Outside, Published,
           Holding, TypeOK
<1>2. CASE PrepareWaits(p)
    BY <1>2
       DEF PrepareWaits, SeesClosed, ApplySeen, SeesJournal, Wait, barrier, bounds,
           NothingSeen, TypeOK
<1>3. CASE PrepareRefused(p)
    BY <1>3, ReturnType
       DEF PrepareRefused, SeesClosed, SeesJournal, ApplySeen, barrier, bounds,
           TypeOK
<1>4. CASE PreparePublishes(p)
    BY <1>4
       DEF PreparePublishes, SeesJournal, SeesClosed, ApplySeen, Goto, barrier,
           bounds, NothingSeen, Outside, Published, Holding, TypeOK
<1>5. CASE ReserveJob(p)
    BY <1>5
       DEF ReserveJob, barrier, bounds, JobStatus, TypeOK
<1>6. CASE Reject(p)
    BY <1>6
       DEF Reject, Goto, barrier, bounds, Outside, Published, Holding, TypeOK
<1>7. CASE StatForPromote(p)
    BY <1>7
       DEF StatForPromote, Files, Goto, barrier, bounds, Outside, Published,
           Holding, TypeOK
<1>8. CASE PromoteWaits(p)
    BY <1>8
       DEF PromoteWaits, SeesJournal, SeesClosed, ApplySeen, Wait, barrier, bounds,
           NothingSeen, TypeOK
<1>9. CASE PromoteRefused(p)
    BY <1>9
       DEF PromoteRefused, SeesJournal, SeesClosed, ApplySeen, Goto, barrier,
           bounds, NothingSeen, Outside, Published, Holding, TypeOK
<1>10. CASE PromoteAdmits(p)
    BY <1>10
       DEF PromoteAdmits, SeesJournal, SeesClosed, ApplySeen, Broadcast, Goto,
           bounds, NothingSeen, JobStatus, Outside, Published, Holding, TypeOK
<1>11. CASE Complete(p)
    BY <1>11, ReturnType
       DEF Complete, Broadcast, barrier, bounds, TypeOK
<1> QED  BY <1>1, <1>2, <1>3, <1>4, <1>5, <1>6, <1>7, <1>8, <1>9, <1>10, <1>11 DEF ServeLifecycle

LEMMA ServeDirectType == ASSUME TypeOK, NEW p \in Procs, ServeDirect(p) PROVE TypeOK'
<1>1. CASE BeginWaits(p)
    BY <1>1
       DEF BeginWaits, Wait, goroutines, barrier, bounds, TypeOK
<1>2. CASE BeginRefused(p)
    BY <1>2, ReturnType
       DEF BeginRefused, barrier, bounds, TypeOK
<1>3. CASE BeginAdmits(p)
    BY <1>3
       DEF BeginAdmits, Goto, barrier, bounds, Outside, Published, Holding, TypeOK
<1>4. CASE RecoveryWaits(p)
    BY <1>4
       DEF RecoveryWaits, Wait, goroutines, barrier, bounds, TypeOK
<1>5. CASE RecoveryRefused(p)
    BY <1>5, ReturnType
       DEF RecoveryRefused, barrier, bounds, TypeOK
<1>6. CASE RecoveryBegins(p)
    BY <1>6
       DEF RecoveryBegins, Goto, barrier, bounds, Outside, Published, Holding,
           TypeOK
<1>7. CASE ReservePatchJob(p)
    BY <1>7
       DEF ReservePatchJob, barrier, bounds, JobStatus, TypeOK
<1>8. CASE ClaimLifecycleJob(p)
    BY <1>8
       DEF ClaimLifecycleJob, Goto, barrier, bounds, JobStatus, Outside, Published,
           Holding, TypeOK
<1> QED  BY <1>1, <1>2, <1>3, <1>4, <1>5, <1>6, <1>7, <1>8 DEF ServeDirect

LEMMA WorkType == ASSUME TypeOK, NEW p \in Procs, Work(p) PROVE TypeOK'
<1>1. CASE WriteJournal(p)
    BY <1>1
       DEF WriteJournal, Goto, barrier, bounds, Outside, Published, Holding, TypeOK
<1>2. CASE MarkLifecycleJournalPending(p)
    BY <1>2
       DEF MarkLifecycleJournalPending, Broadcast, Goto, barrier, bounds, Outside,
           Published, Holding, TypeOK
<1>3. CASE RemoveJournal(p)
    BY <1>3
       DEF RemoveJournal, Goto, barrier, bounds, Outside, Published, Holding,
           TypeOK
<1>4. CASE ClearLifecycleJournalPending(p)
    BY <1>4
       DEF ClearLifecycleJournalPending, Reopens, Broadcast, Goto, barrier, bounds,
           Outside, Published, Holding, TypeOK
<1>5. CASE MarkSettlementPending(p)
    BY <1>5
       DEF MarkSettlementPending, Goto, Broadcast, barrier, bounds, Outside,
           Published, Holding, TypeOK
<1>6. CASE Done(p)
    BY <1>6, ReturnType
       DEF Done, Broadcast, barrier, bounds, TypeOK
<1> QED  BY <1>1, <1>2, <1>3, <1>4, <1>5, <1>6 DEF Work

LEMMA DrawLeaseType ==
    ASSUME TypeOK, DrawLease PROVE lease' \in [token : Nat, consumed : BOOLEAN] /\ issued' \in Nat
BY DEF TypeOK, DrawLease

LEMMA NoLeaseType == NoLease \in [token : Nat, consumed : BOOLEAN]
BY DEF NoLease, NoToken

LEMMA EnterClosesType == ASSUME TypeOK, NEW p \in Procs, EnterCloses(p) PROVE TypeOK'
<1>1. CASE Return(p) /\ UNCHANGED <<marker, closed, asleep>>
    BY <1>1, ReturnType DEF EnterCloses, TypeOK, bounds
<1>2. CASE /\ marker' = TRUE /\ closed' = TRUE /\ Broadcast
           /\ cancelled' = [q \in Procs |-> cancelled[q] \/ q \in Cancels]
           /\ Goto(p, "draining")
           /\ UNCHANGED <<call, saw, job>>
    <2>1. cancelled' \in [Procs -> BOOLEAN]  BY <1>2
    <2>2. pc' \in [Procs -> Outside \cup Published \cup Holding]
        BY <1>2, GotoType DEF Outside
    <2> QED  BY <1>2, <2>1, <2>2 DEF EnterCloses, TypeOK, bounds, Broadcast
<1> QED  BY <1>1, <1>2 DEF EnterCloses

LEMMA ServeMaintenanceType ==
    ASSUME TypeOK, NEW p \in Procs, ServeMaintenance(p) PROVE TypeOK'
<1>1. CASE EnterWaits(p)
    BY <1>1 DEF EnterWaits, TypeOK, Wait, barrier, bounds, goroutines
<1>2. CASE EnterReturns(p)
    <2>1. lease' \in [token : Nat, consumed : BOOLEAN] /\ issued' \in Nat
        BY <1>2, DrawLeaseType DEF EnterReturns, TypeOK
    <2> QED  BY <1>2, <2>1, ReturnType DEF EnterReturns, TypeOK, bounds
<1>3. CASE EnterIfIdle(p)
    <2>1. lease' \in [token : Nat, consumed : BOOLEAN] /\ issued' \in Nat
        BY <1>3, DrawLeaseType, NoLeaseType DEF EnterIfIdle, TypeOK
    <2>2. marker' \in BOOLEAN /\ closed' \in BOOLEAN /\ asleep' \in SUBSET Procs
        BY <1>3 DEF EnterIfIdle, TypeOK, Broadcast
    <2> QED  BY <1>3, <2>1, <2>2, ReturnType DEF EnterIfIdle, TypeOK, bounds
<1>4. CASE LeaveMaintenance(p)
    <2>1. lease' \in [token : Nat, consumed : BOOLEAN]
        BY <1>4, NoLeaseType DEF LeaveMaintenance, TypeOK
    <2>2. /\ marker' \in BOOLEAN /\ closed' \in BOOLEAN /\ journalPending' \in BOOLEAN
          /\ asleep' \in SUBSET Procs
        BY <1>4 DEF LeaveMaintenance, TypeOK, Broadcast
    <2> QED  BY <1>4, <2>1, <2>2, ReturnType DEF LeaveMaintenance, TypeOK, bounds
<1> QED  BY <1>1, <1>2, <1>3, <1>4, EnterClosesType DEF ServeMaintenance

LEMMA RestType ==
    ASSUME TypeOK,
           \/ \E p \in Procs : \/ \E kind \in Kinds, token \in 0..issued : Request(p, kind, token)
                               \/ RequestCancel(p)
           \/ LifecycleRecoveryPending \/ Crash \/ Finished
    PROVE  TypeOK'
<1>1. ASSUME NEW p \in Procs, NEW kind \in Kinds, NEW token \in 0..issued,
             Request(p, kind, token)
      PROVE  TypeOK'
    <2>1. kind \in AllKinds /\ token \in Nat  BY CoordinatorAssumption DEF TypeOK
    <2>2. call' \in [Procs -> [kind : AllKinds \cup {"none"}, token : Nat]]
        BY <1>1, <2>1 DEF Request, TypeOK
    <2>3. pc' \in [Procs -> Outside \cup Published \cup Holding]
        BY <1>1, GotoType DEF Request, Entry, Outside
    <2> QED  BY <1>1, <2>2, <2>3 DEF Request, TypeOK, barrier
<1>2. ASSUME NEW p \in Procs, RequestCancel(p) PROVE TypeOK'
    BY <1>2 DEF RequestCancel, TypeOK, JobStatus, barrier, bounds
<1>3. CASE LifecycleRecoveryPending
    BY <1>3 DEF LifecycleRecoveryPending, TypeOK, goroutines, barrier, bounds
<1>4. CASE Crash
    <2>1. /\ pc' \in [Procs -> Outside \cup Published \cup Holding]
          /\ call' \in [Procs -> [kind : AllKinds \cup {"none"}, token : Nat]]
          /\ saw' \in [Procs -> [marker : BOOLEAN, journal : BOOLEAN]]
          /\ cancelled' \in [Procs -> BOOLEAN] /\ job' \in [Procs -> JobStatus]
        BY <1>4 DEF Crash, Outside, NoCall, NoToken, NothingSeen, JobStatus
    <2>2. /\ closed' \in BOOLEAN /\ journalPending' \in BOOLEAN
          /\ lease' \in [token : Nat, consumed : BOOLEAN]
          /\ crashes' \in Nat
        BY <1>4, NoLeaseType DEF Crash, TypeOK
    <2> QED  BY <1>4, <2>1, <2>2 DEF Crash, TypeOK
<1>5. CASE Finished
    BY <1>5 DEF Finished, vars, TypeOK
<1> QED  BY <1>1, <1>2, <1>3, <1>4, <1>5

LEMMA InitType == Init => TypeOK
<1> SUFFICES ASSUME Init PROVE TypeOK  OBVIOUS
<1>1. /\ pc \in [Procs -> Outside \cup Published \cup Holding]
      /\ call \in [Procs -> [kind : AllKinds \cup {"none"}, token : Nat]]
      /\ saw \in [Procs -> [marker : BOOLEAN, journal : BOOLEAN]]
      /\ cancelled \in [Procs -> BOOLEAN] /\ job \in [Procs -> JobStatus]
    BY DEF Init, Outside, NoCall, NoToken, NothingSeen, JobStatus
<1>2. {closed, journalPending, settlementPending, marker, journal, restoreGate}
        \subseteq BOOLEAN
    <2>1. closed \in BOOLEAN /\ restoreGate \in BOOLEAN  BY DEF Init
    <2> QED  BY <2>1 DEF Init
<1>3. /\ asleep \in SUBSET Procs
      /\ {active, preparing} \subseteq Procs \cup {Nobody}
      /\ lease \in [token : Nat, consumed : BOOLEAN]
      /\ spent \in SUBSET Nat
      /\ {issued, calls, crashes} \subseteq Nat
    BY NoLeaseType DEF Init
<1> QED  BY <1>1, <1>2, <1>3 DEF TypeOK

LEMMA NextType == TypeOK /\ [Next]_vars => TypeOK'
<1> SUFFICES ASSUME TypeOK, [Next]_vars PROVE TypeOK'  OBVIOUS
<1>1. CASE UNCHANGED vars  BY <1>1 DEF vars, TypeOK
<1>2. CASE Next
    BY <1>2, ServeLifecycleType, ServeDirectType, WorkType, ServeMaintenanceType, RestType
       DEF Next, Serve
<1> QED  BY <1>1, <1>2

\* Every reachable state of the coordinator has its type.
THEOREM TypeCorrect == Spec => []TypeOK
<1>1. TypeOK /\ [Next]_vars => TypeOK'  BY NextType
<1> QED  BY <1>1, InitType, PTL DEF Spec

-----------------------------------------------------------------------------
(***************************************************************************)
(* One mutator.                                                            *)
(***************************************************************************)
LEMMA EntryWhere ==
    ASSUME NEW kind PROVE Entry(kind) \in {"stat", "begin", "recover", "enter", "maintenance"}
BY DEF Entry

LEMMA ServeLifecycleOneMutator ==
    ASSUME TypeOK, OneMutator, NEW p \in Procs, ServeLifecycle(p) PROVE OneMutator'
<1>1. CASE StatForPrepare(p)
    BY <1>1, CoordinatorAssumption
       DEF StatForPrepare, Goto, barrier, bounds, OneMutator, TypeOK, Published,
           Holding
<1>2. CASE PrepareWaits(p)
    BY <1>2, CoordinatorAssumption
       DEF PrepareWaits, Awake, Wait, barrier, bounds, OneMutator, TypeOK,
           Published, Holding
<1>3. CASE PrepareRefused(p)
    BY <1>3, CoordinatorAssumption
       DEF PrepareRefused, Awake, MayPrepare, Return, Goto, barrier, bounds,
           OneMutator, TypeOK, Published, Holding
<1>4. CASE PreparePublishes(p)
    BY <1>4, CoordinatorAssumption
       DEF PreparePublishes, Awake, MayPrepare, Goto, barrier, bounds, OneMutator,
           TypeOK, Published, Holding
<1>5. CASE ReserveJob(p)
    BY <1>5, CoordinatorAssumption
       DEF ReserveJob, barrier, bounds, OneMutator, TypeOK, Published, Holding
<1>6. CASE Reject(p)
    BY <1>6, CoordinatorAssumption
       DEF Reject, Goto, barrier, bounds, OneMutator, TypeOK, Published, Holding
<1>7. CASE StatForPromote(p)
    BY <1>7, CoordinatorAssumption
       DEF StatForPromote, Goto, barrier, bounds, OneMutator, TypeOK, Published,
           Holding
<1>8. CASE PromoteWaits(p)
    BY <1>8, CoordinatorAssumption
       DEF PromoteWaits, Awake, MayPromote, Wait, barrier, bounds, OneMutator,
           TypeOK, Published, Holding
<1>9. CASE PromoteRefused(p)
    BY <1>9, CoordinatorAssumption
       DEF PromoteRefused, Awake, MayPromote, Goto, barrier, bounds, OneMutator,
           TypeOK, Published, Holding
<1>10. CASE PromoteAdmits(p)
    BY <1>10, CoordinatorAssumption
       DEF PromoteAdmits, Awake, MayPromote, Broadcast, Goto, bounds, OneMutator,
           TypeOK, Published, Holding
<1>11. CASE Complete(p)
    BY <1>11, CoordinatorAssumption
       DEF Complete, Broadcast, Return, Goto, barrier, bounds, OneMutator, TypeOK,
           Published, Holding
<1> QED  BY <1>1, <1>2, <1>3, <1>4, <1>5, <1>6, <1>7, <1>8, <1>9, <1>10, <1>11 DEF ServeLifecycle

LEMMA ServeDirectOneMutator ==
    ASSUME TypeOK, OneMutator, NEW p \in Procs, ServeDirect(p) PROVE OneMutator'
<1>1. CASE BeginWaits(p)
    BY <1>1, CoordinatorAssumption
       DEF BeginWaits, Awake, Idle, Wait, goroutines, barrier, bounds, OneMutator,
           TypeOK, Published, Holding
<1>2. CASE BeginRefused(p)
    BY <1>2, CoordinatorAssumption
       DEF BeginRefused, Awake, Idle, Return, Goto, barrier, bounds, OneMutator,
           TypeOK, Published, Holding
<1>3. CASE BeginAdmits(p)
    BY <1>3, CoordinatorAssumption
       DEF BeginAdmits, Awake, Idle, Goto, barrier, bounds, OneMutator, TypeOK,
           Published, Holding
<1>4. CASE RecoveryWaits(p)
    BY <1>4, CoordinatorAssumption
       DEF RecoveryWaits, Awake, Idle, Wait, goroutines, barrier, bounds,
           OneMutator, TypeOK, Published, Holding
<1>5. CASE RecoveryRefused(p)
    BY <1>5, CoordinatorAssumption
       DEF RecoveryRefused, Awake, Idle, Return, Goto, barrier, bounds, OneMutator,
           TypeOK, Published, Holding
<1>6. CASE RecoveryBegins(p)
    BY <1>6, CoordinatorAssumption
       DEF RecoveryBegins, Awake, Idle, Goto, barrier, bounds, OneMutator, TypeOK,
           Published, Holding
<1>7. CASE ReservePatchJob(p)
    BY <1>7, CoordinatorAssumption
       DEF ReservePatchJob, barrier, bounds, OneMutator, TypeOK, Published, Holding
<1>8. CASE ClaimLifecycleJob(p)
    BY <1>8, CoordinatorAssumption
       DEF ClaimLifecycleJob, Goto, barrier, bounds, OneMutator, TypeOK, Published,
           Holding
<1> QED  BY <1>1, <1>2, <1>3, <1>4, <1>5, <1>6, <1>7, <1>8 DEF ServeDirect

LEMMA WorkOneMutator ==
    ASSUME TypeOK, OneMutator, NEW p \in Procs, Work(p) PROVE OneMutator'
<1>1. CASE WriteJournal(p)
    BY <1>1, CoordinatorAssumption
       DEF WriteJournal, Goto, barrier, bounds, OneMutator, TypeOK, Published,
           Holding
<1>2. CASE MarkLifecycleJournalPending(p)
    BY <1>2, CoordinatorAssumption
       DEF MarkLifecycleJournalPending, Broadcast, Goto, barrier, bounds,
           OneMutator, TypeOK, Published, Holding
<1>3. CASE RemoveJournal(p)
    BY <1>3, CoordinatorAssumption
       DEF RemoveJournal, Goto, barrier, bounds, OneMutator, TypeOK, Published,
           Holding
<1>4. CASE ClearLifecycleJournalPending(p)
    BY <1>4, CoordinatorAssumption
       DEF ClearLifecycleJournalPending, Broadcast, Goto, barrier, bounds,
           OneMutator, TypeOK, Published, Holding
<1>5. CASE MarkSettlementPending(p)
    BY <1>5, CoordinatorAssumption
       DEF MarkSettlementPending, Goto, Broadcast, barrier, bounds, OneMutator,
           TypeOK, Published, Holding
<1>6. CASE Done(p)
    BY <1>6, CoordinatorAssumption
       DEF Done, Broadcast, Return, Goto, barrier, bounds, OneMutator, TypeOK,
           Published, Holding
<1> QED  BY <1>1, <1>2, <1>3, <1>4, <1>5, <1>6 DEF Work

LEMMA ServeMaintenanceOneMutator ==
    ASSUME TypeOK, OneMutator, NEW p \in Procs, ServeMaintenance(p) PROVE OneMutator'
<1>1. CASE EnterCloses(p)
    BY <1>1, CoordinatorAssumption
       DEF EnterCloses, Broadcast, Goto, Return, bounds, OneMutator, TypeOK,
           Published, Holding
<1>2. CASE EnterWaits(p)
    BY <1>2, CoordinatorAssumption
       DEF EnterWaits, Awake, Idle, Wait, goroutines, barrier, bounds, OneMutator,
           TypeOK, Published, Holding
<1>3. CASE EnterReturns(p)
    BY <1>3, CoordinatorAssumption
       DEF EnterReturns, Awake, Idle, Return, Goto, bounds, OneMutator, TypeOK,
           Published, Holding
<1>4. CASE EnterIfIdle(p)
    BY <1>4, CoordinatorAssumption
       DEF EnterIfIdle, Idle, Broadcast, Return, Goto, bounds, OneMutator, TypeOK,
           Published, Holding
<1>5. CASE LeaveMaintenance(p)
    BY <1>5, CoordinatorAssumption
       DEF LeaveMaintenance, Idle, Broadcast, Return, Goto, bounds, OneMutator,
           TypeOK, Published, Holding
<1> QED  BY <1>1, <1>2, <1>3, <1>4, <1>5 DEF ServeMaintenance

LEMMA NextOneMutator ==
    ASSUME TypeOK, OneMutator, [Next]_vars
    PROVE  OneMutator'
<1>1. ASSUME NEW p \in Procs, NEW kind \in Kinds, NEW token \in 0..issued,
             Request(p, kind, token)
      PROVE  OneMutator'
    BY <1>1, EntryWhere DEF Request, Goto, barrier, OneMutator, TypeOK, Published, Holding
<1>2. ASSUME NEW p \in Procs, RequestCancel(p) PROVE OneMutator'
    BY <1>2 DEF RequestCancel, barrier, bounds, OneMutator, TypeOK, Published, Holding
<1>3. CASE LifecycleRecoveryPending
    BY <1>3 DEF LifecycleRecoveryPending, goroutines, barrier, bounds,
                OneMutator, TypeOK, Published, Holding
<1>4. CASE Crash
    BY <1>4, CoordinatorAssumption DEF Crash, OneMutator, TypeOK, Published, Holding
<1>5. CASE UNCHANGED vars
    BY <1>5 DEF vars, OneMutator, TypeOK, Published, Holding
<1>6. ASSUME NEW p \in Procs, Serve(p) PROVE OneMutator'
    BY <1>6, ServeLifecycleOneMutator, ServeDirectOneMutator, WorkOneMutator,
       ServeMaintenanceOneMutator DEF Serve
<1> QED  BY <1>1, <1>2, <1>3, <1>4, <1>5, <1>6 DEF Next, Finished

\* At most one goroutine mutates and at most one prepares, in every reachable state.
THEOREM OneMutatorHolds == Spec => []OneMutator
<1>1. Init => OneMutator  BY CoordinatorAssumption DEF Init, OneMutator, Published, Holding
<1>2. TypeOK /\ OneMutator /\ [Next]_vars => OneMutator'  BY NextOneMutator
<1> QED  BY <1>1, <1>2, TypeCorrect, PTL DEF Spec

-----------------------------------------------------------------------------
(***************************************************************************)
(* Closed while the barrier, an unsettled result or an idle journal is there.*)
(***************************************************************************)
LEMMA ServeLifecycleFailClosed ==
    ASSUME TypeOK, OneMutator, FailClosed, NEW p \in Procs, ServeLifecycle(p) PROVE FailClosed'
<1>1. CASE StatForPrepare(p)
    BY <1>1, CoordinatorAssumption
       DEF StatForPrepare, Files, Goto, barrier, bounds, FailClosed, OneMutator,
           Holding
<1>2. CASE PrepareWaits(p)
    BY <1>2, CoordinatorAssumption
       DEF PrepareWaits, Awake, SeesClosed, ApplySeen, SeesJournal, Wait, barrier,
           bounds, FailClosed, OneMutator, Holding
<1>3. CASE PrepareRefused(p)
    BY <1>3, CoordinatorAssumption
       DEF PrepareRefused, Awake, SeesClosed, MayPrepare, JournalBlocks,
           SeesJournal, ApplySeen, Return, Goto, barrier, bounds, FailClosed,
           OneMutator, Holding
<1>4. CASE PreparePublishes(p)
    BY <1>4, CoordinatorAssumption
       DEF PreparePublishes, Awake, MayPrepare, JournalBlocks, SeesJournal,
           SeesClosed, ApplySeen, Goto, barrier, bounds, FailClosed, OneMutator,
           Holding
<1>5. CASE ReserveJob(p)
    BY <1>5, CoordinatorAssumption
       DEF ReserveJob, barrier, bounds, FailClosed, OneMutator, Holding
<1>6. CASE Reject(p)
    BY <1>6, CoordinatorAssumption
       DEF Reject, Goto, barrier, bounds, FailClosed, OneMutator, Holding
<1>7. CASE StatForPromote(p)
    BY <1>7, CoordinatorAssumption
       DEF StatForPromote, Files, Goto, barrier, bounds, FailClosed, OneMutator,
           Holding
<1>8. CASE PromoteWaits(p)
    BY <1>8, CoordinatorAssumption
       DEF PromoteWaits, Awake, MayPromote, JournalBlocks, SeesJournal, SeesClosed,
           ApplySeen, Wait, barrier, bounds, FailClosed, OneMutator, Holding
<1>9. CASE PromoteRefused(p)
    BY <1>9, CoordinatorAssumption
       DEF PromoteRefused, Awake, MayPromote, JournalBlocks, SeesJournal,
           SeesClosed, ApplySeen, Goto, barrier, bounds, FailClosed, OneMutator,
           Holding
<1>10. CASE PromoteAdmits(p)
    BY <1>10, CoordinatorAssumption
       DEF PromoteAdmits, Awake, MayPromote, JournalBlocks, SeesJournal,
           SeesClosed, ApplySeen, Broadcast, Goto, bounds, FailClosed, OneMutator,
           Holding
<1>11. CASE Complete(p)
    BY <1>11, CoordinatorAssumption
       DEF Complete, Broadcast, Return, Goto, barrier, bounds, FailClosed,
           OneMutator, Holding
<1> QED  BY <1>1, <1>2, <1>3, <1>4, <1>5, <1>6, <1>7, <1>8, <1>9, <1>10, <1>11 DEF ServeLifecycle

LEMMA ServeDirectFailClosed ==
    ASSUME TypeOK, OneMutator, FailClosed, NEW p \in Procs, ServeDirect(p) PROVE FailClosed'
<1>1. CASE BeginWaits(p)
    BY <1>1, CoordinatorAssumption
       DEF BeginWaits, Awake, Idle, Wait, goroutines, barrier, bounds, FailClosed,
           OneMutator, Holding
<1>2. CASE BeginRefused(p)
    BY <1>2, CoordinatorAssumption
       DEF BeginRefused, Awake, Idle, Return, Goto, barrier, bounds, FailClosed,
           OneMutator, Holding
<1>3. CASE BeginAdmits(p)
    BY <1>3, CoordinatorAssumption
       DEF BeginAdmits, Awake, Idle, Goto, barrier, bounds, FailClosed, OneMutator,
           Holding
<1>4. CASE RecoveryWaits(p)
    BY <1>4, CoordinatorAssumption
       DEF RecoveryWaits, Awake, Idle, Wait, goroutines, barrier, bounds,
           FailClosed, OneMutator, Holding
<1>5. CASE RecoveryRefused(p)
    BY <1>5, CoordinatorAssumption
       DEF RecoveryRefused, Awake, Idle, Return, Goto, barrier, bounds, FailClosed,
           OneMutator, Holding
<1>6. CASE RecoveryBegins(p)
    BY <1>6, CoordinatorAssumption
       DEF RecoveryBegins, Awake, Idle, Goto, barrier, bounds, FailClosed,
           OneMutator, Holding
<1>7. CASE ReservePatchJob(p)
    BY <1>7, CoordinatorAssumption
       DEF ReservePatchJob, barrier, bounds, FailClosed, OneMutator, Holding
<1>8. CASE ClaimLifecycleJob(p)
    BY <1>8, CoordinatorAssumption
       DEF ClaimLifecycleJob, Goto, barrier, bounds, FailClosed, OneMutator,
           Holding
<1> QED  BY <1>1, <1>2, <1>3, <1>4, <1>5, <1>6, <1>7, <1>8 DEF ServeDirect

LEMMA WorkFailClosed ==
    ASSUME TypeOK, OneMutator, FailClosed, NEW p \in Procs, Work(p) PROVE FailClosed'
<1>1. CASE WriteJournal(p)
    BY <1>1, CoordinatorAssumption
       DEF WriteJournal, Goto, barrier, bounds, FailClosed, OneMutator, Holding
<1>2. CASE MarkLifecycleJournalPending(p)
    BY <1>2, CoordinatorAssumption
       DEF MarkLifecycleJournalPending, Broadcast, Goto, barrier, bounds,
           FailClosed, OneMutator, Holding
<1>3. CASE RemoveJournal(p)
    BY <1>3, CoordinatorAssumption
       DEF RemoveJournal, Goto, barrier, bounds, FailClosed, OneMutator, Holding
<1>4. CASE ClearLifecycleJournalPending(p)
    BY <1>4, CoordinatorAssumption
       DEF ClearLifecycleJournalPending, Reopens, Broadcast, Goto, barrier, bounds,
           FailClosed, OneMutator, Holding
<1>5. CASE MarkSettlementPending(p)
    BY <1>5, CoordinatorAssumption
       DEF MarkSettlementPending, Goto, Broadcast, barrier, bounds, FailClosed,
           OneMutator, Holding
<1>6. CASE Done(p)
    BY <1>6, CoordinatorAssumption
       DEF Done, Broadcast, Return, Goto, barrier, bounds, FailClosed, OneMutator,
           Holding
<1> QED  BY <1>1, <1>2, <1>3, <1>4, <1>5, <1>6 DEF Work

LEMMA ServeMaintenanceFailClosed ==
    ASSUME TypeOK, OneMutator, FailClosed, NEW p \in Procs, ServeMaintenance(p) PROVE FailClosed'
<1>1. CASE EnterCloses(p)
    BY <1>1, CoordinatorAssumption
       DEF EnterCloses, Broadcast, Goto, Return, bounds, FailClosed, OneMutator,
           Holding
<1>2. CASE EnterWaits(p)
    BY <1>2, CoordinatorAssumption
       DEF EnterWaits, Awake, Idle, Wait, goroutines, barrier, bounds, FailClosed,
           OneMutator, Holding
<1>3. CASE EnterReturns(p)
    BY <1>3, CoordinatorAssumption
       DEF EnterReturns, Awake, Idle, Return, Goto, bounds, FailClosed, OneMutator,
           Holding
<1>4. CASE EnterIfIdle(p)
    BY <1>4, CoordinatorAssumption
       DEF EnterIfIdle, Idle, Broadcast, Return, Goto, bounds, FailClosed,
           OneMutator, Holding
<1>5. CASE LeaveMaintenance(p)
    BY <1>5, CoordinatorAssumption
       DEF LeaveMaintenance, Idle, Broadcast, Return, Goto, bounds, FailClosed,
           OneMutator, Holding
<1> QED  BY <1>1, <1>2, <1>3, <1>4, <1>5 DEF ServeMaintenance

LEMMA NextFailClosed ==
    ASSUME TypeOK, OneMutator, FailClosed, [Next]_vars
    PROVE  FailClosed'
<1>1. ASSUME NEW p \in Procs, NEW kind \in Kinds, NEW token \in 0..issued,
             Request(p, kind, token)
      PROVE  FailClosed'
    BY <1>1, EntryWhere DEF Request, Goto, barrier, FailClosed
<1>2. ASSUME NEW p \in Procs, RequestCancel(p) PROVE FailClosed'
    BY <1>2 DEF RequestCancel, barrier, bounds, FailClosed
<1>3. CASE LifecycleRecoveryPending
    BY <1>3 DEF LifecycleRecoveryPending, goroutines, barrier, bounds, FailClosed
<1>4. CASE Crash
    BY <1>4, CoordinatorAssumption DEF Crash, FailClosed
<1>5. CASE UNCHANGED vars
    BY <1>5 DEF vars, FailClosed
<1>6. ASSUME NEW p \in Procs, Serve(p) PROVE FailClosed'
    BY <1>6, ServeLifecycleFailClosed, ServeDirectFailClosed, WorkFailClosed,
       ServeMaintenanceFailClosed DEF Serve
<1> QED  BY <1>1, <1>2, <1>3, <1>4, <1>5, <1>6 DEF Next, Finished

\* A marker, an unsettled result and an idle journal keep the coordinator closed.
THEOREM FailClosedHolds == Spec => []FailClosed
<1>1. Init => FailClosed  BY DEF Init, FailClosed
<1>2. TypeOK /\ OneMutator /\ FailClosed /\ [Next]_vars => FailClosed'  BY NextFailClosed
<1> QED  BY <1>1, <1>2, TypeCorrect, OneMutatorHolds, PTL DEF Spec

-----------------------------------------------------------------------------
(***************************************************************************)
(* The barrier excludes mutations, except for a lease or a repair.         *)
(***************************************************************************)
\* Only repairs get to the recovery entry.
RecoverRepairs == \A p \in Procs : pc[p] = "recover" => call[p].kind = "repair"

LEMMA ServeRecoverRepairs ==
    ASSUME TypeOK, RecoverRepairs, NEW p \in Procs, Serve(p) PROVE RecoverRepairs'
<1>1. pc'[p] # "recover" \/ (pc'[p] = pc[p] /\ call'[p] = call[p])
    BY DEF Serve, ServeLifecycle, ServeDirect, Work, ServeMaintenance,
           StatForPrepare, PrepareWaits, PrepareRefused, PreparePublishes,
           ReserveJob, Reject, StatForPromote, PromoteWaits, PromoteRefused, PromoteAdmits,
           Complete, BeginWaits, BeginRefused, BeginAdmits, RecoveryWaits,
           RecoveryRefused, RecoveryBegins, ReservePatchJob, ClaimLifecycleJob,
           WriteJournal, MarkLifecycleJournalPending, RemoveJournal,
           ClearLifecycleJournalPending, MarkSettlementPending, Done, EnterCloses,
           EnterWaits, EnterReturns, EnterIfIdle, LeaveMaintenance,
           Goto, Return, goroutines, TypeOK
<1>2. \A q \in Procs : q # p => pc'[q] = pc[q] /\ call'[q] = call[q]
    BY DEF Serve, ServeLifecycle, ServeDirect, Work, ServeMaintenance,
           StatForPrepare, PrepareWaits, PrepareRefused, PreparePublishes,
           ReserveJob, Reject, StatForPromote, PromoteWaits, PromoteRefused, PromoteAdmits,
           Complete, BeginWaits, BeginRefused, BeginAdmits, RecoveryWaits,
           RecoveryRefused, RecoveryBegins, ReservePatchJob, ClaimLifecycleJob,
           WriteJournal, MarkLifecycleJournalPending, RemoveJournal,
           ClearLifecycleJournalPending, MarkSettlementPending, Done, EnterCloses,
           EnterWaits, EnterReturns, EnterIfIdle, LeaveMaintenance,
           Goto, Return, goroutines, TypeOK
<1> QED  BY <1>1, <1>2 DEF RecoverRepairs

LEMMA NextRecoverRepairs == ASSUME TypeOK, RecoverRepairs, [Next]_vars PROVE RecoverRepairs'
<1>1. ASSUME NEW p \in Procs, NEW kind \in Kinds, NEW token \in 0..issued,
             Request(p, kind, token)
      PROVE  RecoverRepairs'
    <2>1. Entry(kind) = "recover" => kind = "repair"
        BY CoordinatorAssumption DEF Entry, Lifecycle, Direct, AllKinds
    <2> QED  BY <1>1, <2>1 DEF Request, Goto, RecoverRepairs, TypeOK
<1>2. CASE \/ \E p \in Procs : RequestCancel(p)
           \/ LifecycleRecoveryPending \/ Crash \/ UNCHANGED vars
    BY <1>2 DEF RequestCancel, LifecycleRecoveryPending, Crash, vars, goroutines,
                RecoverRepairs
<1> QED  BY <1>1, <1>2, ServeRecoverRepairs DEF Next, Finished

LEMMA ServeLifecycleBarrierExcludes ==
    ASSUME TypeOK, OneMutator, FailClosed, RecoverRepairs, BarrierExcludes,
           NEW p \in Procs, ServeLifecycle(p) PROVE BarrierExcludes'
<1>1. CASE StatForPrepare(p)
    BY <1>1, CoordinatorAssumption
       DEF StatForPrepare, Files, Goto, barrier, bounds, BarrierExcludes,
           FailClosed, OneMutator, TypeOK, Published, Holding
<1>2. CASE PrepareWaits(p)
    BY <1>2, CoordinatorAssumption
       DEF PrepareWaits, Awake, SeesClosed, ApplySeen, SeesJournal, Wait, barrier,
           bounds, BarrierExcludes, FailClosed, OneMutator, TypeOK, Published,
           Holding
<1>3. CASE PrepareRefused(p)
    BY <1>3, CoordinatorAssumption
       DEF PrepareRefused, Awake, SeesClosed, MayPrepare, JournalBlocks,
           SeesJournal, NoToken, Leased, ApplySeen, Return, Goto, NoCall, barrier,
           bounds, BarrierExcludes, FailClosed, OneMutator, TypeOK, Published,
           Holding
<1>4. CASE PreparePublishes(p)
    BY <1>4, CoordinatorAssumption
       DEF PreparePublishes, Awake, MayPrepare, JournalBlocks, SeesJournal,
           NoToken, SeesClosed, Leased, ApplySeen, Goto, LeaseAdmits, barrier,
           bounds, BarrierExcludes, FailClosed, OneMutator, TypeOK, Published,
           Holding
<1>5. CASE ReserveJob(p)
    BY <1>5, CoordinatorAssumption
       DEF ReserveJob, barrier, bounds, BarrierExcludes, FailClosed, OneMutator,
           TypeOK, Published, Holding
<1>6. CASE Reject(p)
    BY <1>6, CoordinatorAssumption
       DEF Reject, Goto, barrier, bounds, BarrierExcludes, FailClosed, OneMutator,
           TypeOK, Published, Holding
<1>7. CASE StatForPromote(p)
    BY <1>7, CoordinatorAssumption
       DEF StatForPromote, Files, Goto, barrier, bounds, BarrierExcludes,
           FailClosed, OneMutator, TypeOK, Published, Holding
<1>8. CASE PromoteWaits(p)
    BY <1>8, CoordinatorAssumption
       DEF PromoteWaits, Awake, MayPromote, JournalBlocks, SeesJournal, NoToken,
           SeesClosed, Leased, LeaseAdmits, ApplySeen, Wait, barrier, bounds,
           BarrierExcludes, FailClosed, OneMutator, TypeOK, Published, Holding
<1>9. CASE PromoteRefused(p)
    BY <1>9, CoordinatorAssumption
       DEF PromoteRefused, Awake, MayPromote, JournalBlocks, SeesJournal, NoToken,
           SeesClosed, Leased, LeaseAdmits, ApplySeen, Goto, barrier, bounds,
           BarrierExcludes, FailClosed, OneMutator, TypeOK, Published, Holding
<1>10. CASE PromoteAdmits(p)
    BY <1>10, CoordinatorAssumption
       DEF PromoteAdmits, Awake, MayPromote, JournalBlocks, SeesJournal, NoToken,
           SeesClosed, Leased, LeaseAdmits, ApplySeen, Broadcast, Goto, bounds,
           BarrierExcludes, FailClosed, OneMutator, TypeOK, Published, Holding
<1>11. CASE Complete(p)
    BY <1>11, CoordinatorAssumption
       DEF Complete, Broadcast, Return, Goto, NoCall, NoToken, barrier, bounds,
           BarrierExcludes, FailClosed, OneMutator, TypeOK, Published, Holding
<1> QED  BY <1>1, <1>2, <1>3, <1>4, <1>5, <1>6, <1>7, <1>8, <1>9, <1>10, <1>11 DEF ServeLifecycle

LEMMA ServeDirectBarrierExcludes ==
    ASSUME TypeOK, OneMutator, FailClosed, RecoverRepairs, BarrierExcludes,
           NEW p \in Procs, ServeDirect(p) PROVE BarrierExcludes'
<1>1. CASE BeginWaits(p)
    BY <1>1, CoordinatorAssumption
       DEF BeginWaits, Awake, Idle, Wait, goroutines, barrier, bounds,
           BarrierExcludes, FailClosed, OneMutator, TypeOK, Published, Holding
<1>2. CASE BeginRefused(p)
    BY <1>2, CoordinatorAssumption
       DEF BeginRefused, Awake, Idle, Return, Goto, NoCall, NoToken, barrier,
           bounds, BarrierExcludes, FailClosed, OneMutator, TypeOK, Published,
           Holding
<1>3. CASE BeginAdmits(p)
    BY <1>3, CoordinatorAssumption
       DEF BeginAdmits, Awake, Idle, Goto, barrier, bounds, BarrierExcludes,
           FailClosed, OneMutator, TypeOK, Published, Holding
<1>4. CASE RecoveryWaits(p)
    BY <1>4, CoordinatorAssumption
       DEF RecoveryWaits, Awake, Idle, Wait, goroutines, barrier, bounds,
           BarrierExcludes, FailClosed, OneMutator, TypeOK, Published, Holding
<1>5. CASE RecoveryRefused(p)
    BY <1>5, CoordinatorAssumption
       DEF RecoveryRefused, Awake, Idle, Return, Goto, NoCall, NoToken, barrier,
           bounds, BarrierExcludes, FailClosed, OneMutator, TypeOK, Published,
           Holding
<1>6. CASE RecoveryBegins(p)
    BY <1>6, CoordinatorAssumption
       DEF RecoveryBegins, RecoverRepairs, Awake, Idle, Goto, barrier, bounds, BarrierExcludes,
           FailClosed, OneMutator, TypeOK, Published, Holding
<1>7. CASE ReservePatchJob(p)
    BY <1>7, CoordinatorAssumption
       DEF ReservePatchJob, barrier, bounds, BarrierExcludes, FailClosed,
           OneMutator, TypeOK, Published, Holding
<1>8. CASE ClaimLifecycleJob(p)
    BY <1>8, CoordinatorAssumption
       DEF ClaimLifecycleJob, Goto, barrier, bounds, BarrierExcludes, FailClosed,
           OneMutator, TypeOK, Published, Holding
<1> QED  BY <1>1, <1>2, <1>3, <1>4, <1>5, <1>6, <1>7, <1>8 DEF ServeDirect

LEMMA WorkBarrierExcludes ==
    ASSUME TypeOK, OneMutator, FailClosed, RecoverRepairs, BarrierExcludes,
           NEW p \in Procs, Work(p) PROVE BarrierExcludes'
<1>1. CASE WriteJournal(p)
    BY <1>1, CoordinatorAssumption
       DEF WriteJournal, Goto, barrier, bounds, BarrierExcludes, FailClosed,
           OneMutator, TypeOK, Published, Holding
<1>2. CASE MarkLifecycleJournalPending(p)
    BY <1>2, CoordinatorAssumption
       DEF MarkLifecycleJournalPending, Broadcast, Goto, barrier, bounds,
           BarrierExcludes, FailClosed, OneMutator, TypeOK, Published, Holding
<1>3. CASE RemoveJournal(p)
    BY <1>3, CoordinatorAssumption
       DEF RemoveJournal, Goto, barrier, bounds, BarrierExcludes, FailClosed,
           OneMutator, TypeOK, Published, Holding
<1>4. CASE ClearLifecycleJournalPending(p)
    BY <1>4, CoordinatorAssumption
       DEF ClearLifecycleJournalPending, Broadcast, Goto, barrier, bounds,
           BarrierExcludes, FailClosed, OneMutator, TypeOK, Published, Holding
<1>5. CASE MarkSettlementPending(p)
    BY <1>5, CoordinatorAssumption
       DEF MarkSettlementPending, Lifecycle, Goto, Broadcast, barrier, bounds,
           BarrierExcludes, FailClosed, OneMutator, TypeOK, Published, Holding
<1>6. CASE Done(p)
    BY <1>6, CoordinatorAssumption
       DEF Done, Broadcast, Return, Goto, NoCall, NoToken, barrier, bounds,
           BarrierExcludes, FailClosed, OneMutator, TypeOK, Published, Holding
<1> QED  BY <1>1, <1>2, <1>3, <1>4, <1>5, <1>6 DEF Work

LEMMA ServeMaintenanceBarrierExcludes ==
    ASSUME TypeOK, OneMutator, FailClosed, RecoverRepairs, BarrierExcludes,
           NEW p \in Procs, ServeMaintenance(p) PROVE BarrierExcludes'
<1>1. CASE EnterCloses(p)
    BY <1>1, CoordinatorAssumption
       DEF EnterCloses, Cancels, Broadcast, Goto, Return, NoCall, NoToken, bounds,
           BarrierExcludes, FailClosed, OneMutator, TypeOK, Published, Holding
<1>2. CASE EnterWaits(p)
    BY <1>2, CoordinatorAssumption
       DEF EnterWaits, Awake, Idle, Wait, goroutines, barrier, bounds,
           BarrierExcludes, FailClosed, OneMutator, TypeOK, Published, Holding
<1>3. CASE EnterReturns(p)
    BY <1>3, CoordinatorAssumption
       DEF EnterReturns, Awake, Idle, NoToken, Return, Goto, NoCall, bounds,
           BarrierExcludes, FailClosed, OneMutator, TypeOK, Published, Holding
<1>4. CASE EnterIfIdle(p)
    BY <1>4, CoordinatorAssumption
       DEF EnterIfIdle, Idle, Broadcast, NoToken, Return, Goto, NoCall, bounds,
           BarrierExcludes, FailClosed, OneMutator, TypeOK, Published, Holding
<1>5. CASE LeaveMaintenance(p)
    BY <1>5, CoordinatorAssumption
       DEF LeaveMaintenance, Idle, NoToken, Broadcast, Return, Goto, NoCall,
           bounds, BarrierExcludes, FailClosed, OneMutator, TypeOK, Published,
           Holding
<1> QED  BY <1>1, <1>2, <1>3, <1>4, <1>5 DEF ServeMaintenance

LEMMA NextBarrierExcludes ==
    ASSUME TypeOK, OneMutator, FailClosed, RecoverRepairs, BarrierExcludes, [Next]_vars
    PROVE  BarrierExcludes'
<1>1. ASSUME NEW p \in Procs, NEW kind \in Kinds, NEW token \in 0..issued,
             Request(p, kind, token)
      PROVE  BarrierExcludes'
    BY <1>1, EntryWhere DEF Request, Goto, barrier, BarrierExcludes, OneMutator, TypeOK, Holding
<1>2. ASSUME NEW p \in Procs, RequestCancel(p) PROVE BarrierExcludes'
    BY <1>2 DEF RequestCancel, barrier, bounds, BarrierExcludes, OneMutator, TypeOK, Holding
<1>3. CASE LifecycleRecoveryPending
    BY <1>3 DEF LifecycleRecoveryPending, goroutines, barrier, bounds,
                BarrierExcludes, OneMutator, TypeOK, Holding
<1>4. CASE Crash
    BY <1>4, CoordinatorAssumption DEF Crash, BarrierExcludes, OneMutator, TypeOK, Holding
<1>5. CASE UNCHANGED vars
    BY <1>5 DEF vars, BarrierExcludes, OneMutator, TypeOK, Holding
<1>6. ASSUME NEW p \in Procs, Serve(p) PROVE BarrierExcludes'
    BY <1>6, ServeLifecycleBarrierExcludes, ServeDirectBarrierExcludes, WorkBarrierExcludes,
       ServeMaintenanceBarrierExcludes DEF Serve
<1> QED  BY <1>1, <1>2, <1>3, <1>4, <1>5, <1>6 DEF Next, Finished

\* Under the maintenance marker only a cancelled, a leased or a repairing
\* goroutine mutates.
THEOREM BarrierExcludesHolds == Spec => []BarrierExcludes
<1>1. Init => RecoverRepairs /\ BarrierExcludes
    BY DEF Init, RecoverRepairs, BarrierExcludes
<1>2. TypeOK /\ RecoverRepairs /\ [Next]_vars => RecoverRepairs'  BY NextRecoverRepairs
<1>3. /\ TypeOK /\ OneMutator /\ FailClosed /\ RecoverRepairs /\ BarrierExcludes
      /\ [Next]_vars
      => BarrierExcludes'
    BY NextBarrierExcludes
<1> QED  BY <1>1, <1>2, <1>3, TypeCorrect, OneMutatorHolds, FailClosedHolds, PTL DEF Spec

-----------------------------------------------------------------------------
(***************************************************************************)
(* A maintenance lease admits one mutation.                                *)
(***************************************************************************)
LEMMA AdmittedBy ==
    ASSUME TypeOK, [Next]_vars, NEW p \in Procs, Admitted(p)
    PROVE  PromoteAdmits(p) \/ BeginAdmits(p) \/ RecoveryBegins(p)
<1>1. ASSUME NEW q \in Procs, Serve(q)
      PROVE  \/ active' \in {active, Nobody}
             \/ active' = q /\ (PromoteAdmits(q) \/ BeginAdmits(q) \/ RecoveryBegins(q))
    BY <1>1
       DEF Serve, ServeLifecycle, ServeDirect, Work, ServeMaintenance,
           StatForPrepare, PrepareWaits, PrepareRefused, PreparePublishes,
           ReserveJob, Reject, StatForPromote, PromoteWaits, PromoteRefused, PromoteAdmits,
           Complete, BeginWaits, BeginRefused, BeginAdmits, RecoveryWaits,
           RecoveryRefused, RecoveryBegins, ReservePatchJob, ClaimLifecycleJob,
           WriteJournal, MarkLifecycleJournalPending, RemoveJournal,
           ClearLifecycleJournalPending, MarkSettlementPending, Done, EnterCloses,
           EnterWaits, EnterReturns, EnterIfIdle, LeaveMaintenance,
           goroutines
<1>2. CASE \/ \E q \in Procs :
                \/ \E kind \in Kinds, token \in 0..issued : Request(q, kind, token)
                \/ RequestCancel(q)
           \/ LifecycleRecoveryPending \/ UNCHANGED vars
    BY <1>2 DEF Admitted, Request, RequestCancel, LifecycleRecoveryPending, vars
<1>3. CASE Crash
    BY <1>3, CoordinatorAssumption DEF Admitted, Crash
<1> QED  BY <1>1, <1>2, <1>3, CoordinatorAssumption DEF Admitted, Next, Finished

\* Every token spent or on offer was drawn, and one on offer was not spent.
LeaseInv ==
    /\ spent \subseteq 1..issued
    /\ lease # NoLease => lease.token \in 1..issued
    /\ ~lease.consumed => lease.token \notin spent

LEMMA ServeLease == ASSUME TypeOK, LeaseInv, NEW p \in Procs, Serve(p) PROVE LeaseInv'
<1>1. CASE PromoteAdmits(p)
    <2>1. CASE SeesClosed(p)
        <3>1. lease # NoLease  BY <1>1, <2>1 DEF PromoteAdmits, MayPromote, LeaseAdmits
        <3>2. lease' = [token |-> lease.token, consumed |-> TRUE]
            BY <1>1, <2>1 DEF PromoteAdmits, TypeOK
        <3> QED  BY <1>1, <2>1, <3>1, <3>2 DEF PromoteAdmits, LeaseInv
    <2>2. CASE ~SeesClosed(p)
        BY <1>1, <2>2 DEF PromoteAdmits, LeaseInv
    <2> QED  BY <2>1, <2>2
<1>2. CASE DrawLease /\ UNCHANGED spent
    BY <1>2 DEF DrawLease, LeaseInv, TypeOK, NoLease, NoToken
<1>3. CASE lease' = NoLease /\ UNCHANGED <<issued, spent>>
    BY <1>3 DEF LeaseInv, NoLease, NoToken
<1>4. CASE UNCHANGED <<lease, issued, spent>>
    BY <1>4 DEF LeaseInv
<1> QED
    BY <1>1, <1>2, <1>3, <1>4
       DEF Serve, ServeLifecycle, ServeDirect, Work, ServeMaintenance,
           StatForPrepare, PrepareWaits, PrepareRefused, PreparePublishes,
           ReserveJob, Reject, StatForPromote, PromoteWaits, PromoteRefused,
           Complete, BeginWaits, BeginRefused, BeginAdmits, RecoveryWaits,
           RecoveryRefused, RecoveryBegins, ReservePatchJob, ClaimLifecycleJob,
           WriteJournal, MarkLifecycleJournalPending, RemoveJournal,
           ClearLifecycleJournalPending, MarkSettlementPending, Done, EnterCloses,
           EnterWaits, EnterReturns, EnterIfIdle, LeaveMaintenance,
           barrier

LEMMA NextLease == ASSUME TypeOK, LeaseInv, [Next]_vars PROVE LeaseInv'
<1>1. CASE \/ \E q \in Procs :
                \/ \E kind \in Kinds, token \in 0..issued : Request(q, kind, token)
                \/ RequestCancel(q)
           \/ LifecycleRecoveryPending \/ UNCHANGED vars
    BY <1>1 DEF Request, RequestCancel, LifecycleRecoveryPending, vars, barrier, LeaseInv
<1>2. CASE Crash
    BY <1>2 DEF Crash, LeaseInv, NoLease, NoToken
<1> QED  BY <1>1, <1>2, ServeLease DEF Next, Finished

\* No token is accepted twice, across barriers, races and restarts.
THEOREM LeaseSingleUseHolds == Spec => LeaseSingleUse
<1>1. Init => LeaseInv  BY DEF Init, LeaseInv, NoLease, NoToken
<1>2. TypeOK /\ LeaseInv /\ [Next]_vars => LeaseInv'  BY NextLease
<1>3. ASSUME TypeOK, FailClosed, LeaseInv, [Next]_vars, NEW p \in Procs, Admitted(p), marker,
             call[p].kind # "repair", RecoverRepairs
      PROVE  call[p].token \notin spent
    <2>1. CASE PromoteAdmits(p)
        BY <1>3, <2>1 DEF PromoteAdmits, MayPromote, SeesClosed, LeaseAdmits, LeaseInv,
                          FailClosed
    <2>2. CASE BeginAdmits(p)  BY <1>3, <2>2 DEF BeginAdmits, FailClosed
    <2>3. CASE RecoveryBegins(p)
        BY <1>3, <2>3 DEF RecoveryBegins, Awake, RecoverRepairs
    <2> QED  BY <1>3, <2>1, <2>2, <2>3, AdmittedBy
<1>4. TypeOK /\ FailClosed /\ LeaseInv /\ RecoverRepairs /\ [Next]_vars =>
          [\A p \in Procs :
             Admitted(p) /\ marker /\ call[p].kind # "repair" =>
                 call[p].token \notin spent]_vars
    BY <1>3
<1>5. Init => RecoverRepairs  BY DEF Init, RecoverRepairs
<1>6. TypeOK /\ RecoverRepairs /\ [Next]_vars => RecoverRepairs'  BY NextRecoverRepairs
<1> QED
    BY <1>1, <1>2, <1>4, <1>5, <1>6, TypeCorrect, FailClosedHolds, PTL
       DEF Spec, LeaseSingleUse

-----------------------------------------------------------------------------
(***************************************************************************)
(* Nothing is admitted over a journal, if directory syncs do not fail.     *)
(***************************************************************************)
\* A journal on file is known to the coordinator, or was written a moment ago by
\* the goroutine that mutates; who reports it removed has removed it.
JournalKnown ==
    /\ journal => journalPending \/ \E p \in Procs : active = p /\ pc[p] = "writing"
    /\ \A p \in Procs : pc[p] = "clearing" => ~journal

LEMMA ServeLifecycleJournalKnown ==
    ASSUME TypeOK, OneMutator, JournalKnown, "sync" \notin Faults,
            NEW p \in Procs, ServeLifecycle(p) PROVE JournalKnown'
<1>1. CASE StatForPrepare(p)
    BY <1>1, CoordinatorAssumption
       DEF StatForPrepare, Files, Goto, barrier, bounds, JournalKnown, OneMutator,
           TypeOK, Holding
<1>2. CASE PrepareWaits(p)
    BY <1>2, CoordinatorAssumption
       DEF PrepareWaits, Awake, SeesClosed, ApplySeen, SeesJournal, Wait, barrier,
           bounds, JournalKnown, OneMutator, TypeOK, Holding
<1>3. CASE PrepareRefused(p)
    BY <1>3, CoordinatorAssumption
       DEF PrepareRefused, Awake, SeesClosed, MayPrepare, JournalBlocks,
           SeesJournal, ApplySeen, Return, Goto, barrier, bounds, JournalKnown,
           OneMutator, TypeOK, Holding
<1>4. CASE PreparePublishes(p)
    BY <1>4, CoordinatorAssumption
       DEF PreparePublishes, Awake, MayPrepare, JournalBlocks, SeesJournal,
           SeesClosed, ApplySeen, Goto, barrier, bounds, JournalKnown, OneMutator,
           TypeOK, Holding
<1>5. CASE ReserveJob(p)
    BY <1>5, CoordinatorAssumption
       DEF ReserveJob, barrier, bounds, JournalKnown, OneMutator, TypeOK, Holding
<1>6. CASE Reject(p)
    BY <1>6, CoordinatorAssumption
       DEF Reject, Goto, barrier, bounds, JournalKnown, OneMutator, TypeOK, Holding
<1>7. CASE StatForPromote(p)
    BY <1>7, CoordinatorAssumption
       DEF StatForPromote, Files, Goto, barrier, bounds, JournalKnown, OneMutator,
           TypeOK, Holding
<1>8. CASE PromoteWaits(p)
    BY <1>8, CoordinatorAssumption
       DEF PromoteWaits, Awake, MayPromote, JournalBlocks, SeesJournal, SeesClosed,
           ApplySeen, Wait, barrier, bounds, JournalKnown, OneMutator, TypeOK,
           Holding
<1>9. CASE PromoteRefused(p)
    BY <1>9, CoordinatorAssumption
       DEF PromoteRefused, Awake, MayPromote, JournalBlocks, SeesJournal,
           SeesClosed, ApplySeen, Goto, barrier, bounds, JournalKnown, OneMutator,
           TypeOK, Holding
<1>10. CASE PromoteAdmits(p)
    BY <1>10, CoordinatorAssumption
       DEF PromoteAdmits, Awake, MayPromote, JournalBlocks, SeesJournal,
           SeesClosed, ApplySeen, Broadcast, Goto, bounds, JournalKnown,
           OneMutator, TypeOK, Holding
<1>11. CASE Complete(p)
    BY <1>11, CoordinatorAssumption
       DEF Complete, Broadcast, Return, Goto, barrier, bounds, JournalKnown,
           OneMutator, TypeOK, Holding
<1> QED  BY <1>1, <1>2, <1>3, <1>4, <1>5, <1>6, <1>7, <1>8, <1>9, <1>10, <1>11 DEF ServeLifecycle

LEMMA ServeDirectJournalKnown ==
    ASSUME TypeOK, OneMutator, JournalKnown, "sync" \notin Faults,
            NEW p \in Procs, ServeDirect(p) PROVE JournalKnown'
<1>1. CASE BeginWaits(p)
    BY <1>1, CoordinatorAssumption
       DEF BeginWaits, Awake, Idle, Wait, goroutines, barrier, bounds,
           JournalKnown, OneMutator, TypeOK, Holding
<1>2. CASE BeginRefused(p)
    BY <1>2, CoordinatorAssumption
       DEF BeginRefused, Awake, Idle, Return, Goto, barrier, bounds, JournalKnown,
           OneMutator, TypeOK, Holding
<1>3. CASE BeginAdmits(p)
    BY <1>3, CoordinatorAssumption
       DEF BeginAdmits, Awake, Idle, Goto, barrier, bounds, JournalKnown,
           OneMutator, TypeOK, Holding
<1>4. CASE RecoveryWaits(p)
    BY <1>4, CoordinatorAssumption
       DEF RecoveryWaits, Awake, Idle, Wait, goroutines, barrier, bounds,
           JournalKnown, OneMutator, TypeOK, Holding
<1>5. CASE RecoveryRefused(p)
    BY <1>5, CoordinatorAssumption
       DEF RecoveryRefused, Awake, Idle, Return, Goto, barrier, bounds,
           JournalKnown, OneMutator, TypeOK, Holding
<1>6. CASE RecoveryBegins(p)
    BY <1>6, CoordinatorAssumption
       DEF RecoveryBegins, Awake, Idle, Goto, barrier, bounds, JournalKnown,
           OneMutator, TypeOK, Holding
<1>7. CASE ReservePatchJob(p)
    BY <1>7, CoordinatorAssumption
       DEF ReservePatchJob, barrier, bounds, JournalKnown, OneMutator, TypeOK,
           Holding
<1>8. CASE ClaimLifecycleJob(p)
    BY <1>8, CoordinatorAssumption
       DEF ClaimLifecycleJob, Goto, barrier, bounds, JournalKnown, OneMutator,
           TypeOK, Holding
<1> QED  BY <1>1, <1>2, <1>3, <1>4, <1>5, <1>6, <1>7, <1>8 DEF ServeDirect

LEMMA WorkJournalKnown ==
    ASSUME TypeOK, OneMutator, JournalKnown, "sync" \notin Faults,
            NEW p \in Procs, Work(p) PROVE JournalKnown'
<1>1. CASE WriteJournal(p)
    <2>1. active = p /\ pc[p] = "holding"
        BY <1>1 DEF WriteJournal, OneMutator, Holding
    <2>2. \A q \in Procs : pc'[q] # "clearing"
        BY <1>1, <2>1 DEF WriteJournal, Goto, OneMutator, TypeOK, Holding
    <2>3. CASE journal' = TRUE /\ Goto(p, "writing")
        BY <1>1, <2>1, <2>2, <2>3 DEF WriteJournal, Goto, TypeOK, JournalKnown
    <2>4. CASE journal' = journal /\ Goto(p, "finishing")
        BY <1>1, <2>1, <2>2, <2>4 DEF WriteJournal, TypeOK, JournalKnown
    <2> QED  BY <1>1, <2>3, <2>4 DEF WriteJournal
<1>2. CASE MarkLifecycleJournalPending(p)
    BY <1>2, CoordinatorAssumption
       DEF MarkLifecycleJournalPending, Broadcast, Goto, barrier, bounds,
           JournalKnown, OneMutator, TypeOK, Holding
<1>3. CASE RemoveJournal(p)
    BY <1>3, CoordinatorAssumption
       DEF RemoveJournal, Goto, barrier, bounds, JournalKnown, OneMutator, TypeOK,
           Holding
<1>4. CASE ClearLifecycleJournalPending(p)
    BY <1>4, CoordinatorAssumption
       DEF ClearLifecycleJournalPending, Broadcast, Goto, barrier, bounds,
           JournalKnown, OneMutator, TypeOK, Holding
<1>5. CASE MarkSettlementPending(p)
    BY <1>5, CoordinatorAssumption
       DEF MarkSettlementPending, Goto, Broadcast, barrier, bounds, JournalKnown,
           OneMutator, TypeOK, Holding
<1>6. CASE Done(p)
    BY <1>6, CoordinatorAssumption
       DEF Done, Broadcast, Return, Goto, barrier, bounds, JournalKnown,
           OneMutator, TypeOK, Holding
<1> QED  BY <1>1, <1>2, <1>3, <1>4, <1>5, <1>6 DEF Work

LEMMA ServeMaintenanceJournalKnown ==
    ASSUME TypeOK, OneMutator, JournalKnown, "sync" \notin Faults,
            NEW p \in Procs, ServeMaintenance(p) PROVE JournalKnown'
<1>1. CASE EnterCloses(p)
    BY <1>1, CoordinatorAssumption
       DEF EnterCloses, Broadcast, Goto, Return, bounds, JournalKnown, OneMutator,
           TypeOK, Holding
<1>2. CASE EnterWaits(p)
    BY <1>2, CoordinatorAssumption
       DEF EnterWaits, Awake, Idle, Wait, goroutines, barrier, bounds,
           JournalKnown, OneMutator, TypeOK, Holding
<1>3. CASE EnterReturns(p)
    BY <1>3, CoordinatorAssumption
       DEF EnterReturns, Awake, Idle, Return, Goto, bounds, JournalKnown,
           OneMutator, TypeOK, Holding
<1>4. CASE EnterIfIdle(p)
    BY <1>4, CoordinatorAssumption
       DEF EnterIfIdle, Idle, Broadcast, Return, Goto, bounds, JournalKnown,
           OneMutator, TypeOK, Holding
<1>5. CASE LeaveMaintenance(p)
    BY <1>5, CoordinatorAssumption
       DEF LeaveMaintenance, Idle, Broadcast, Return, Goto, bounds, JournalKnown,
           OneMutator, TypeOK, Holding
<1> QED  BY <1>1, <1>2, <1>3, <1>4, <1>5 DEF ServeMaintenance

LEMMA NextJournalKnown ==
    ASSUME TypeOK, OneMutator, JournalKnown, "sync" \notin Faults, [Next]_vars
    PROVE  JournalKnown'
<1>1. ASSUME NEW p \in Procs, NEW kind \in Kinds, NEW token \in 0..issued,
             Request(p, kind, token)
      PROVE  JournalKnown'
    BY <1>1, EntryWhere DEF Request, Goto, barrier, JournalKnown, OneMutator, TypeOK, Holding
<1>2. ASSUME NEW p \in Procs, RequestCancel(p) PROVE JournalKnown'
    BY <1>2 DEF RequestCancel, barrier, bounds, JournalKnown, OneMutator, TypeOK, Holding
<1>3. CASE LifecycleRecoveryPending
    BY <1>3 DEF LifecycleRecoveryPending, goroutines, barrier, bounds,
                JournalKnown, OneMutator, TypeOK, Holding
<1>4. CASE Crash
    BY <1>4, CoordinatorAssumption DEF Crash, JournalKnown, OneMutator, TypeOK, Holding
<1>5. CASE UNCHANGED vars
    BY <1>5 DEF vars, JournalKnown, OneMutator, TypeOK, Holding
<1>6. ASSUME NEW p \in Procs, Serve(p) PROVE JournalKnown'
    BY <1>6, ServeLifecycleJournalKnown, ServeDirectJournalKnown, WorkJournalKnown,
       ServeMaintenanceJournalKnown DEF Serve
<1> QED  BY <1>1, <1>2, <1>3, <1>4, <1>5, <1>6 DEF Next, Finished

\* Where a directory sync does not fail, no mutation but a repair is admitted over
\* a journal or an unsettled result.
THEOREM AdmissionFailsClosedHolds ==
    ASSUME "sync" \notin Faults PROVE Spec => AdmissionFailsClosed
<1>1. Init => JournalKnown /\ RecoverRepairs  BY DEF Init, JournalKnown, RecoverRepairs
<1>2. TypeOK /\ OneMutator /\ JournalKnown /\ [Next]_vars => JournalKnown'
    BY NextJournalKnown
<1>3. TypeOK /\ RecoverRepairs /\ [Next]_vars => RecoverRepairs'  BY NextRecoverRepairs
<1>4. ASSUME TypeOK, JournalKnown, RecoverRepairs, [Next]_vars,
             NEW p \in Procs, Admitted(p), call[p].kind # "repair"
      PROVE  ~journal /\ ~settlementPending
    <2>1. CASE PromoteAdmits(p)
        BY <1>4, <2>1, CoordinatorAssumption
           DEF PromoteAdmits, MayPromote, JournalBlocks, SeesJournal, JournalKnown
    <2>2. CASE BeginAdmits(p)  BY <2>2 DEF BeginAdmits
    <2>3. CASE RecoveryBegins(p)
        BY <1>4, <2>3 DEF RecoveryBegins, Awake, RecoverRepairs
    <2> QED  BY <1>4, <2>1, <2>2, <2>3, AdmittedBy
<1>5. TypeOK /\ JournalKnown /\ RecoverRepairs /\ [Next]_vars =>
          [\A p \in Procs :
             Admitted(p) /\ call[p].kind # "repair" => ~journal /\ ~settlementPending]_vars
    BY <1>4
<1> QED
    BY <1>1, <1>2, <1>3, <1>5, TypeCorrect, OneMutatorHolds, PTL
       DEF Spec, AdmissionFailsClosed
=============================================================================
