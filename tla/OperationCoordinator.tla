------------------------- MODULE OperationCoordinator -------------------------
(***************************************************************************)
(* The deployer's operation coordinator (deployer/main.go): one mutex and  *)
(* one condition variable that serialise every mutation, the maintenance   *)
(* barrier with its single-use lease, and recovery of an interrupted       *)
(* mutation from the lifecycle journal.                                    *)
(*                                                                         *)
(* Every process is a goroutine that serves one HTTP request at a time;    *)
(* an admitted one keeps running as the worker that holds the mutation.    *)
(* One action is one critical section of the mutex, or one access to the   *)
(* marker and journal files outside it.                                    *)
(*                                                                         *)
(* A definition named XMutant is X with a plausible bug; the checks put it *)
(* in the place of X to see that a property notices.                       *)
(***************************************************************************)
EXTENDS Naturals, FiniteSets

CONSTANTS Procs, Nobody,  \* goroutines, and the absence of one
          Kinds,          \* the requests that are made
          Faults,         \* what may fail
          MaxCalls, MaxCrashes  \* bounds

AllKinds == {"create", "reset", "close", "deploy", "patch", "repair",
             "enter", "enterIfIdle", "leave"}

\* A file operation or the random source; the directory sync after a visible
\* rename or removal; the durable settlement of an operation's result.
AllFaults == {"io", "sync", "settle"}

ASSUME CoordinatorAssumption ==
    /\ Nobody \notin Procs
    /\ Kinds \subseteq AllKinds
    /\ Faults \subseteq AllFaults
    /\ MaxCalls \in Nat /\ MaxCrashes \in Nat

VARIABLES
    pc,         \* where each goroutine is
    call,       \* the request it serves: kind and maintenance token
    saw,        \* the files prepare and promote found before locking
    cancelled,  \* its context is cancelled
    job,        \* the in-memory job of its request
    asleep,     \* the goroutines waiting on the condition variable
    closed, journalPending, active, preparing, settlementPending, lease,
    issued,     \* the number of lease tokens ever drawn
    marker, journal, restoreGate,  \* the files
    spent,      \* tokens a mutation was admitted with
    calls, crashes  \* counted against the bounds

goroutines == <<pc, call, saw, cancelled, job>>
barrier == <<lease, issued, marker>>
bounds == <<calls, crashes>>
vars == <<pc, call, saw, cancelled, job, asleep, closed, journalPending, active,
          preparing, settlementPending, lease, issued, marker, journal,
          restoreGate, spent, calls, crashes>>

-----------------------------------------------------------------------------
Lifecycle == {"create", "reset", "close"}
Leased == {"create", "reset"}   \* kinds a maintenance lease can admit
Direct == {"deploy", "patch"}

\* Tokens are drawn at random, so that a new one was never used; 0 is no token.
NoToken == 0
NoCall == [kind |-> "none", token |-> NoToken]
NoLease == [token |-> NoToken, consumed |-> FALSE]
NothingSeen == [marker |-> FALSE, journal |-> FALSE]
Files == [marker |-> marker, journal |-> journal]

\* A goroutine owns the preparation in Published and the mutation in Holding.
Published == {"reserving", "tombstone", "promote", "rejecting", "unsettled"}
Holding == {"holding", "writing", "journaled", "clearing", "finishing",
            "releasing"}
Outside == {"idle", "stat", "prepare", "begin", "recover", "enter", "draining",
            "maintenance"}
JobStatus == {"none", "pending", "running", "cancelled"}

Init ==
    /\ pc = [p \in Procs |-> "idle"]
    /\ call = [p \in Procs |-> NoCall]
    /\ saw = [p \in Procs |-> NothingSeen]
    /\ cancelled = [p \in Procs |-> FALSE]
    /\ job = [p \in Procs |-> "none"]
    /\ asleep = {}
    /\ marker = FALSE /\ journal = FALSE /\ restoreGate \in BOOLEAN
    /\ closed = restoreGate
    /\ journalPending = FALSE
    /\ active = Nobody /\ preparing = Nobody
    /\ settlementPending = FALSE
    /\ lease = NoLease /\ issued = 0
    /\ spent = {}
    /\ calls = 0 /\ crashes = 0

Awake(p, where) == pc[p] = where /\ p \notin asleep
Goto(p, where) == pc' = [pc EXCEPT ![p] = where]
Wait(p) == asleep' = asleep \cup {p}
BroadcastMutant == \/ asleep = {} /\ asleep' = {}
                   \/ \E p \in asleep : asleep' = asleep \ {p}
Broadcast == asleep' = {}
IdleMutant == preparing = Nobody
Idle == active = Nobody /\ preparing = Nobody

\* The request is answered and its goroutine, context and job are done with.
Return(p) ==
    /\ Goto(p, "idle")
    /\ call' = [call EXCEPT ![p] = NoCall]
    /\ saw' = [saw EXCEPT ![p] = NothingSeen]
    /\ cancelled' = [cancelled EXCEPT ![p] = FALSE]
    /\ job' = [job EXCEPT ![p] = "none"]

State == IF ~closed THEN "open" ELSE IF Idle THEN "drained" ELSE "draining"

EntryMutant(kind) == IF kind \in Lifecycle THEN "stat" ELSE kind
Entry(kind) == CASE kind \in Lifecycle -> "stat"
                 [] kind \in Direct -> "begin"
                 [] kind = "repair" -> "recover"
                 [] kind = "enter" -> "enter"
                 [] OTHER -> "maintenance"

\* A request arrives; a create or reset may carry any token handed out so far.
Request(p, kind, token) ==
    /\ pc[p] = "idle" /\ calls < MaxCalls
    /\ kind \notin Leased => token = NoToken
    /\ call' = [call EXCEPT ![p] = [kind |-> kind, token |-> token]]
    /\ Goto(p, Entry(kind))
    /\ calls' = calls + 1
    /\ UNCHANGED <<saw, cancelled, job, asleep, closed, journalPending, active,
                   preparing, settlementPending, barrier, journal, restoreGate,
                   spent, crashes>>

-----------------------------------------------------------------------------
(***************************************************************************)
(* prepare: publish a preparation before anything is reserved.  The files  *)
(* are looked at before the lock is taken, and what was seen is applied    *)
(* once, under the lock.                                                   *)
(***************************************************************************)
StatForPrepare(p) ==
    /\ pc[p] = "stat"
    /\ saw' = [saw EXCEPT ![p] = Files]
    /\ Goto(p, "prepare")
    /\ UNCHANGED <<call, cancelled, job, asleep, closed, journalPending, active,
                   preparing, settlementPending, barrier, journal, restoreGate,
                   spent, bounds>>

SeesJournal(p) == journalPending \/ (saw[p].journal /\ active = Nobody)
SeesClosed(p) == closed \/ saw[p].marker \/ (saw[p].journal /\ active = Nobody)

JournalBlocksMutant(p) == saw[p].journal /\ active = Nobody
JournalBlocks(p) == SeesJournal(p) /\ active = Nobody

ApplySeen(p) == /\ closed' = SeesClosed(p)
                /\ journalPending' = SeesJournal(p)

LeaseAdmitsMutant(p) == lease # NoLease /\ lease.token = call[p].token
LeaseAdmits(p) == /\ lease # NoLease /\ ~lease.consumed
                  /\ lease.token = call[p].token

MayPrepare(p) ==
    /\ ~settlementPending
    /\ ~JournalBlocks(p)
    /\ preparing = Nobody
    /\ call[p].kind = "reset" /\ call[p].token # NoToken => SeesClosed(p)
    /\ SeesClosed(p) => call[p].kind \in Leased /\ call[p].token # NoToken

PrepareWaits(p) ==
    /\ Awake(p, "prepare") /\ preparing # Nobody /\ ~SeesClosed(p)
    /\ ApplySeen(p)
    /\ saw' = [saw EXCEPT ![p] = NothingSeen]
    /\ Wait(p)
    /\ UNCHANGED <<pc, call, cancelled, job, active, preparing, settlementPending,
                   barrier, journal, restoreGate, spent, bounds>>

PrepareRefused(p) ==
    /\ Awake(p, "prepare") /\ (preparing = Nobody \/ SeesClosed(p))
    /\ ~MayPrepare(p)
    /\ ApplySeen(p)
    /\ Return(p)
    /\ UNCHANGED <<asleep, active, preparing, settlementPending, barrier, journal,
                   restoreGate, spent, bounds>>

\* An invalid lease is published too: its request leaves a cancelled record.
PreparePublishes(p) ==
    /\ Awake(p, "prepare") /\ MayPrepare(p)
    /\ ApplySeen(p)
    /\ preparing' = p
    /\ Goto(p, IF SeesClosed(p) /\ ~LeaseAdmits(p) THEN "tombstone" ELSE "reserving")
    /\ saw' = [saw EXCEPT ![p] = NothingSeen]
    /\ UNCHANGED <<call, cancelled, job, asleep, active, settlementPending, barrier,
                   journal, restoreGate, spent, bounds>>

\* The job is reserved, or the handler rejects: a replay found after publication,
\* a full table, a failed validation or an unreachable Docker.
ReserveJob(p) ==
    /\ pc[p] = "reserving" /\ job[p] = "none"
    /\ job' = [job EXCEPT ![p] = "pending"]
    /\ UNCHANGED <<pc, call, saw, cancelled, asleep, closed, journalPending, active,
                   preparing, settlementPending, barrier, journal, restoreGate,
                   spent, bounds>>

Reject(p) ==
    /\ pc[p] = "reserving"
    /\ Goto(p, "rejecting")
    /\ UNCHANGED <<call, saw, cancelled, job, asleep, closed, journalPending, active,
                   preparing, settlementPending, barrier, journal, restoreGate,
                   spent, bounds>>

-----------------------------------------------------------------------------
(***************************************************************************)
(* promote: turn the preparation into the active mutation once the         *)
(* previous one has returned, in one critical section with its job.        *)
(***************************************************************************)
StatForPromote(p) ==
    /\ pc[p] = "reserving" /\ job[p] # "none"
    /\ saw' = [saw EXCEPT ![p] = Files]
    /\ Goto(p, "promote")
    /\ UNCHANGED <<call, cancelled, job, asleep, closed, journalPending, active,
                   preparing, settlementPending, barrier, journal, restoreGate,
                   spent, bounds>>

MayPromote(p) ==
    /\ preparing = p /\ ~cancelled[p] /\ ~settlementPending
    /\ ~JournalBlocks(p)
    /\ call[p].kind = "reset" /\ call[p].token # NoToken => SeesClosed(p)
    /\ SeesClosed(p) => call[p].kind \in Leased /\ call[p].token # NoToken
                        /\ LeaseAdmits(p)

PromoteWaits(p) ==
    /\ Awake(p, "promote") /\ active # Nobody /\ MayPromote(p)
    /\ ApplySeen(p)
    /\ saw' = [saw EXCEPT ![p] = NothingSeen]
    /\ Wait(p)
    /\ UNCHANGED <<pc, call, cancelled, job, active, preparing, settlementPending,
                   barrier, journal, restoreGate, spent, bounds>>

PromoteRefused(p) ==
    /\ Awake(p, "promote")
    /\ ~MayPromote(p) \/ (active = Nobody /\ job[p] # "pending")
    /\ ApplySeen(p)
    /\ saw' = [saw EXCEPT ![p] = NothingSeen]
    /\ Goto(p, "rejecting")
    /\ UNCHANGED <<call, cancelled, job, asleep, active, preparing, settlementPending,
                   barrier, journal, restoreGate, spent, bounds>>

PromoteAdmits(p) ==
    /\ Awake(p, "promote") /\ active = Nobody /\ MayPromote(p) /\ job[p] = "pending"
    /\ ApplySeen(p)
    /\ saw' = [saw EXCEPT ![p] = NothingSeen]
    /\ job' = [job EXCEPT ![p] = "running"]
    /\ lease' = IF SeesClosed(p) THEN [lease EXCEPT !.consumed = TRUE] ELSE lease
    /\ spent' = IF SeesClosed(p) THEN spent \cup {lease.token} ELSE spent
    /\ active' = p /\ preparing' = Nobody
    /\ Broadcast
    /\ Goto(p, "holding")
    /\ UNCHANGED <<call, cancelled, settlementPending, issued, marker, journal,
                   restoreGate, bounds>>

\* complete: the preparation is given up, its refusal settled durably or not.
\* Handlers pin the closure before completing what they could not settle.
Complete(p) ==
    /\ \/ /\ pc[p] \in {"rejecting", "tombstone"}
          /\ UNCHANGED <<settlementPending, closed>>
       \/ /\ pc[p] = "unsettled" \/ (pc[p] = "tombstone" /\ "settle" \in Faults)
          /\ settlementPending' = TRUE /\ closed' = TRUE
    /\ preparing' = IF preparing = p THEN Nobody ELSE preparing
    /\ Broadcast
    /\ Return(p)
    /\ UNCHANGED <<journalPending, active, barrier, journal, restoreGate, spent,
                   bounds>>

\* markPreparationSettlementPending, before a rejection completes or a worker
\* releases the mutation.
MarkSettlementPending(p) ==
    /\ "settle" \in Faults /\ call[p].kind \in Lifecycle
    /\ \/ pc[p] = "rejecting" /\ Goto(p, "unsettled")
       \/ pc[p] \in {"holding", "journaled", "finishing"} /\ Goto(p, "releasing")
    /\ settlementPending' = TRUE /\ closed' = TRUE
    /\ Broadcast
    /\ UNCHANGED <<call, saw, cancelled, job, journalPending, active, preparing,
                   barrier, journal, restoreGate, spent, bounds>>

-----------------------------------------------------------------------------
(***************************************************************************)
(* begin and beginRecovery: mutations without a preparation, and repair.   *)
(***************************************************************************)
BeginWaits(p) ==
    /\ Awake(p, "begin") /\ ~Idle /\ ~closed
    /\ Wait(p)
    /\ UNCHANGED <<goroutines, closed, journalPending, active, preparing,
                   settlementPending, barrier, journal, restoreGate, spent, bounds>>

BeginRefused(p) ==
    /\ Awake(p, "begin") /\ (Idle \/ closed)
    /\ settlementPending \/ closed \/ journalPending \/ journal
    /\ closed' = TRUE
    /\ Return(p)
    /\ UNCHANGED <<asleep, journalPending, active, preparing, settlementPending,
                   barrier, journal, restoreGate, spent, bounds>>

BeginAdmits(p) ==
    /\ Awake(p, "begin") /\ Idle
    /\ ~settlementPending /\ ~closed /\ ~journalPending /\ ~journal
    /\ active' = p
    /\ Goto(p, "holding")
    /\ UNCHANGED <<call, saw, cancelled, job, asleep, closed, journalPending,
                   preparing, settlementPending, barrier, journal, restoreGate,
                   spent, bounds>>

RecoveryWaits(p) ==
    /\ Awake(p, "recover") /\ ~Idle
    /\ Wait(p)
    /\ UNCHANGED <<goroutines, closed, journalPending, active, preparing,
                   settlementPending, barrier, journal, restoreGate, spent, bounds>>

RecoveryRefused(p) ==
    /\ Awake(p, "recover") /\ Idle /\ ~journalPending /\ ~journal
    /\ Return(p)
    /\ UNCHANGED <<asleep, closed, journalPending, active, preparing,
                   settlementPending, barrier, journal, restoreGate, spent, bounds>>

\* A repair that finds no journal to read fails at once.
RecoveryBegins(p) ==
    /\ Awake(p, "recover") /\ Idle /\ (journalPending \/ journal)
    /\ closed' = TRUE /\ journalPending' = TRUE
    /\ active' = p
    /\ Goto(p, IF journal THEN "journaled" ELSE "finishing")
    /\ UNCHANGED <<call, saw, cancelled, job, asleep, preparing, settlementPending,
                   barrier, journal, restoreGate, spent, bounds>>

\* An env patch that reloads the registry reserves a job and claims it for the
\* mutation it already holds; a closed barrier or a cancellation ends it.
ReservePatchJob(p) ==
    /\ pc[p] = "holding" /\ call[p].kind = "patch" /\ job[p] = "none"
    /\ job' = [job EXCEPT ![p] = "pending"]
    /\ UNCHANGED <<pc, call, saw, cancelled, asleep, closed, journalPending, active,
                   preparing, settlementPending, barrier, journal, restoreGate,
                   spent, bounds>>

ClaimLifecycleJob(p) ==
    LET claims == active = p /\ ~closed /\ ~cancelled[p] /\ job[p] = "pending"
    IN /\ pc[p] = "holding" /\ call[p].kind = "patch"
       /\ job[p] \in {"pending", "cancelled"}
       /\ job' = [job EXCEPT ![p] = IF claims THEN "running" ELSE "cancelled"]
       /\ Goto(p, IF claims THEN "holding" ELSE "finishing")
       /\ UNCHANGED <<call, saw, cancelled, asleep, closed, journalPending, active,
                      preparing, settlementPending, barrier, journal, restoreGate,
                      spent, bounds>>

-----------------------------------------------------------------------------
(***************************************************************************)
(* The work: the journal file is written and removed outside the lock, and *)
(* each time the coordinator is told in a critical section of its own.     *)
(***************************************************************************)
WriteJournal(p) ==
    /\ pc[p] = "holding"
    /\ call[p].kind = "patch" => job[p] = "running"
    /\ \/ ~journal /\ journal' = TRUE /\ Goto(p, "writing")
       \/ "sync" \in Faults /\ ~journal /\ journal' = TRUE /\ Goto(p, "finishing")
       \/ /\ journal \/ "io" \in Faults
          /\ journal' = journal /\ Goto(p, "finishing")
    /\ UNCHANGED <<call, saw, cancelled, job, asleep, closed, journalPending, active,
                   preparing, settlementPending, barrier, restoreGate, spent, bounds>>

MarkLifecycleJournalPending(p) ==
    /\ pc[p] = "writing"
    /\ journalPending' = TRUE
    /\ closed' = (closed \/ active = Nobody)
    /\ Broadcast
    /\ Goto(p, "journaled")
    /\ UNCHANGED <<call, saw, cancelled, job, active, preparing, settlementPending,
                   barrier, journal, restoreGate, spent, bounds>>

RemoveJournal(p) ==
    /\ pc[p] = "journaled"
    /\ \/ journal' = FALSE /\ Goto(p, "clearing")
       \/ "sync" \in Faults /\ journal' = FALSE /\ Goto(p, "finishing")
       \/ "io" \in Faults /\ journal' = journal /\ Goto(p, "finishing")
    /\ UNCHANGED <<call, saw, cancelled, job, asleep, closed, journalPending, active,
                   preparing, settlementPending, barrier, restoreGate, spent, bounds>>

ReopensMutant == ~marker
Reopens == ~settlementPending /\ ~marker

ClearLifecycleJournalPending(p) ==
    /\ pc[p] = "clearing"
    /\ journalPending' = FALSE
    /\ closed' = (closed /\ ~Reopens)
    /\ Broadcast
    /\ Goto(p, "finishing")
    /\ UNCHANGED <<call, saw, cancelled, job, active, preparing, settlementPending,
                   barrier, journal, restoreGate, spent, bounds>>

\* Work may end before it is journalled, and may leave its journal behind.
Done(p) ==
    /\ pc[p] \in {"holding", "journaled", "finishing", "releasing"}
    /\ IF active = p
         THEN /\ closed' = (closed \/ journalPending \/ journal)
              /\ active' = Nobody
              /\ Broadcast
         ELSE UNCHANGED <<closed, active, asleep>>
    /\ Return(p)
    /\ UNCHANGED <<journalPending, preparing, settlementPending, barrier, journal,
                   restoreGate, spent, bounds>>

\* POST /jobs/{id}/cancel, at any time.
RequestCancel(p) ==
    /\ \/ job[p] = "pending" /\ job' = [job EXCEPT ![p] = "cancelled"]
          /\ UNCHANGED cancelled
       \/ job[p] = "running" /\ cancelled' = [cancelled EXCEPT ![p] = TRUE]
          /\ UNCHANGED job
    /\ UNCHANGED <<pc, call, saw, asleep, closed, journalPending, active, preparing,
                   settlementPending, barrier, journal, restoreGate, spent, bounds>>

\* GET /readyz refreshes the recovery flag from the file.
LifecycleRecoveryPending ==
    /\ journalPending' = (journalPending \/ journal)
    /\ UNCHANGED <<goroutines, asleep, closed, active, preparing, settlementPending,
                   barrier, journal, restoreGate, spent, bounds>>

-----------------------------------------------------------------------------
(***************************************************************************)
(* The maintenance barrier.                                                *)
(***************************************************************************)
CancelsMutant == {preparing}
Cancels == {active, preparing}

\* enterMaintenance, first critical section: install the barrier and cancel.
EnterCloses(p) ==
    /\ pc[p] = "enter"
    /\ \/ /\ marker' = TRUE /\ closed' = TRUE
          /\ cancelled' = [q \in Procs |-> cancelled[q] \/ q \in Cancels]
          /\ Broadcast
          /\ Goto(p, "draining")
          /\ UNCHANGED <<call, saw, job>>
       \/ "io" \in Faults /\ ~marker /\ Return(p) /\ UNCHANGED <<marker, closed, asleep>>
    /\ UNCHANGED <<journalPending, active, preparing, settlementPending, lease,
                   issued, journal, restoreGate, spent, bounds>>

EnterWaits(p) ==
    /\ Awake(p, "draining") /\ ~Idle
    /\ Wait(p)
    /\ UNCHANGED <<goroutines, closed, journalPending, active, preparing,
                   settlementPending, barrier, journal, restoreGate, spent, bounds>>

DrawLease == /\ issued' = issued + 1
             /\ lease' = [token |-> issued + 1, consumed |-> FALSE]

\* Second critical section: a first lease is drawn, an unused one is returned
\* again, a used one is an error.
EnterReturns(p) ==
    /\ Awake(p, "draining") /\ Idle
    /\ \/ lease = NoLease /\ DrawLease
       \/ /\ lease # NoLease \/ "io" \in Faults
          /\ UNCHANGED <<lease, issued>>
    /\ Return(p)
    /\ UNCHANGED <<asleep, closed, journalPending, active, preparing,
                   settlementPending, marker, journal, restoreGate, spent, bounds>>

EnterIfIdle(p) ==
    /\ pc[p] = "maintenance" /\ call[p].kind = "enterIfIdle"
    /\ \/ /\ ~Idle \/ settlementPending \/ closed \/ journalPending \/ marker
             \/ journal \/ "io" \in Faults
          /\ UNCHANGED <<marker, closed, lease, issued, asleep>>
       \/ /\ Idle /\ ~settlementPending /\ ~closed /\ ~journalPending
          /\ ~marker /\ ~journal
          /\ marker' = TRUE /\ closed' = TRUE
          /\ Broadcast
          /\ \/ DrawLease
             \/ "sync" \in Faults /\ lease' = NoLease /\ issued' = issued
    /\ Return(p)
    /\ UNCHANGED <<journalPending, active, preparing, settlementPending, journal,
                   restoreGate, spent, bounds>>

LeaveMaintenance(p) ==
    /\ pc[p] = "maintenance" /\ call[p].kind = "leave"
    /\ \/ /\ ~closed \/ ~Idle \/ settlementPending \/ restoreGate
             \/ "io" \in Faults
          /\ UNCHANGED <<closed, journalPending, lease, marker, asleep>>
       \/ /\ closed /\ Idle /\ ~settlementPending /\ ~restoreGate
          /\ journalPending \/ journal
          /\ journalPending' = TRUE
          /\ UNCHANGED <<closed, lease, marker, asleep>>
       \/ /\ closed /\ Idle /\ ~settlementPending /\ ~restoreGate
          /\ ~journalPending /\ ~journal
          /\ marker' = FALSE /\ lease' = NoLease /\ closed' = FALSE
          /\ Broadcast
          /\ UNCHANGED journalPending
    /\ Return(p)
    /\ UNCHANGED <<active, preparing, settlementPending, issued, journal,
                   restoreGate, spent, bounds>>

\* The process dies and newOperationCoordinator starts from the files alone.
Crash ==
    /\ crashes < MaxCrashes /\ crashes' = crashes + 1
    /\ pc' = [p \in Procs |-> "idle"]
    /\ call' = [p \in Procs |-> NoCall]
    /\ saw' = [p \in Procs |-> NothingSeen]
    /\ cancelled' = [p \in Procs |-> FALSE]
    /\ job' = [p \in Procs |-> "none"]
    /\ asleep' = {}
    /\ closed' = (marker \/ journal \/ restoreGate)
    /\ journalPending' = journal
    /\ active' = Nobody /\ preparing' = Nobody
    /\ settlementPending' = FALSE
    /\ lease' = NoLease
    /\ UNCHANGED <<issued, marker, journal, restoreGate, spent, calls>>

\* Every request is answered: the bounded instances stop here.
Finished == /\ calls = MaxCalls /\ \A p \in Procs : pc[p] = "idle"
            /\ UNCHANGED vars

ServeLifecycle(p) ==
    \/ StatForPrepare(p) \/ PrepareWaits(p) \/ PrepareRefused(p) \/ PreparePublishes(p)
    \/ ReserveJob(p) \/ Reject(p) \/ StatForPromote(p)
    \/ PromoteWaits(p) \/ PromoteRefused(p) \/ PromoteAdmits(p) \/ Complete(p)

ServeDirect(p) ==
    \/ BeginWaits(p) \/ BeginRefused(p) \/ BeginAdmits(p)
    \/ RecoveryWaits(p) \/ RecoveryRefused(p) \/ RecoveryBegins(p)
    \/ ReservePatchJob(p) \/ ClaimLifecycleJob(p)

Work(p) ==
    \/ WriteJournal(p) \/ MarkLifecycleJournalPending(p)
    \/ RemoveJournal(p) \/ ClearLifecycleJournalPending(p)
    \/ MarkSettlementPending(p) \/ Done(p)

ServeMaintenance(p) ==
    \/ EnterCloses(p) \/ EnterWaits(p) \/ EnterReturns(p)
    \/ EnterIfIdle(p) \/ LeaveMaintenance(p)

Serve(p) == ServeLifecycle(p) \/ ServeDirect(p) \/ Work(p) \/ ServeMaintenance(p)

Next ==
    \/ \E p \in Procs :
         \/ \E kind \in Kinds, token \in 0..issued : Request(p, kind, token)
         \/ Serve(p)
         \/ RequestCancel(p)
    \/ LifecycleRecoveryPending
    \/ Crash
    \/ Finished

Spec == Init /\ [][Next]_vars

\* A goroutine that can run is scheduled, and admitted work ends: every wait of
\* a worker has a deadline or ends with its cancelled context.
FairSpec == Spec /\ \A p \in Procs : WF_vars(Serve(p))

-----------------------------------------------------------------------------
(***************************************************************************)
(* Properties.                                                             *)
(***************************************************************************)
TypeOK ==
    /\ pc \in [Procs -> Outside \cup Published \cup Holding]
    /\ call \in [Procs -> [kind : AllKinds \cup {"none"}, token : Nat]]
    /\ saw \in [Procs -> [marker : BOOLEAN, journal : BOOLEAN]]
    /\ cancelled \in [Procs -> BOOLEAN]
    /\ job \in [Procs -> JobStatus]
    /\ asleep \in SUBSET Procs
    /\ {closed, journalPending, settlementPending, marker, journal, restoreGate}
         \subseteq BOOLEAN
    /\ {active, preparing} \subseteq Procs \cup {Nobody}
    /\ lease \in [token : Nat, consumed : BOOLEAN]
    /\ spent \in SUBSET Nat
    /\ {issued, calls, crashes} \subseteq Nat

\* At most one goroutine mutates and at most one prepares, and the coordinator
\* names exactly these: there is no idle gap between preparing and mutating.
OneMutator ==
    \A p \in Procs : /\ pc[p] \in Holding <=> active = p
                     /\ pc[p] \in Published <=> preparing = p

\* The barrier on file, an unsettled result and a journal that nobody works on
\* each keep the coordinator closed.
FailClosed ==
    /\ marker \/ settlementPending => closed
    /\ journal /\ active = Nobody => closed

\* Under the maintenance marker a mutation runs only if it was cancelled,
\* was admitted with a maintenance lease, or is a repair.
BarrierExcludes ==
    \A p \in Procs :
        marker /\ active = p =>
            \/ cancelled[p]
            \/ call[p].kind \in Leased /\ call[p].token \in spent
            \/ call[p].kind = "repair"

Admitted(p) == active # p /\ active' = p

\* No mutation but a repair is admitted over an unfinished journal or after a
\* result could not be settled.
AdmissionFailsClosed ==
    [][\A p \in Procs :
         Admitted(p) /\ call[p].kind # "repair" => ~journal /\ ~settlementPending]_vars

\* A maintenance lease admits at most one mutation, however often the barrier is
\* entered, left and entered again and however requests race for it.
LeaseSingleUse ==
    [][\A p \in Procs :
         Admitted(p) /\ marker /\ call[p].kind # "repair" =>
             call[p].token \notin spent]_vars

\* Every request is answered: no wait on the condition variable is forgotten.
EveryCallReturns == \A p \in Procs : pc[p] # "idle" ~> pc[p] = "idle"

\* "A journal that remains ... repair clears it, and leave cannot reopen"
\* (docs/orchestration-reference.md): the coordinator waits for a repair only
\* while there is a journal for the repair to work on.
RecoveryHasJournal == journalPending /\ Idle => journal

\* "POST /maintenance/enter -> drained" (docs/orchestration-reference.md): the
\* enter that hands out a usable lease leaves the coordinator drained.
EnterReturnsDrained ==
    [][\A p \in Procs :
         pc[p] = "draining" /\ pc'[p] = "idle" /\ lease' # NoLease /\ ~lease'.consumed =>
             State = "drained"]_vars
=============================================================================
