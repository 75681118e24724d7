------------------------ MODULE DurableOperationStore ------------------------
(***************************************************************************)
(* The deployer's durable operation store (deployer/operation_store.go and *)
(* its wrappers in main.go): an in-memory table of operation records       *)
(* mirrored in one JSON file, replaced atomically by temp file, fsync,     *)
(* rename and directory fsync.  Any of these may fail; the process may     *)
(* crash and the host may lose power between any two calls.                *)
(*                                                                         *)
(* The store's callers are left free: any caller may reserve or move any   *)
(* identifier at any time, which covers every interleaving of handlers,    *)
(* workers and repairs.                                                    *)
(*                                                                         *)
(* A definition named XMutant is X with a plausible bug; the checks put it *)
(* in the place of X to see that a property notices.                       *)
(***************************************************************************)
EXTENDS Naturals, FiniteSets

CONSTANTS OpIds,         \* operation identifiers
          Requests,      \* request identities: kind, subject, fingerprint
          MaxEntries,    \* durableOperationMaxEntries
          Retention,     \* durableOperationTerminalRetention, in clock ticks
          NoRecord, NoOp,
          ProbeAllowed,  \* a second deployer process may open the same file
          MaxClock, MaxFaults, MaxRestarts, MaxOutages  \* bounds

ASSUME StoreAssumption ==
    /\ MaxEntries \in Nat \ {0}
    /\ Retention \in Nat \ {0}
    /\ ProbeAllowed \in BOOLEAN
    /\ {MaxClock, MaxFaults, MaxRestarts, MaxOutages} \subseteq Nat
    /\ NoOp \notin OpIds
    /\ IsFiniteSet(OpIds)

VARIABLES
    disk,       \* the records a reader of the file sees
    survivors,  \* the file contents a power loss may leave behind
    journal,    \* the operation the lifecycle journal file names, or NoOp
    phase,      \* of the process: down, opened, retry, serving
    mem,        \* s.operations
    deferred,   \* s.deferredTransitions
    clock,
    reply,      \* what the last call told its caller
    settled,    \* the records a caller was told are settled by a synced write
    faults, restarts, outages  \* counted against the bounds

files == <<disk, survivors>>
bounds == <<restarts, outages>>
vars == <<disk, survivors, journal, phase, mem, deferred, clock, reply,
          settled, faults, restarts, outages>>

-----------------------------------------------------------------------------
Unfinished == {"pending", "running", "recovery_required"}
Terminal == {"succeeded", "failed", "cancelled"}

\* A note stands for the HTTP status and public message stored with a status.
Notes == {"none", "recovery", "success", "rejected", "failure", "cancelled",
          "restart"}

Record == [req : Requests, status : Unfinished \cup Terminal, note : Notes,
           updated : Nat]
Table == [OpIds -> Record \cup {NoRecord}]

ASSUME RecordAssumption == NoRecord \notin Record

\* The status and note pairs the callers pass to Transition.
Outcomes == {<<"running", "none">>, <<"recovery_required", "recovery">>,
             <<"succeeded", "success">>, <<"failed", "rejected">>,
             <<"failed", "failure">>, <<"cancelled", "cancelled">>}

\* The statuses a record is reserved with: fresh work, or the tombstone of a
\* request whose maintenance lease is not valid.
Reservations == {<<"pending", "none">>, <<"cancelled", "cancelled">>}

EmptyTable == [op \in OpIds |-> NoRecord]
Live(table) == {op \in OpIds : table[op] # NoRecord}
IsTerminal(rec) == rec # NoRecord /\ rec.status \in Terminal
IsUnfinished(rec) == rec # NoRecord /\ rec.status \in Unfinished
ExpiredMutant(rec) == rec # NoRecord /\ clock >= rec.updated + Retention
Expired(rec) == IsTerminal(rec) /\ clock >= rec.updated + Retention

Pruned(table) ==
    [op \in OpIds |-> IF Expired(table[op]) THEN NoRecord ELSE table[op]]

Same(rec, outcome) == rec.status = outcome[1] /\ rec.note = outcome[2]

Moved(rec, outcome) ==
    [rec EXCEPT !.status = outcome[1], !.note = outcome[2], !.updated = clock]

\* prune and Reserve's capacity check, which counts what pruning leaves.
TableFullMutant == Cardinality(Live(Pruned(mem))) > MaxEntries
TableFull == Cardinality(Live(Pruned(mem))) >= MaxEntries

\* After a restart the journalled operation waits for repair and every other
\* unfinished one is cancelled.
ReconciledMutant(op, rec) ==
    IF IsUnfinished(rec) /\ op # journal THEN Moved(rec, <<"cancelled", "restart">>)
    ELSE rec
Reconciled(op, rec) ==
    IF ~IsUnfinished(rec) THEN rec
    ELSE IF op = journal THEN Moved(rec, <<"recovery_required", "recovery">>)
    ELSE Moved(rec, <<"cancelled", "restart">>)

Recovered(table) ==
    [op \in OpIds |-> Reconciled(op, Pruned(table)[op])]

-----------------------------------------------------------------------------
Verdicts == {"new", "replayed", "conflict", "full", "unsettled", "error",
             "settled"}
NoReply == [op |-> NoOp, verdict |-> "error", rec |-> NoRecord]
AnswerMutant(o, v, r) == [op |-> o, verdict |-> v]
Answer(o, v, r) == [op |-> o, verdict |-> v, rec |-> r]

Init == /\ disk = EmptyTable
        /\ survivors = {EmptyTable}
        /\ journal = NoOp
        /\ phase = "down"
        /\ mem = EmptyTable
        /\ deferred = EmptyTable
        /\ clock = 0
        /\ reply = NoReply
        /\ settled = EmptyTable
        /\ faults = 0 /\ restarts = 0 /\ outages = 0

(***************************************************************************)
(* One atomic replacement of the file.  It fails before the rename, or the *)
(* rename is visible but the directory fsync reports an error, or both     *)
(* succeed and only the new content can survive a power loss.              *)
(***************************************************************************)
WriteResults == {"failed", "unsynced", "synced"}
CommittedMutant(result) == result = "synced"
Committed(result) == result # "failed"

Fault == faults < MaxFaults /\ faults' = faults + 1

PersistMutant(next, result) ==
    \/ result = "failed" /\ Fault /\ UNCHANGED files
    \/ /\ result # "failed" /\ faults' = faults
       /\ disk' = next /\ survivors' = survivors \cup {next}
Persist(next, result) ==
    \/ result = "failed" /\ Fault /\ UNCHANGED files
    \/ result = "unsynced" /\ Fault
       /\ disk' = next /\ survivors' = survivors \cup {next}
    \/ result = "synced" /\ faults' = faults
       /\ disk' = next /\ survivors' = {next}

\* persistAndInstallLocked: memory follows the file exactly.
PersistAndInstallMutant(next, result) == Persist(next, result) /\ mem' = next
PersistAndInstall(next, result) ==
    /\ Persist(next, result)
    /\ mem' = IF Committed(result) THEN next ELSE mem

\* A transition is deferred while its write fails and forgotten once it is visible.
Defer(op, rec, result) ==
    deferred' = [deferred EXCEPT ![op] = IF Committed(result) THEN NoRecord ELSE rec]

-----------------------------------------------------------------------------
(***************************************************************************)
(* Start-up: loadConfig opens the store, prunes it, and reconciles         *)
(* unfinished records, once more if the first attempt reports an error.    *)
(* A process that cannot finish exits, and its container is restarted.     *)
(***************************************************************************)
Open(result) ==
    /\ phase = "down"
    /\ Cardinality(Live(disk)) <= MaxEntries
    /\ IF Pruned(disk) = disk
         THEN result = "synced" /\ phase' = "opened" /\ mem' = disk
              /\ UNCHANGED <<files, faults>>
         ELSE /\ Persist(Pruned(disk), result)
              /\ phase' = IF result = "synced" THEN "opened" ELSE "down"
              /\ mem' = IF result = "synced" THEN Pruned(disk) ELSE mem
    /\ reply' = NoReply
    /\ UNCHANGED <<journal, deferred, clock, settled, bounds>>

Changed == Pruned(mem) # mem \/ \E op \in OpIds : IsUnfinished(mem[op])

AfterRecover(result) == CASE result = "synced" -> "serving"
                          [] phase = "opened"  -> "retry"
                          [] OTHER             -> "down"

Recover(result) ==
    /\ phase \in {"opened", "retry"}
    /\ IF Changed
         THEN /\ Persist(Recovered(mem), result)
              /\ phase' = AfterRecover(result)
              /\ mem' = IF AfterRecover(result) = "down" THEN EmptyTable
                        ELSE IF Committed(result) THEN Recovered(mem) ELSE mem
         ELSE result = "synced" /\ phase' = "serving" /\ UNCHANGED <<files, faults, mem>>
    /\ reply' = NoReply
    /\ UNCHANGED <<journal, deferred, clock, settled, bounds>>

-----------------------------------------------------------------------------
(***************************************************************************)
(* Reserve, seen through reserveDurableLifecycleOperation, which takes a   *)
(* visible record of the same request as the reservation it asked for even *)
(* when the write reported an error.                                       *)
(***************************************************************************)
ReserveExisting(op, req) ==
    /\ phase = "serving"
    /\ mem[op] # NoRecord
    /\ mem[op].req = req => deferred[op] = NoRecord
    /\ reply' = IF mem[op].req = req THEN Answer(op, "replayed", mem[op])
                                     ELSE Answer(op, "conflict", NoRecord)
    /\ UNCHANGED <<files, journal, phase, mem, deferred, clock, settled,
                   faults, bounds>>

\* An identical retry first tries to write the transition that is deferred.
ReserveFlushesDeferred(op, req, result) ==
    /\ phase = "serving"
    /\ mem[op] # NoRecord /\ mem[op].req = req
    /\ deferred[op] # NoRecord
    /\ PersistAndInstall([mem EXCEPT ![op] = deferred[op]], result)
    /\ Defer(op, deferred[op], result)
    /\ reply' = IF Committed(result) THEN Answer(op, "replayed", deferred[op])
                                     ELSE Answer(op, "unsettled", mem[op])
    /\ settled' = IF result = "synced" /\ IsTerminal(deferred[op])
                    THEN [settled EXCEPT ![op] = deferred[op]] ELSE settled
    /\ UNCHANGED <<journal, phase, clock, bounds>>

Reserve(op, req, outcome, result) ==
    LET rec == [req |-> req, status |-> outcome[1], note |-> outcome[2],
                updated |-> clock]
        next == [Pruned(mem) EXCEPT ![op] = rec]
    IN /\ phase = "serving"
       /\ mem[op] = NoRecord
       /\ IF TableFull
            THEN /\ result = "synced"
                 /\ reply' = Answer(op, "full", NoRecord)
                 /\ UNCHANGED <<files, mem, settled, faults>>
            ELSE /\ PersistAndInstall(next, result)
                 /\ reply' = IF Committed(result) THEN Answer(op, "new", rec)
                                                  ELSE Answer(op, "error", NoRecord)
                 /\ settled' = [settled EXCEPT ![op] =
                                  IF result = "synced" /\ IsTerminal(rec)
                                    THEN rec ELSE NoRecord]
       /\ UNCHANGED <<journal, phase, deferred, clock, bounds>>

(***************************************************************************)
(* Transition, seen through transitionDurableLifecycleOperation, which     *)
(* takes the exact state found in memory as a confirmed transition even    *)
(* when the write reported an error.                                       *)
(***************************************************************************)
TransitionFinished(op, outcome) ==
    /\ phase = "serving"
    /\ ~IsUnfinished(mem[op])
    /\ reply' = IF IsTerminal(mem[op]) /\ Same(mem[op], outcome)
                  THEN Answer(op, "settled", mem[op])
                  ELSE Answer(op, "error", NoRecord)
    /\ UNCHANGED <<files, journal, phase, mem, deferred, clock, settled,
                   faults, bounds>>

Transition(op, outcome, result) ==
    LET rec == Moved(mem[op], outcome)
        confirmed == Committed(result) \/ Same(mem[op], outcome)
    IN /\ phase = "serving"
       /\ IsUnfinished(mem[op])
       /\ PersistAndInstall([Pruned(mem) EXCEPT ![op] = rec], result)
       /\ Defer(op, rec, result)
       /\ reply' = IF confirmed THEN Answer(op, "settled", mem'[op])
                                ELSE Answer(op, "error", NoRecord)
       /\ settled' = IF result = "synced" /\ IsTerminal(rec)
                       THEN [settled EXCEPT ![op] = rec] ELSE settled
       /\ UNCHANGED <<journal, phase, clock, bounds>>

-----------------------------------------------------------------------------
(***************************************************************************)
(* The surroundings: the lifecycle journal, time, crashes, and the         *)
(* registry checks that run the same start-up code in a second process.    *)
(***************************************************************************)
JournalStep == /\ disk' = disk /\ survivors' = {disk} /\ reply' = NoReply
               /\ UNCHANGED <<phase, mem, deferred, clock, settled, faults, bounds>>

\* The journal and the store share a directory, so the directory fsync of a
\* journal write or removal also makes an earlier rename of the store durable.
WriteJournal(op) ==
    /\ phase = "serving" /\ journal = NoOp
    /\ mem[op] # NoRecord /\ mem[op].status = "running"
    /\ journal' = op
    /\ JournalStep

\* A worker or a repair clears the journal after the operation's success is on
\* file, after it was cancelled, or when creation wrote nothing yet.
ClearJournal ==
    /\ phase = "serving" /\ journal # NoOp
    /\ mem[journal] # NoRecord
    /\ mem[journal].status \in {"running", "succeeded", "cancelled"}
    /\ journal' = NoOp
    /\ JournalStep

Tick == /\ clock < MaxClock
        /\ clock' = clock + 1 /\ reply' = NoReply
        /\ UNCHANGED <<files, journal, phase, mem, deferred, settled, faults, bounds>>

ProcessStops == /\ phase' = "down"
                /\ mem' = EmptyTable /\ deferred' = EmptyTable
                /\ reply' = NoReply
                /\ UNCHANGED <<journal, clock, settled, faults>>

Crash == /\ phase # "down" /\ restarts < MaxRestarts
         /\ restarts' = restarts + 1
         /\ ProcessStops
         /\ UNCHANGED <<files, outages>>

PowerLoss == /\ outages < MaxOutages
             /\ outages' = outages + 1
             /\ \E left \in survivors : disk' = left /\ survivors' = {left}
             /\ ProcessStops
             /\ UNCHANGED restarts

Probe == /\ ProbeAllowed /\ phase = "serving"
         /\ Cardinality(Live(disk)) <= MaxEntries
         /\ Recovered(disk) # disk
         /\ Persist(Recovered(disk), "synced")
         /\ reply' = NoReply
         /\ UNCHANGED <<journal, phase, mem, deferred, clock, settled, bounds>>

Next ==
    \/ \E result \in WriteResults : Open(result) \/ Recover(result)
    \/ \E op \in OpIds, req \in Requests :
         \/ ReserveExisting(op, req)
         \/ \E result \in WriteResults : ReserveFlushesDeferred(op, req, result)
         \/ \E outcome \in Reservations, result \in WriteResults :
              Reserve(op, req, outcome, result)
    \/ \E op \in OpIds, outcome \in Outcomes :
         \/ TransitionFinished(op, outcome)
         \/ \E result \in WriteResults : Transition(op, outcome, result)
    \/ \E op \in OpIds : WriteJournal(op)
    \/ ClearJournal
    \/ Tick
    \/ Crash
    \/ PowerLoss
    \/ Probe

Spec == Init /\ [][Next]_vars

\* The container is restarted until its start-up succeeds.
FairSpec == Spec /\ WF_vars(\E result \in WriteResults : Open(result) \/ Recover(result))

-----------------------------------------------------------------------------
(***************************************************************************)
(* Properties.                                                             *)
(***************************************************************************)
TypeOK ==
    /\ disk \in Table
    /\ survivors \in SUBSET Table
    /\ journal \in OpIds \cup {NoOp}
    /\ phase \in {"down", "opened", "retry", "serving"}
    /\ mem \in Table
    /\ deferred \in Table
    /\ clock \in Nat
    /\ reply \in [op : OpIds \cup {NoOp}, verdict : Verdicts, rec : Record \cup {NoRecord}]
    /\ settled \in Table
    /\ {faults, restarts, outages} \subseteq Nat

\* Every answer is given from memory and every restart reads the file: while the
\* process serves, the two are the same table, whatever writes failed before.
MirrorsFile == phase = "serving" => mem = disk

\* A deferred transition only ever waits for an unfinished record of the same
\* request, so the retry that flushes it cannot overwrite a terminal result.
DeferredIsUnfinished ==
    \A op \in OpIds :
        deferred[op] # NoRecord =>
            /\ IsUnfinished(mem[op])
            /\ deferred[op].req = mem[op].req

\* What a caller is told of a reservation, a replay or a transition is what a
\* process started on the same file would read.
AnswersMatchFile ==
    reply.verdict \in {"new", "replayed", "settled"} => reply.rec = disk[reply.op]

\* A terminal result confirmed by a complete write survives every crash and
\* power loss unchanged until its retention has passed.
SettledSurvives ==
    \A op \in OpIds :
        settled[op] # NoRecord =>
            \A left \in survivors \cup {disk} :
                \/ left[op] = settled[op]
                \/ left[op] = NoRecord /\ Expired(settled[op])

\* Start-up rejects a file with too many records; the store never leaves one.
NextBootAccepts ==
    \A left \in survivors \cup {disk} : Cardinality(Live(left)) <= MaxEntries

\* When start-up completes no operation is left pending or running: the
\* journalled one waits for repair and no other is unfinished, even when the
\* first reconciliation reported an error.
BootReconciles ==
    [][phase # "serving" /\ phase' = "serving" =>
         \A op \in OpIds : IsUnfinished(mem'[op]) =>
             op = journal /\ mem'[op].status = "recovery_required"]_vars

\* With finitely many faults a stopped process always serves again.
ServesAgain == phase = "down" ~> phase = "serving"

\* "A success record and a journal that remain together after a crash: repair
\* re-checks the postcondition and clears the journal"
\* (docs/orchestration-reference.md): repair identifies the operation by the
\* record the journal names, so start-up leaves that record in place.
JournalLinkResolves ==
    [][phase # "serving" /\ phase' = "serving" /\ journal # NoOp =>
         mem'[journal] # NoRecord]_vars

\* Start-up cancels unfinished work "because no durable mutation boundary was
\* crossed": journalled work is never recorded as interrupted by a restart.
JournalledWorkNotInterrupted ==
    journal # NoOp => disk[journal] = NoRecord \/ disk[journal].note # "restart"

\* The store implements the operation ledger: from the empty one on, every step
\* is a step of the ledger, except a power loss itself, which may reveal a file
\* whose directory was never synced.
Ledger == INSTANCE OperationLedger WITH ledger <- disk, now <- clock
LedgerSpec == Ledger!LedgerInit
              /\ [][outages' = outages => Ledger!LedgerNext]_<<disk, clock>>
=============================================================================
