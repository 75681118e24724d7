---------------------------- MODULE ServerLifecycle ----------------------------
(***************************************************************************)
(* The life of one game server under the deployer: the handlers that admit *)
(* a create, close, reset, deploy or env patch, the workers that carry it  *)
(* out under the lifecycle journal, the repair that redoes or verifies     *)
(* what a journal names, the durable record and the in-memory job of each  *)
(* operation, and restarts of the process.                                 *)
(*                                                                         *)
(* Admission is OperationCoordinator's and the record file is              *)
(* DurableOperationStore's subject; here both are reduced to what they     *)
(* guarantee to their callers, and the work itself is in full.  A server's *)
(* env file is one value: its identity, image tags and seed settings.      *)
(***************************************************************************)
EXTENDS Naturals, Sequences, FiniteSets

CONSTANTS
    Envs,       \* contents a server env file may have
    None,       \* no env file, registry entry, containers or volumes
    Ops,        \* operation identifiers
    NoOp,       \* a request without an operation identifier
    Calls,      \* the requests that may arrive
    StartEnvs,  \* the servers that may exist from the start, or None
    NoJournal, NoWork,
    MaxCalls, MaxFaults, MaxCancels, MaxCrashes  \* bounds

Kinds == {"create", "close", "reset", "deploy", "patch"}
LinkedKinds == {"create", "close", "reset"}
Call == [op : Ops \cup {NoOp}, kind : Kinds, target : Envs \cup {None}]

Unfinished == {"pending", "running", "recovery_required"}
Terminal == {"succeeded", "failed", "cancelled"}
Statuses == Unfinished \cup Terminal \cup {"none"}

\* What a program is made of: steps on the journal and the record, and steps on
\* the server.
OwnSteps == {"journal", "stageEnv", "stageRegistry", "stageDown", "clear",
             "succeed", "cancel"}
Steps == OwnSteps \cup
    {"validate", "absent", "notCancelled", "pull", "createEnv", "writeEnv", "removeEnv",
     "upsertEntry", "sync", "reconcile", "removeEntry", "requireRepair", "clearRepair",
     "entryPresent", "down", "up", "upAnyway", "upStateless", "reload", "created", "closed",
     "targetReached", "verifyRuntime", "verifyShared"}

\* A server's entry in the registry.
Entry == [env : Envs, repair : BOOLEAN]

\* The journal file, a request being prepared, and who holds the active lease.
Journal == [op : Ops \cup {NoOp}, kind : Kinds, target : Envs \cup {None},
            stage : {"prepared", "env-updated", "registry-synced", "down-pending"}]
Preparation == [call : Calls, phase : {"record", "job", "promote"}, cancelled : BOOLEAN]
Mutation == [who : {"worker", "caller", "repair", "settler"}, call : Calls,
             phase : {"start", "reject", "run", "settle", "finish"},
             prog : Seq(Steps), at : Nat \ {0}, cancelled : BOOLEAN, err : BOOLEAN,
             result : Statuses]

ASSUME LifecycleAssumption ==
    /\ None \notin Envs \cup Entry /\ NoOp \notin Ops
    /\ NoJournal \notin Journal \cup Calls /\ NoWork \notin Preparation \cup Mutation
    /\ StartEnvs \subseteq Envs \cup {None}
    /\ Calls \subseteq Call
    /\ \A c \in Calls : /\ (c.target = None) = (c.kind = "close")
                        /\ c.op # NoOp => c.kind \in LinkedKinds
    /\ \A c, d \in Calls : c.op = d.op /\ c.op # NoOp => c = d
    /\ {MaxCalls, MaxFaults, MaxCancels, MaxCrashes} \subseteq Nat

VARIABLES
    world,      \* env file, registry entry, containers, volumes, and the entry
                \* the shared services have loaded
    journal,    \* the lifecycle journal file
    latched,    \* the coordinator's journalPending
    pinned,     \* the coordinator's preparationSettlementPending
    record,     \* the durable status of each operation
    deferred,   \* the status a failed write of a record left to be retried
    job,        \* the status of each operation's in-memory job
    prep,       \* the request being prepared
    work,       \* the mutation or repair that holds the active lease
    before,     \* history: the world when the journal was written
    touched,    \* history: the operations that changed the world
    calls, faults, cancels, crashes  \* counted against the bounds

books == <<record, deferred>>
gate == <<latched, pinned>>
history == <<before, touched>>
counts == <<calls, faults, cancels, crashes>>
vars == <<world, journal, latched, pinned, record, deferred, job, prep, work,
          before, touched, calls, faults, cancels, crashes>>

-----------------------------------------------------------------------------
(***************************************************************************)
(* The world, and what each step of a program does to it.                  *)
(***************************************************************************)
World == [env : Envs \cup {None}, entry : Entry \cup {None},
          stack : Envs \cup {None}, data : Envs \cup {None},
          shared : Entry \cup {None}]

Synced(w) == [w EXCEPT !.entry =
                [env |-> w.env, repair |-> w.entry # None /\ w.entry.repair]]
SetRepair(w, flag) == [w EXCEPT !.entry.repair = flag]

\* The world after a step has done all it should.
After(step, target, w) ==
    CASE step \in {"createEnv", "writeEnv"} -> [w EXCEPT !.env = target]
      [] step = "removeEnv"    -> [w EXCEPT !.env = None]
      [] step = "upsertEntry"  -> [w EXCEPT !.entry = [env |-> target, repair |-> FALSE]]
      [] step \in {"sync", "reconcile"} -> Synced(w)
      [] step = "removeEntry"  -> [w EXCEPT !.entry = None]
      [] step = "requireRepair" -> SetRepair(w, TRUE)
      [] step = "clearRepair"  -> SetRepair(w, FALSE)
      [] step = "down"         -> [w EXCEPT !.stack = None, !.data = None]
      [] step \in {"up", "upAnyway"} ->
            [w EXCEPT !.stack = w.env, !.data = IF w.data = None THEN w.env ELSE w.data]
      [] step = "upStateless"  -> [w EXCEPT !.stack = w.env]
      [] step = "reload"       -> [w EXCEPT !.shared = w.entry]
      [] OTHER -> w

\* What a step that reports an error, or that a crash cuts short, may leave:
\* a Docker command any part of its work, a file write with a directory sync
\* nothing or all of it, another file write nothing.
Leaves(step, target, w) ==
    CASE step = "down" -> {w, [w EXCEPT !.stack = None], After(step, target, w)}
      [] step \in {"up", "upAnyway"} ->
            {w, [w EXCEPT !.stack = w.env], After(step, target, w)}
      [] step \in {"upStateless", "reload", "requireRepair", "clearRepair"} ->
            {w, After(step, target, w)}
      [] OTHER -> {w}

\* The states a step accepts.
Accepts(step, target, w) ==
    CASE step \in {"validate", "down", "up", "upAnyway", "upStateless", "sync",
                   "reconcile"} -> w.env # None
      [] step \in {"requireRepair", "clearRepair", "entryPresent"} -> w.entry # None
      [] step = "absent"        -> w.env = None
      [] step = "created"       -> w.env # None /\ w.entry # None
      [] step = "closed"        -> w.env = None /\ w.entry = None
      [] step = "targetReached" -> w.env = target
      [] step = "verifyRuntime" -> w.env # None /\ w.stack = w.env /\ w.data = w.env
      [] step = "verifyShared"  -> w.env # None /\ w.entry = [env |-> w.env, repair |-> FALSE]
      [] OTHER -> TRUE

\* Docker commands and probes are killed with their context, and workers look
\* at it between steps.
Cancellable == {"notCancelled", "pull", "down", "up", "upAnyway", "upStateless", "reload",
                "verifyRuntime", "verifyShared"}

-----------------------------------------------------------------------------
(***************************************************************************)
(* The programs: what each handler or worker does, in the order of its     *)
(* source.  "journal", "stage ...", "clear", "succeed" and "cancel" are    *)
(* steps of their own below; every other step acts on the world alone.     *)
(***************************************************************************)
CreateProgram ==
    <<"notCancelled", "absent", "notCancelled", "journal", "createEnv", "notCancelled",
      "upsertEntry", "upAnyway", "reload">>
CloseProgramMutant ==
    <<"journal", "stageDown", "removeEnv", "removeEntry", "reload">>
CloseProgram ==
    <<"journal", "stageDown", "down", "notCancelled", "removeEnv", "notCancelled",
      "removeEntry", "notCancelled", "reload">>
ResetProgram ==
    <<"notCancelled", "validate", "pull", "journal", "writeEnv", "stageEnv", "sync",
      "stageRegistry", "entryPresent", "notCancelled", "stageDown", "down",
      "notCancelled", "up", "verifyRuntime", "reconcile", "clearRepair", "reload",
      "verifyShared">>
DeployProgram ==
    <<"validate", "pull", "notCancelled", "journal", "writeEnv", "upStateless", "clear">>
PatchProgram ==
    <<"notCancelled", "journal", "writeEnv", "stageEnv", "notCancelled", "sync",
      "stageRegistry", "reconcile", "reload", "clear">>
\* A patch that leaves the registry entry as it is needs no journal.
QuietPatchProgram == <<"notCancelled", "writeEnv", "notCancelled", "sync">>

\* serverEnvPatchChangesRegistry
ChangesRegistry(target) == world.entry = None \/ world.entry.env # target

Program(kind, target) ==
    CASE kind = "create" -> CreateProgram
      [] kind = "close"  -> CloseProgram
      [] kind = "reset"  -> ResetProgram
      [] kind = "deploy" -> DeployProgram
      [] kind = "patch"  -> IF ChangesRegistry(target) THEN PatchProgram
                            ELSE QuietPatchProgram

\* A repair after the operation's success is on record only verifies.
VerifyProgramMutant(kind) == <<"clear">>
VerifyProgram(kind) ==
    CASE kind = "create" -> <<"created", "clear">>
      [] kind = "close"  -> <<"closed", "clear">>
      [] kind = "reset"  -> <<"targetReached", "verifyRuntime", "reconcile", "clearRepair",
                              "verifyShared", "clear">>

RedoCreateMutant ==
    (IF world.entry = None THEN <<"validate", "sync">> ELSE <<"validate">>)
    \o <<"up", "reload", "succeed", "clear">>
RedoCreate ==
    IF world.env = None /\ world.entry = None THEN <<"cancel", "clear">>
    ELSE (IF world.entry = None THEN <<"validate", "sync">> ELSE <<"validate">>)
         \o <<"up", "reload", "succeed", "clear">>
RedoReset ==
    <<"validate", "pull", "writeEnv">>
    \o (IF journal.stage = "prepared" THEN <<"stageEnv">> ELSE <<"validate">>)
    \o <<"reconcile", "requireRepair", "stageDown", "down", "up", "verifyRuntime",
         "reconcile", "clearRepair", "reload", "verifyShared", "succeed", "clear">>
RedoCloseMutant ==
    (IF world.env = None THEN <<>> ELSE <<"validate", "removeEnv">>)
    \o <<"removeEntry", "reload", "succeed", "clear">>
RedoClose ==
    (IF world.env = None THEN <<>> ELSE <<"validate", "down", "removeEnv">>)
    \o <<"removeEntry", "reload", "succeed", "clear">>

RedoProgram(kind) ==
    CASE kind = "create" -> RedoCreate
      [] kind = "close"  -> RedoClose
      [] kind = "reset"  -> RedoReset
      [] kind = "deploy" -> <<"validate", "upStateless", "clear">>
      [] kind = "patch"  -> <<"validate", "reconcile", "reload", "clear">>

-----------------------------------------------------------------------------
Fault == faults < MaxFaults /\ faults' = faults + 1

(***************************************************************************)
(* transitionDurableLifecycleOperation.  A failed write is remembered, and *)
(* is no failure to the caller when the record already says the same.      *)
(***************************************************************************)
Transition(op, status, ok) ==
    \/ op = NoOp /\ ok /\ UNCHANGED <<books, faults>>
    \/ /\ op # NoOp /\ record[op] \in Terminal
       /\ ok = (record[op] = status) /\ UNCHANGED <<books, faults>>
    \/ /\ op # NoOp /\ record[op] \in Unfinished
       /\ ok /\ record' = [record EXCEPT ![op] = status]
       /\ deferred' = [deferred EXCEPT ![op] = "none"]
       /\ faults' = faults
    \/ /\ op # NoOp /\ record[op] \in Unfinished
       /\ ok = (record[op] = status) /\ Fault
       /\ deferred' = [deferred EXCEPT ![op] = status]
       /\ record' = record

SetJob(op, status) == job' = IF op = NoOp THEN job ELSE [job EXCEPT ![op] = status]

\* finishWithPublicMessage: a job whose cancellation was asked for ends so.
FinishedJobMutant(status, cancelled) == IF cancelled THEN "cancelled" ELSE status
FinishedJob(status, cancelled) ==
    IF cancelled /\ status # "recovery_required" THEN "cancelled" ELSE status

\* clearLifecycleJournal, which may remove the file and fail to sync its directory.
Clear(ok) ==
    \/ /\ ok /\ journal' = NoJournal /\ before' = None
       /\ latched' = FALSE /\ faults' = faults
    \/ /\ ~ok /\ Fault /\ latched' = latched
       /\ \/ journal' = journal /\ before' = before
          \/ journal' = NoJournal /\ before' = None

EmptyWorld == [env |-> None, entry |-> None, stack |-> None, data |-> None,
               shared |-> None]
RunningWorld(e) ==
    LET entry == [env |-> e, repair |-> FALSE]
    IN [env |-> e, entry |-> entry, stack |-> e, data |-> e, shared |-> entry]

Init == /\ \E e \in StartEnvs :
             world = IF e = None THEN EmptyWorld ELSE RunningWorld(e)
        /\ journal = NoJournal /\ latched = FALSE /\ pinned = FALSE
        /\ record = [op \in Ops |-> "none"]
        /\ deferred = [op \in Ops |-> "none"]
        /\ job = [op \in Ops |-> "none"]
        /\ prep = NoWork /\ work = NoWork
        /\ before = None /\ touched = {}
        /\ calls = 0 /\ faults = 0 /\ cancels = 0 /\ crashes = 0

-----------------------------------------------------------------------------
(***************************************************************************)
(* Admission and preparation.  One request may be prepared while another   *)
(* one is being worked on.                                                 *)
(***************************************************************************)
JournalCloses == work = NoWork /\ (latched \/ journal # NoJournal)

CountCall == calls < MaxCalls /\ calls' = calls + 1

\* A reset looks at the server before it asks for admission.
Prepare(c) ==
    /\ c.kind \in LinkedKinds
    /\ prep = NoWork /\ ~pinned /\ ~JournalCloses
    /\ c.op # NoOp => record[c.op] = "none"
    /\ c.kind = "reset" => world.env # None /\ world.entry # None
    /\ CountCall
    /\ prep' = [call |-> c, phase |-> IF c.op = NoOp THEN "job" ELSE "record",
                cancelled |-> FALSE]
    /\ UNCHANGED <<world, journal, gate, books, job, work, history, faults,
                   cancels, crashes>>

ReserveRecord(ok) ==
    /\ prep # NoWork /\ prep.phase = "record"
    /\ IF ok THEN /\ record' = [record EXCEPT ![prep.call.op] = "pending"]
                  /\ prep' = [prep EXCEPT !.phase = "job"]
                  /\ faults' = faults
             ELSE Fault /\ prep' = NoWork /\ UNCHANGED record
    /\ UNCHANGED <<world, journal, gate, deferred, job, work, history, calls,
                   cancels, crashes>>

Acceptable(c) ==
    CASE c.kind = "create" -> world.env = None
      [] c.kind = "close"  -> world.env # None /\ world.entry # None
      [] OTHER -> TRUE

ReserveJob ==
    /\ prep # NoWork /\ prep.phase = "job" /\ Acceptable(prep.call)
    /\ SetJob(prep.call.op, "pending")
    /\ prep' = [prep EXCEPT !.phase = "promote"]
    /\ UNCHANGED <<world, journal, gate, books, work, history, counts>>

\* Any check of the handler may refuse the request: ports, confirmation, capacity.
RejectMutant(ok) ==
    /\ prep # NoWork /\ prep.phase = "job"
    /\ Transition(prep.call.op, "failed", ok)
    /\ prep' = NoWork /\ pinned' = pinned
    /\ UNCHANGED <<world, journal, latched, job, work, history, calls, cancels, crashes>>
Reject(ok) ==
    /\ prep # NoWork /\ prep.phase = "job"
    /\ Transition(prep.call.op, "failed", ok)
    /\ prep' = NoWork /\ pinned' = (pinned \/ ~ok)
    /\ UNCHANGED <<world, journal, latched, job, work, history, calls, cancels, crashes>>

JobPending(op) == op # NoOp => job[op] = "pending"

\* promote: the job is claimed together with the active lease.
Promote ==
    /\ prep # NoWork /\ prep.phase = "promote"
    /\ work = NoWork /\ ~prep.cancelled /\ ~pinned /\ ~JournalCloses
    /\ JobPending(prep.call.op)
    /\ SetJob(prep.call.op, "running")
    /\ prep' = NoWork
    /\ work' = [who |-> "worker", call |-> prep.call, phase |-> "start",
                prog |-> <<>>, at |-> 1, cancelled |-> FALSE, err |-> FALSE,
                result |-> "none"]
    /\ UNCHANGED <<world, journal, gate, books, history, counts>>

\* beginPreparedLifecycle returns an error: the record is cancelled, or if that
\* fails the rejection is recorded instead and admission stays closed.
PromoteRefused(ok) ==
    /\ prep # NoWork /\ prep.phase = "promote"
    /\ \/ prep.cancelled \/ pinned \/ JournalCloses
       \/ ~JobPending(prep.call.op)
    /\ \/ Transition(prep.call.op, "cancelled", ok)
       \/ ~ok /\ Fault /\ prep.call.op # NoOp
          /\ record' = [record EXCEPT ![prep.call.op] = "failed"]
          /\ deferred' = [deferred EXCEPT ![prep.call.op] = "none"]
    /\ pinned' = (pinned \/ ~ok)
    /\ SetJob(prep.call.op,
              IF ~JobPending(prep.call.op) /\ prep.call.kind = "create"
                THEN "cancelled" ELSE "none")
    /\ prep' = NoWork
    /\ UNCHANGED <<world, journal, latched, work, history, calls, cancels, crashes>>

\* A close looks at the server a second time, after it waited for the lease.
StaleMutant(c) == FALSE
Stale(c) == c.kind = "close" /\ ~Acceptable(c)

\* startClaimedDurableLifecycleJob, after that second look.
Start(ok) ==
    LET op == work.call.op
        stale == Stale(work.call)
    IN /\ work # NoWork /\ work.phase = "start"
       /\ IF stale
            THEN ok /\ SetJob(op, "none") /\ UNCHANGED <<books, faults>>
            ELSE /\ Transition(op, "running", ok)
                 /\ IF ok THEN job' = job
                          ELSE SetJob(op, FinishedJob("failed", work.cancelled))
       /\ work' = IF ok /\ ~stale
                    THEN [work EXCEPT !.phase = "run",
                            !.prog = Program(work.call.kind, work.call.target)]
                    ELSE [work EXCEPT !.phase = "reject"]
       /\ UNCHANGED <<world, journal, gate, prep, history, calls, cancels, crashes>>

\* settleRejectedDurableLifecycleOperation, by the handler that still owns the lease.
RejectStarted(ok) ==
    /\ work # NoWork /\ work.phase = "reject"
    /\ Transition(work.call.op, "failed", ok)
    /\ pinned' = (pinned \/ ~ok)
    /\ work' = NoWork
    /\ UNCHANGED <<world, journal, latched, job, prep, history, calls, cancels, crashes>>

\* Deploy and env patch take the active lease directly and answer their caller.
Begin(c) ==
    /\ c.kind \in {"deploy", "patch"}
    /\ work = NoWork /\ prep = NoWork /\ ~pinned /\ ~JournalCloses
    /\ world.env # None
    /\ CountCall
    /\ work' = [who |-> "caller", call |-> c, phase |-> "run",
                prog |-> Program(c.kind, c.target), at |-> 1, cancelled |-> FALSE,
                err |-> FALSE, result |-> "none"]
    /\ UNCHANGED <<world, journal, gate, books, job, prep, history, faults,
                   cancels, crashes>>

-----------------------------------------------------------------------------
(***************************************************************************)
(* Running a program.                                                      *)
(***************************************************************************)
Running == work # NoWork /\ work.phase = "run" /\ work.at <= Len(work.prog)
Ended == work # NoWork /\ work.phase = "run" /\ work.at > Len(work.prog)
Step == work.prog[work.at]

Advance == work' = [work EXCEPT !.at = @ + 1]
\* A failed start of containers still reloads the shared services first.
Fail == work' = [work EXCEPT !.err = TRUE,
                   !.at = IF Step = "upAnyway" THEN @ + 1 ELSE Len(work.prog) + 1]

\* failAfterIrreversible and markResetRepairRequired: from a worker's down, or a
\* repair's advance to it, every failure of a reset marks the server.
PastBoundary ==
    /\ work.call.kind = "reset" /\ work.who \in {"worker", "repair"}
    /\ \E i \in 1..work.at : work.prog[i] = IF work.who = "worker" THEN "down"
                                                                   ELSE "stageDown"

Marked(w) == IF PastBoundary /\ w.entry # None THEN SetRepair(w, TRUE) ELSE w

Touch == touched' = IF world' # world /\ work.call.op # NoOp
                      THEN touched \cup {work.call.op} ELSE touched

\* A success record reached during a verification is not a cancellable probe.
Interrupted == work.cancelled /\ Step \in Cancellable /\ work.who # "settler"

StepDone ==
    /\ Running /\ Step \notin OwnSteps
    /\ ~Interrupted /\ Accepts(Step, work.call.target, world)
    /\ world' = After(Step, work.call.target, world)
    /\ Advance
    /\ Touch
    /\ UNCHANGED <<journal, gate, books, job, prep, before, counts>>

StepRefused ==
    /\ Running /\ Step \notin OwnSteps
    /\ Interrupted \/ ~Accepts(Step, work.call.target, world)
    /\ \/ world' = Marked(world) /\ faults' = faults
       \/ PastBoundary /\ world' = world /\ Fault
    /\ Fail
    /\ Touch
    /\ UNCHANGED <<journal, gate, books, job, prep, before, calls, cancels, crashes>>

StepFails ==
    /\ Running /\ Step \notin OwnSteps /\ Step # "createEnv"
    /\ Accepts(Step, work.call.target, world)
    /\ Fault
    /\ \E w \in Leaves(Step, work.call.target, world) : world' \in {w, Marked(w)}
    /\ Fail
    /\ Touch
    /\ UNCHANGED <<journal, gate, books, job, prep, before, calls, cancels, crashes>>

\* A create whose env file cannot be written withdraws its journal, if it can.
CreateEnvFails ==
    /\ Running /\ Step = "createEnv"
    /\ \/ Fault /\ journal' = NoJournal /\ before' = None /\ latched' = FALSE
       \/ Clear(FALSE)
    /\ Fail
    /\ UNCHANGED <<world, pinned, books, job, prep, touched, calls, cancels, crashes>>

WriteJournal(ok) ==
    LET new == [op |-> work.call.op, kind |-> work.call.kind,
                target |-> work.call.target, stage |-> "prepared"]
    IN /\ Running /\ Step = "journal" /\ journal = NoJournal
       /\ \/ ok /\ journal' = new /\ latched' = TRUE /\ faults' = faults
          \/ ~ok /\ Fault /\ journal' \in {NoJournal, new} /\ latched' = latched
       /\ before' = IF journal' = NoJournal THEN None ELSE world
       /\ IF ok THEN Advance ELSE Fail
       /\ UNCHANGED <<world, pinned, books, job, prep, touched, calls, cancels, crashes>>

StageOfMutant(step) == CASE step = "stageEnv" -> "env-updated"
                         [] step = "stageRegistry" -> "registry-synced"
                         [] step = "stageDown" -> "down"
StageOf(step) == CASE step = "stageEnv" -> "env-updated"
                   [] step = "stageRegistry" -> "registry-synced"
                   [] step = "stageDown" -> "down-pending"

\* advanceLifecycleJournal
AdvanceJournal(ok) ==
    /\ Running /\ Step \in {"stageEnv", "stageRegistry", "stageDown"}
    /\ journal # NoJournal
    /\ LET new == [journal EXCEPT !.stage = StageOf(Step)]
       IN IF ok THEN /\ journal' = new /\ latched' = TRUE
                     /\ world' = world /\ faults' = faults
                     /\ Advance
                ELSE /\ journal' \in {journal, new} /\ latched' = latched
                     /\ world' \in {world, Marked(world)} /\ Fault
                     /\ Fail
    /\ Touch
    /\ UNCHANGED <<pinned, books, job, prep, before, calls, cancels, crashes>>

ClearStep(ok) ==
    /\ Running /\ Step = "clear"
    /\ Clear(ok)
    /\ IF ok THEN Advance ELSE Fail
    /\ UNCHANGED <<world, pinned, books, job, prep, touched, calls, cancels, crashes>>

\* A repair records the outcome before it clears the journal, and from then on
\* does not touch the record again.
RecordRepair(ok) ==
    /\ Running /\ Step \in {"succeed", "cancel"}
    /\ Transition(work.call.op, IF Step = "succeed" THEN "succeeded" ELSE "cancelled", ok)
    /\ IF ok THEN work' = [work EXCEPT !.who = "settler", !.at = @ + 1] ELSE Fail
    /\ UNCHANGED <<world, journal, gate, job, prep, history, calls, cancels, crashes>>

-----------------------------------------------------------------------------
(***************************************************************************)
(* The end of a program.                                                   *)
(***************************************************************************)
OutcomeMutant == IF work.err THEN "failed" ELSE "succeeded"
Outcome ==
    IF ~work.err /\ ~work.cancelled THEN "succeeded"
    ELSE IF journal # NoJournal THEN "recovery_required"
    ELSE IF work.cancelled THEN "cancelled" ELSE "failed"

\* The worker records its result; only a success goes on to clear the journal.
RecordResult(ok) ==
    /\ Ended /\ work.who = "worker"
    /\ Transition(work.call.op, Outcome, ok)
    /\ pinned' = (pinned \/ ~ok)
    /\ work' = [work EXCEPT !.result = IF ok THEN Outcome ELSE "failed",
                  !.phase = IF ok /\ Outcome = "succeeded" THEN "settle" ELSE "finish"]
    /\ UNCHANGED <<world, journal, latched, job, prep, history, calls, cancels, crashes>>

SettleJournal(ok) ==
    /\ work # NoWork /\ work.phase = "settle"
    /\ Clear(ok)
    /\ pinned' = (pinned \/ ~ok)
    /\ work' = [work EXCEPT !.phase = "finish"]
    /\ UNCHANGED <<world, books, job, prep, touched, calls, cancels, crashes>>

\* The job ends and the lease is returned.
FinishJob ==
    /\ work # NoWork /\ work.phase = "finish"
    /\ SetJob(work.call.op, FinishedJob(work.result, work.cancelled))
    /\ work' = NoWork
    /\ UNCHANGED <<world, journal, gate, books, prep, history, counts>>

\* A deploy, a patch, or a repair that succeeded or has nothing to record.
Return ==
    /\ Ended
    /\ \/ work.who \in {"caller", "settler"}
       \/ work.who = "repair" /\ (~work.err \/ work.call.op = NoOp)
    /\ work' = NoWork
    /\ UNCHANGED <<world, journal, gate, books, job, prep, history, counts>>

RepairFails(ok) ==
    /\ Ended /\ work.who = "repair" /\ work.err /\ work.call.op # NoOp
    /\ Transition(work.call.op, "recovery_required", ok)
    /\ work' = NoWork
    /\ UNCHANGED <<world, journal, gate, job, prep, history, calls, cancels, crashes>>

-----------------------------------------------------------------------------
\* repairLifecycleJournal, up to the program it chooses.
RepairProgramMutant == RedoProgram(journal.kind)
RepairProgram == IF journal.op # NoOp /\ record[journal.op] = "succeeded"
                   THEN VerifyProgram(journal.kind) ELSE RedoProgram(journal.kind)

BeginRepair ==
    /\ work = NoWork /\ prep = NoWork /\ journal # NoJournal
    /\ latched' = TRUE
    /\ work' = [who |-> IF journal.op # NoOp /\ record[journal.op] = "succeeded"
                          THEN "settler" ELSE "repair",
                call |-> [op |-> journal.op, kind |-> journal.kind,
                          target |-> journal.target],
                phase |-> "run", prog |-> RepairProgram, at |-> 1,
                cancelled |-> FALSE, err |-> FALSE, result |-> "none"]
    /\ UNCHANGED <<world, journal, pinned, books, job, prep, history, counts>>

\* An identical retry replays the record, and first writes what is deferred.
Retry(op, ok) ==
    /\ deferred[op] # "none" /\ record[op] \in Unfinished
    /\ IF ok THEN /\ record' = [record EXCEPT ![op] = deferred[op]]
                  /\ deferred' = [deferred EXCEPT ![op] = "none"]
                  /\ faults' = faults
             ELSE Fault /\ UNCHANGED books
    /\ UNCHANGED <<world, journal, gate, job, prep, work, history, calls, cancels, crashes>>

-----------------------------------------------------------------------------
CountCancel == cancels < MaxCancels /\ cancels' = cancels + 1

Cancelled(w) == IF w = NoWork THEN w ELSE [w EXCEPT !.cancelled = TRUE]

\* requestCancel on the job of a preparation or of the active worker.
CancelJob(op) ==
    /\ CountCancel
    /\ \/ /\ job[op] = "pending"
          /\ job' = [job EXCEPT ![op] = "cancelled"] /\ work' = work
       \/ /\ job[op] = "running" /\ work # NoWork /\ work.call.op = op
          /\ work' = Cancelled(work) /\ job' = job
    /\ UNCHANGED <<world, journal, gate, books, prep, history, calls, faults, crashes>>

\* Maintenance cancels the preparation and the active mutation or repair.
Interrupt ==
    /\ CountCancel
    /\ prep # NoWork \/ work # NoWork
    /\ prep' = Cancelled(prep) /\ work' = Cancelled(work)
    /\ UNCHANGED <<world, journal, gate, books, job, history, calls, faults, crashes>>

\* The process stops, cutting a step short, and starts again.
CrashLeaves == IF Running /\ Step \notin OwnSteps
                    /\ Accepts(Step, work.call.target, world)
                 THEN Leaves(Step, work.call.target, world) ELSE {world}

Recovered(op) ==
    IF record[op] \notin Unfinished THEN record[op]
    ELSE IF journal # NoJournal /\ journal.op = op THEN "recovery_required"
    ELSE "cancelled"

Crash ==
    /\ crashes < MaxCrashes /\ crashes' = crashes + 1
    /\ world' \in CrashLeaves
    /\ record' = [op \in Ops |-> Recovered(op)]
    /\ deferred' = [op \in Ops |-> "none"]
    /\ job' = [op \in Ops |-> "none"]
    /\ prep' = NoWork /\ work' = NoWork
    /\ latched' = (journal # NoJournal) /\ pinned' = FALSE
    /\ IF work = NoWork THEN touched' = touched ELSE Touch
    /\ UNCHANGED <<journal, before, calls, faults, cancels>>

-----------------------------------------------------------------------------
Preparing == \/ \E ok \in BOOLEAN : ReserveRecord(ok) \/ Reject(ok) \/ PromoteRefused(ok)
             \/ ReserveJob \/ Promote
Working ==
    \/ \E ok \in BOOLEAN :
         \/ Start(ok) \/ RejectStarted(ok)
         \/ WriteJournal(ok) \/ AdvanceJournal(ok) \/ ClearStep(ok) \/ RecordRepair(ok)
         \/ RecordResult(ok) \/ SettleJournal(ok) \/ RepairFails(ok)
    \/ StepDone \/ StepRefused \/ StepFails \/ CreateEnvFails
    \/ FinishJob \/ Return

Next ==
    \/ \E c \in Calls : Prepare(c) \/ Begin(c)
    \/ Preparing
    \/ Working
    \/ BeginRepair
    \/ \E op \in Ops : CancelJob(op) \/ \E ok \in BOOLEAN : Retry(op, ok)
    \/ Interrupt
    \/ Crash

Spec == Init /\ [][Next]_vars

\* Goroutines run, and whoever is told that a journal is left asks for repair.
FairSpec == Spec /\ WF_vars(Preparing) /\ WF_vars(Working) /\ WF_vars(BeginRepair)
-----------------------------------------------------------------------------
(***************************************************************************)
(* Properties.                                                             *)
(***************************************************************************)
TypeOK ==
    /\ world \in World
    /\ journal \in Journal \cup {NoJournal}
    /\ latched \in BOOLEAN /\ pinned \in BOOLEAN
    /\ record \in [Ops -> Statuses] /\ deferred \in [Ops -> Statuses]
    /\ job \in [Ops -> Statuses]
    /\ prep \in Preparation \cup {NoWork} /\ work \in Mutation \cup {NoWork}
    /\ before \in World \cup {None}
    /\ touched \subseteq Ops

Consistent(w) ==
    /\ (w.env = None) = (w.entry = None)
    /\ w.shared = w.entry
    /\ w.env = None => w.stack = None /\ w.data = None
    /\ w.entry # None => ~w.entry.repair /\ w.stack # None /\ w.data # None

\* What each kind of journal is there to reach.
Reached(intent, origin, w) ==
    LET t == intent.target
        whole == [env |-> t, repair |-> FALSE]
    IN CASE intent.kind = "create" -> w = [RunningWorld(t) EXCEPT !.data = w.data] /\ w.data # None
         [] intent.kind = "close"  -> w = EmptyWorld
         [] intent.kind = "reset"  -> w = RunningWorld(t)
         [] intent.kind = "deploy" -> w.env \in {origin.env, t} /\ w.stack = w.env
                                      /\ w.entry = origin.entry /\ w.data = origin.data
         [] intent.kind = "patch"  -> w.env \in {origin.env, t} /\ w.entry.env = w.env
                                      /\ w.shared = w.entry /\ w.data = origin.data

\* What a request is meant for: only a create is for a server that is not there.
Applies(intent, w) == (w.env = None) = (intent.kind = "create")

\* A journal is only written for a server its request is meant for, whatever became
\* of it since the request was prepared.  It is only removed when the server is as
\* before or as the journal wants it, and nothing of the server changes without a
\* journal on file, except by one write that leaves file and registry in agreement.
Whole(a, b) == b = [a EXCEPT !.env = b.env] /\ b.entry # None /\ b.entry.env = b.env
IntentOf(j) == IF j = NoJournal THEN NoJournal
               ELSE [op |-> j.op, kind |-> j.kind, target |-> j.target]
Change == INSTANCE JournalledChange
            WITH intent <- IntentOf(journal), value <- world, NoIntent <- NoJournal,
                 origin <- IF journal = NoJournal THEN world ELSE before
ChangeSpec == Change!ChangeSpec

\* When nothing runs and no journal is left, the server is there or it is not: env
\* file, registry entry and loaded entry exist together, the loaded entry is the
\* one on file and not marked for repair, and there are containers and volumes (of
\* which image is not said), or none if there is no server.  And a server marked
\* for repair has a journal that will repair it.
NothingHalfDone ==
    /\ work = NoWork /\ journal = NoJournal => Consistent(world)
    /\ world.entry # None /\ world.entry.repair
         => journal # NoJournal /\ journal.kind = "reset"

\* A repair that found the operation's record unfinished and redoes its work.
Redoing(op) == work # NoWork /\ work.who = "repair" /\ work.call.op = op

DataRemoved == world.data # None /\ world'.data = None /\ work.call.op # NoOp

\* An operation reported as cancelled or failed has not changed anything.
RefusalIsClean ==
    \A op \in Ops : record[op] \in {"cancelled", "failed"} => op \notin touched

\* Success is recorded only while the server is as the operation wanted it; or
\* by a retry that flushes it while a repair already redoes the operation.
SuccessMeansReached ==
    [][\A op \in Ops : record[op] # "succeeded" /\ record'[op] = "succeeded" =>
         \/ /\ journal # NoJournal /\ journal.op = op
            /\ Reached(journal, before, world)
         \/ Redoing(op) /\ deferred[op] = "succeeded"]_vars

\* Unfinished work is somebody's: of its preparation, its worker, the journal a
\* repair will find, or a retry; or admission is closed until a restart.
NoOrphan ==
    \A op \in Ops : record[op] \in Unfinished =>
        \/ prep # NoWork /\ prep.call.op = op
        \/ work # NoWork /\ work.call.op = op
        \/ journal # NoJournal /\ journal.op = op
        \/ pinned

\* The in-memory job never claims more than the record.
JobNeverOverclaims ==
    \A op \in Ops :
        /\ job[op] = "succeeded" => record[op] = "succeeded"
        /\ job[op] = "recovery_required" =>
              record[op] \in {"recovery_required", "succeeded", "cancelled"}
        /\ job[op] = "cancelled" => record[op] # "recovery_required" \/ pinned

\* After success is on record its operation does not destroy the server's data
\* again, except by a repair that began when it was not on record yet.
CompletedNotReplayed ==
    [][DataRemoved /\ record[work.call.op] = "succeeded" => Redoing(work.call.op)]_vars

\* What the comment on the repair of a succeeded operation promises, without
\* that exception: it only verifies, and replays nothing.
SucceededIsOnlyVerified == [][DataRemoved => record[work.call.op] # "succeeded"]_vars

\* What the documentation says of a reset that fails before its volumes are
\* removed: env file and registry are put back as they were.
EarlyResetRollsBack ==
    work = NoWork /\ journal # NoJournal /\ journal.kind = "reset"
        /\ journal.stage \in {"prepared", "env-updated", "registry-synced"} =>
            world.env = before.env /\ world.entry = before.entry

\* With finitely many faults, a journal that somebody keeps repairing goes away;
\* unless its success was flushed while a repair had undone it (see Redoing) and
\* the repair was then cut short: what is left is only verified, and in vain.
Stranded == /\ journal # NoJournal /\ journal.op # NoOp /\ record[journal.op] = "succeeded"
            /\ ~Reached(journal, before, world)
RepairConverges == journal # NoJournal ~> (journal = NoJournal \/ Stranded)
=============================================================================
