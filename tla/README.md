# Verification of the opensamguk deployer

TLA+ models of the *deployer* (`deployer/*.go`), the Go service that creates, closes, resets, deploys and
patches the game servers of an opensamguk host. It is the only program of this repository with state of
its own; the rest is configuration of other programs, host scripts and workflows.

Each definition that models code names its lines in `PROJECT.json` ("map"); this file says how the pieces
fit together. Line numbers below are of `deployer/main.go` unless another file is named.

## 1. The system

### Components, their state and operations

| Component | State | Operations | Source |
|---|---|---|---|
| Durable operation store | `.deployer-operations.json`, its copy in memory, deferred transitions | open, `Recover`, `Reserve`, `Transition`, prune | `operation_store.go`, 1628-1743, 2069-2126 |
| Operation coordinator | mutex, condition variable, `closed`, `journalPending`, `active`, `preparing`, `preparationSettlementPending`, lease; marker file | `prepare`, `promote`, `complete`, `begin`, `beginRecovery`, `Done`, `enter`, `enter-if-idle`, `leave` | 450-1050 |
| Lifecycle jobs | in-memory table with capacity, retention and an index by operation | `reserve`, `claim`, `requestCancel`, `finish`, `discard`, `lookup` | 1618-1626, 1782-2063 |
| Lifecycle journal and repair | `.deployer-lifecycle-journal`: kind, server, stage, operation | write, advance, clear, `repairLifecycleJournal` | 1052-1616 |
| Lifecycle handlers and workers | none of their own | create, close, reset | 3768-4679 |
| Deploy, env patch, registry | server env files, shared env, `SERVER_REGISTRY_JSON` | deploy, patch, reload of shared services | 3173-3605, 4847-4917 |
| Web game deployment | `WEB_GAME_TAG` of one env file | check, pull, journal, write, recreate, verify | `web_game_deploy.go` |
| Battle WebSocket allowlist | an nginx include | derive and replace | `battle_ws_allowlist.go` |
| Reset evidence | digests, receipts, phases and pins of a reset | validation | `reset_*.go` |
| HTTP and command line | none | authentication, decoding, checks | 2731-3130 |
| Operation poller | a deadline | poll until terminal | `scripts/wait-deployer-operation.sh` |
| Workflows, nginx, compose, acceptance tools | files of other programs | - | `.github/`, `infra/`, `scripts/`, `tools/` |

### How they interact

A lifecycle request (create, close, reset) with an operation id goes through
`prepareLifecycleOperation` (660): look for a replay in the store, *prepare* in the coordinator, look again
under the preparation. It then reserves a durable record and an in-memory job, is *promoted* to the active
mutation together with the claim of its job (572), moves its record to `running` (4607) and hands its lease
to a worker goroutine. The worker writes the lifecycle journal before its first durable change, does the
work, records the result, and only then clears the journal (4637-4643). If a result cannot be recorded the
worker pins the coordinator closed before it returns its lease. Deploy and env patch skip the preparation
(`begin`, 717). Repair (1293) takes the coordinator's recovery lease, redoes or verifies what the journal
names, and clears it. A workflow enters maintenance, gets a single-use lease with which one create or PEP reset
may be admitted behind the barrier, and leaves at the end.

Shared state: the coordinator's mutex and condition variable; the store's mutex; the job table's mutex
(taken inside the coordinator's); three files that survive the process (operations, journal, marker), and
one more that is only looked at (the restore gate). `docker exec` starts a second deployer process for
command-line checks, on the same files.

### What is hard about it

* Every request is a goroutine, admitted ones continue as workers, and cancellation comes from three
  places (job cancel, barrier, process exit).
* The journal and the marker are looked at before the lock is taken (533, 574) and acted on under it.
* `enter` has two critical sections (902-918, 924-943).
* A file replacement has three outcomes: not done, visible but not durable, done. The code treats the
  middle one as done in memory and as an error in its return value.
* After a crash the process only has the files; after a power loss perhaps not the latest.
* A retry of a request must neither start it twice nor overwrite its result.

### What makes each component correct

* *Store*: memory and file agree whenever the process serves; an identifier is bound to one request; a
  terminal record is never rewritten and goes only after its retention; what callers are told is on file; the
  file is always one the next start accepts; start-up leaves nothing pending or running.
* *Coordinator*: one preparation and one mutation; closed whenever a marker, an unsettled result or an
  unowned journal demands it; nothing runs under the barrier that was not cancelled, leased or a repair; a lease is
  used once; every call returns.
* *Jobs*: a terminal job never changes; a full table never loses a running job; a replay finds its job.
* *Handlers, journal, repair*: the record, the job and the journal tell one story; success on record implies
  the postcondition; a journal is cleared only when nothing is left to recover; repair is idempotent.
* *Web game, registry, allowlist*: files and services end up with the same desired value, or the journal says
  that they may not.

`PROJECT.json` lists under "hazards" the places where each of these can go wrong, with the property that
covers it or the reason why none does.

## 2. Modules

| Module | What it is |
|---|---|
| `OperationLedger` | abstract specification of an operation identifier |
| `DurableOperationStore` | the store; implements `OperationLedger` |
| `OperationCoordinator` | the coordinator and the maintenance barrier |
| `JournalledChange` | abstract specification of a lifecycle journal and the state it guards |
| `ServerLifecycle` | handlers, workers, journal, repair, record and job of one server; implements `JournalledChange` |
| `WebGameDeploy` | the web-game deployment and its repair; implements `JournalledChange` |
| `LifecycleJobs` | the in-memory job table |
| `SharedRegistry` | the shared env file and the registry in it |
| `BattleWSAllowlist` | the allowlist, its test and restore, and nginx |
| `OperationPoller` | the workflow's wait for an operation |
| `*Proofs` | the theorems about the module of the same name |
| `MC*` | model values, requests and symmetry for TLC |

A definition `XMutant` is `X` with a plausible bug. Nothing in the specification refers to it; putting it in
the place of `X` makes the property named for it in `PROJECT.json` fail, which shows that the property
observes the code.

How they compose: `ServerLifecycle` is the composition. It contains the coordinator and the store reduced
to what `OperationCoordinator` and `DurableOperationStore` show of them (admission waits for one preparation
and one mutation and closes on a journal or an unsettled result; a transition is done, deferred or refused),
and `LifecycleJobs` reduced to the status of the job. What is reduced there is in full in the other module, and its
records are proved to be an `OperationLedger` like the store's.

### DurableOperationStore

`mem` is `s.operations`, `deferred` is `s.deferredTransitions`, `disk` is what a reader of the file sees, and
`survivors` are the contents a power loss may leave (a rename without a directory sync adds one, a synced
write or a journal write in the same directory leaves one). `phase` follows `loadConfig`: *down*, *opened*,
*retry* (the first `Recover` reported an error), *serving*.

| Action | Code |
|---|---|
| `Open`, `Recover` | `openDurableOperationStore`, `Recover` with its one retry (2109-2126) |
| `ReserveExisting`, `ReserveFlushesDeferred`, `Reserve` | `Reserve` (operation_store.go:184-239) seen through `reserveDurableLifecycleOperation` (1628) |
| `TransitionFinished`, `Transition` | `Transition` (242-285) seen through `transitionDurableLifecycleOperation` (1684) |
| `WriteJournal`, `ClearJournal` | the journal as the store sees it: whom it names, and the directory sync |
| `Crash`, `PowerLoss`, `Probe`, `Tick` | the surroundings; `Probe` is a registry check run by `docker exec` |

A record is its request identity (kind, subject and fingerprint in one value), status, note and time. A note
stands for the HTTP status and the public message, which are always stored as a pair. Callers are free: any
of them may reserve or move any identifier at any time, which includes every order the handlers can produce.
The properties are written against what is returned to callers (`reply`) and against what they were promised
(`settled`), not against the code's own variables.

### OperationCoordinator

A process is a goroutine serving one request, and later its worker. One action is one critical section of the
mutex, or one access to the journal outside it; a `cond.Wait` puts the goroutine into `asleep`, a
`Broadcast` empties it. `saw` is what `prepare` and `promote` found on file before they locked. The local
variables of a request are `call`, `saw`, `cancelled` (its context) and `job` (its in-memory job).

| Action | Code |
|---|---|
| `StatForPrepare`, `PrepareWaits/Refused/Publishes` | `prepare` (529-570) |
| `ReserveJob`, `Reject`, `Complete` | the handler between `prepare` and `promote`, `complete` (498-516) |
| `StatForPromote`, `PromoteWaits/Refused/Admits` | `promote` (572-628) |
| `BeginWaits/Refused/Admits`, `ReservePatchJob`, `ClaimLifecycleJob` | `begin` (717), `claimLifecycleJob` (828) |
| `RecoveryWaits/Refused/Begins` | `beginRecovery` (760) |
| `WriteJournal`, `MarkLifecycleJournalPending`, `RemoveJournal`, `ClearLifecycleJournalPending`, `Done`, `MarkSettlementPending` | the worker |
| `EnterCloses`, `EnterWaits`, `EnterReturns`, `EnterIfIdle`, `LeaveMaintenance` | the barrier (898-1026) |
| `RequestCancel`, `LifecycleRecoveryPending`, `Crash` | job cancel (1863), `/readyz`, restart (692) |

Abstractions: a reset is the reset of `pep`, the one a lease can admit, and resets of other servers behave
like `close`; a request without an operation id cannot use a lease, so it is one without a token; tokens are
drawn in order, since a random one is never drawn twice; the Docker preflight is one of the reasons for
`Reject`; the job cancel that `enter` adds to the active mutation (920) changes nothing
once its context is cancelled; the lease's `operationID` repeats what `consumed` says. The restore
gate is a file no code here creates: it is there or not from the start. `d101NativeOwner` is only set by tests.

### JournalledChange and ServerLifecycle

`JournalledChange` says what a journal is for: an intent is recorded only for a value it is meant for, however
long its request waited for that (`Announce`); `value` changes only under an intent (`Work`) or by a change
that is complete in one step (`Touch`), and an intent is withdrawn only when the value is what it was, or
what the intent wants (`Withdraw`). What "meant for", "complete" and "wanted" mean (`Applies`, `Whole`,
`Reached`) is left to whoever instantiates it.

In `ServerLifecycle` the value is `world`: env file, registry entry with its repair mark, containers,
volumes, and the entry the shared services have loaded. A handler or worker is a *program*, the sequence of
its steps in the order of the source; `After`, `Leaves` and `Accepts` say what each step does, what it may
leave when it fails or is cut short, and what it refuses. This is where the failures are: `docker compose down`
may stop with the containers gone and the volumes there, a durable file write may report an error
after its rename, a crash may come within any step.

| Action | Code |
|---|---|
| `Prepare`, `ReserveRecord`, `ReserveJob`, `Reject`, `Promote`, `PromoteRefused` | the lifecycle handlers and `beginPreparedLifecycle` (3768-4300, 630-690) |
| `Stale`, `Start`, `RejectStarted` | a close's second look at the server (4150-4169), `startClaimedDurableLifecycleJob` (4607), `settleRejectedDurableLifecycleOperation` |
| `Begin` | deploy and env patch |
| `StepDone`, `StepRefused`, `StepFails`, `CreateEnvFails`, `WriteJournal`, `AdvanceJournal` | one step of a worker or repair |
| `RecordResult`, `SettleJournal`, `FinishJob` | the end of a worker (4607-4679) |
| `BeginRepair`, `RecordRepair`, `ClearStep`, `RepairFails`, `Return` | `repairLifecycleJournal` (1293-1616) |
| `Retry` | an identical request that flushes a deferred transition (654) |
| `CancelJob`, `Interrupt`, `Crash` | job cancel, maintenance, restart |

`CreateProgram`, `CloseProgram`, `ResetProgram`, `DeployProgram`, `PatchProgram` are the workers;
`VerifyProgram` and `RedoProgram` are the two repairs of each journal kind. History: `before` is the world when the
journal was written, `touched` the operations that changed the world. A journal `Applies` to a server that is there,
that of a create to one that is not. Abstractions: one server; its env file
is one value (identity, image tags and seed settings together); the syntactic checks of a request are one
refusal; a container either runs what the env file says or not.

### WebGameDeploy

`pin` and `gen` are what the env file and the registry name, `running` is the image of the container. The
actions follow `handleWebGameDeploy` (`Admit`, `Pull`, `Recheck`, `WriteJournal`, `WritePin`, `StageEnv`, `Up`,
`Verify`, `Clear`) and `repairWebGameDeploy` (`BeginRepair`, `Decide`, then the shared `Up`, `Verify`, `Clear`).
`OtherOperation` is a complete deploy, patch or reset of the server in between, `HostEdit` an operator's edit. An
edit between the recreate and the settling of the journal is left out: the code checks the pin no later than
that, and an edit there cannot be seen by it. For the same reason `RepairConverges` and `OnlyApproved`
say nothing of a server edited after the last check (`Drifted`). Its journal `Applies` to a server that has the
pin and the identity the request was approved for, unless it was edited since the last check (`Expected`).

### LifecycleJobs

`jobs`, `index` and `holder` (whose goroutine has the identifier). One action per method under the manager's
mutex: `reserveWithOperation` (`ReserveExisting`, `ReserveRefused`, `ReserveNew`), `claim`, `requestCancel`
(`Cancel`, `AdmissionClosed`), `finishWithPublicMessage` (`Finish`, `StaleClose`), `discard`, `lookup`. Each prunes
first, as the code does. Time is the age of a finished job.

### SharedRegistry

A file is what it means: the entries, whether its text is canonical, loose or broken, and the other
settings. A thread reads it (`Read`), may normalise it (`Rewrite`), reads it again (`Reread`) and replaces it
whole (`Write`), holding `sharedEnvMu`; `StartCheck` is a check in a second process, which takes no
lock that the deployer sees and normalises what it reads. `want` is the file the operations that took
effect amount to, one after another. `stale` records the one exception: a check found the file loose and its
rewrite may undo what the deployer wrote in between. `FileIsRight` says that this is the only way to lose an update.

### BattleWSAllowlist

`reloadSharedRegistry` and the `syncBattleWSAllowlist` in it, step by step (`Begin`, `Write`, `Chmod`, `Test`, `Restore`,
`Recreate`, `Hup`), the registry they render, and nginx as an external program: it loads the map when it
handles a HUP or is started, keeps what it has when a HUP's configuration is refused, and does not start
with a refused one. Reloads, which run under the active lease, are the only callers: the command line's
`--sync-battle-ws-allowlist` never gets to its branch (see "A disagreement read off the code" in section 3).

### OperationPoller

The script's loop with the host's clock: a request may take `Limit`, a sleep `Nap`, both cut to what is left of
the deadline; `slow` counts the seconds the host lost between two commands. The operation moves on its own
(`OperationMoves`), and the deployer may be away (`Outage`).

## 3. Runs

| Run | Question | Instance |
|---|---|---|
| `store` | Do memory, file, answers and results agree through faults and restarts, and is every step but a power loss one of the ledger's? | 2 operations, 2 requests, 1 fault, 1 restart, 1 power loss, 1 retention period; 333k states |
| `store_boot` | Is the file always one the next start accepts, and does a stopped process serve again? | a table for 1 record and 2 operations, 2 faults (both attempts of one start), a registry check, a power loss; fair start-up; 207k |
| `coordinator` | Is admission exclusive and fail-closed, the barrier effective, the lease single-use? | 3 goroutines, 4 calls, all kinds and faults, 1 restart; 995k |
| `coordinator_admission` | Is nothing admitted over a journal or an unsettled result, and does every call return? | 3 goroutines, 4 calls (create, deploy, repair, enter, leave), failed writes and settlements; fair; 237k |
| `coordinator_unsynced` | finding: a journal whose directory sync failed | 3 goroutines, 5 calls |
| `lifecycle` | Does the journal keep its promise, do records and jobs tell the truth, is nothing lost or done twice, does repair converge? | 2 calls of a create, reset and close with operation id, a reset and a close without, a deploy and a patch; 2 faults, 1 cancel, 1 crash, any retries and repairs; fair; 519k |
| `lifecycle_replay` | finding: a retry during a repair | 1 reset, 1 fault |
| `jobs` | Is the job table sound at its limit, do outcomes stand, does room return? | 3 identifiers, 2 operations, 2 entries, 2 ticks; fair; 48k |
| `web_deploy` | Is only what was approved done, and is every journal settled? | 3 pins, 4 requests, 3 deployments, 2 faults, 2 edits, 1 crash, 1 other operation; fair; 450k |
| `registry` | Is no update lost and no broken text replaced? | 2 servers, 2 threads, 1 check, 1 edit, 1 fault, crashes; 315k |
| `allowlist` | Do the answers tell the truth and does nginx follow the registry? | 2 servers, 2 changes, 3 faults; fair; 52k |
| `poller` | Is the exit status true and the deadline kept? | deadlines passed, near and far, intervals 0, 1, 3; 78k |

Why these bounds are enough. *Store*: the code treats identifiers independently except for the shared write
and the capacity, so two show every interaction; the power loss needs one unsynced write; the deferred
transition needs one failed write and a retry; pruning needs one tick with a retention of one. *Coordinator*:
three goroutines are one that mutates, one that prepares and one that enters, leaves, repairs or is a second
preparer; the fourth call is the one that comes after a closed, reopened or crashed coordinator. *Lifecycle*: two
calls are one that leaves something behind and one that meets it, or two closes of which the second waited for
the first and finds the server gone; the second fault is the one that hits the
repair of the first, and repairs and retries are not bounded at all. *Jobs*: a table that two jobs fill and a third
cannot enter; an age of two tells the retention from the tick before it. *Web game*: the third deployment
meets the journal and the rollback of the first two. *Registry*: an update is lost between two threads; both their
files, settings and entries differ. *Allowlist*: one server nginx accepts and one it does not; the second change
comes after the first was published or refused. *Poller*: an interval and a request limit smaller and larger than
what is left. The theorems of section 4 do not depend on any bound.

Symmetry is used where no liveness is checked. Deadlock is not checked where the bounds end everything
(store, lifecycle, web game, registry, allowlist, poller: when calls and faults are used up nothing need be
possible); it is in the coordinator's runs, where every state but the finished one must have a successor, and
in the job table's.

### Fairness

*Store*: weak fairness of start-up. The container has a restart policy, so a start that fails is followed by
another one; with finitely many faults one succeeds. *Coordinator*: weak fairness of each goroutine. The Go
scheduler runs every runnable goroutine, and a worker ends because each wait of its own (Docker commands,
probes) has a deadline or ends with its context. A goroutine in `asleep` is not runnable: if a `Broadcast` is
forgotten it stays there, and `EveryCallReturns` fails (see `BroadcastMutant`). *Lifecycle, web game*: the
goroutines run, and whoever is told that a journal is left asks for the repair again (`POST
/maintenance/repair`, which `docs/orchestration-reference.md` makes the operator's duty). *Jobs*: handlers
are answered, workers end, time passes. *Allowlist*: a call goes on once begun, nginx handles its signals and is
restarted by Docker, and the reload is asked for again until it succeeded: strong fairness, because a failed
call disables it in between.

### Findings

1. `coordinator_unsynced`: a journal whose directory sync failed is on file, but the coordinator was not told
   (1215, 1134-1136). With an unlucky look at the file a create with a maintenance lease is admitted over it.
   While directory syncs succeed this cannot happen: `AdmissionFailsClosedHolds` proves it.
2. `lifecycle_replay`: the worker of a reset cannot write its success, which is deferred, and its journal stays.
   The repair finds the record `running` and redoes the reset; an identical retry of the request flushes the
   deferred success meanwhile; the repair of an operation that now says `succeeded` goes on to remove its volumes.
   If that repair is cut short by a crash, every later one only verifies, and fails: the server stays without
   containers and data until somebody steps in. `RepairConverges` excepts exactly this state (`Stranded`), and
   `CompletedNotReplayed` and `SuccessMeansReached` except exactly this way of getting there (`Redoing`).

A disagreement read off the code, without a run, since a command that is refused has no behaviour to check:
`.github/workflows/deploy-orchestration.yml:338-341` runs `deployer --sync-battle-ws-allowlist` in the new container
to "publish a registry-derived, fail-closed nginx WS map" before it recreates nginx, and `main` has a branch for it
(2748-2755). But `main` first asks `earlyCommand` (2732), which knows the three `--check-*` flags,
`--authenticated-http` and no argument at all (2793-2823); for this flag it prints its usage and returns status 2,
and `main` exits with it. The branch is unreachable, and since the workflow's script runs under `set -euo pipefail`
(line 29) the rollout ends there, before nginx is recreated. The map is only published by reloads, which is what
`BattleWSAllowlist` models.

Further counterexamples, each with a configuration beside the module (`tlc -config X.cfg MC...`); they are
consequences of decisions the code makes knowingly, or need an unlikely schedule:

* `OperationCoordinatorStale.cfg` (`RecoveryHasJournal`): `prepare` applies a sighting of the journal that is older
  than its removal; the coordinator then waits for a repair that has nothing to repair, until a restart.
* `OperationCoordinatorDrained.cfg` (`EnterReturnsDrained`): `enter` may answer `open` with a usable lease if a
  `leave` comes between its two critical sections.
* `DurableOperationStoreLink.cfg` (`JournalLinkResolves`): after 24 hours a success record is pruned although
  its journal is still there; the repair the documentation promises for that state is refused.
* `DurableOperationStoreProbe.cfg` (`JournalledWorkNotInterrupted`): `--check-running-registry-targets`, which the
  documentation runs in the live container, reconciles the live file and records running work as interrupted.
* `ServerLifecycleRollback.cfg` (`EarlyResetRollsBack`): a reset that fails before its volumes are removed keeps the
  new env file under its journal and is finished by the repair, not rolled back.
* `BattleWSAllowlistRestore.cfg` (`RestoresLastValid`): the map restored after a failed test is the previous one,
  which was never tested if a crash cut short the call that wrote it.

## 4. Proofs

All theorems hold for every value of the constants that satisfies the modules' assumptions: any number of
operations, goroutines, servers, calls, faults and crashes. The assumptions only say that the bounds are
numbers and that "none" values are none of the others.

### DurableOperationStoreProofs

| Theorem | Under | States |
|---|---|---|
| `TypeCorrect` | - | `TypeOK` |
| `FileMirrored` | no second process | `MirrorsFile`, `DeferredIsUnfinished` |
| `ResultsSurvive` | no second process | `SettledSurvives` |
| `AnswersOnFile` | no second process | `AnswersMatchFile` |
| `ImplementsLedger` | no second process | `LedgerSpec` |
| `BootNeverRefused` | - | `NextBootAccepts` |
| `BootHasReconciled` | - | `BootReconciles` |

The invariant is `StoreInv`. `MirrorsFile` alone is not inductive: a process that starts to serve must already
hold what the file says, so `StoreInv` keeps memory equal to the file from opening on, lets no deferred
transition outlive its process, and says that the file is one of its own survivors and that only terminal
results were promised. `SettledSurvives` then holds because the write that promised a record left no survivor
without it, and later writes keep a terminal record or prune it after its retention. The assumption on a second
process is necessary: `DurableOperationStoreProbe.cfg` shows what it breaks. `ImplementsLedger` maps the ledger to
`disk`, step by step; a power loss itself is excepted because it may undo a step that was visible but never
promised, which the ledger does not allow. What follows a power loss is covered.

`NextBootAccepts` needs memory to fit as well, since memory is what the next write leaves: `CapacityInv` is the two
with the types. It counts with the theorems on finite sets: a write that adds no record and may prune some does
not grow the table (`FewerFit`), and the one that adds a record follows the check that there is room for it. A
second process reads a file that fits and only reconciles it, so no assumption is needed. `BootReconciles` needs
the types only: one action ends start-up, with a file it has just written or with nothing left to change.

### OperationCoordinatorProofs

| Theorem | Under | States |
|---|---|---|
| `TypeCorrect` | - | `TypeOK` |
| `OneMutatorHolds` | - | `OneMutator` |
| `FailClosedHolds` | - | `FailClosed` |
| `BarrierExcludesHolds` | - | `BarrierExcludes` |
| `LeaseSingleUseHolds` | - | `LeaseSingleUse` |
| `AdmissionFailsClosedHolds` | directory syncs succeed | `AdmissionFailsClosed` |

They build on each other in this order. `OneMutator` is inductive with the types; `FailClosed` needs it, since
an unowned journal is one whose owner returned. `BarrierExcludes` needs both and `RecoverRepairs` (only a
repair is in the recovery path): an admission under the marker finds the coordinator closed, and therefore used a
lease. `LeaseInv` says that the tokens spent were issued and that a lease whose token is spent is consumed,
which is what makes a second use impossible. `JournalKnown` says that a journal on file is known to the
coordinator, except while its writer is between the rename and telling it. With a directory sync fault
that is false, and so is the property (finding 1).

### LifecycleJobsProofs

`TableHolds` (`TableIsSound`), `WorkersHold` (`RunningHasWorker`), `OutcomesStand` (`OutcomeStands`), `ResultsKept`
(`ResultIsKept`), without further assumptions. The invariant `JobsInv` is their conjunction with the
types; none of it is inductive alone: the index stays right through pruning because no operation has two jobs,
and the capacity because a reservation prunes before it counts. A pruned or discarded identifier may be drawn
again, but not while a goroutine still holds it, which is why a late `finish` cannot reach another job.

### WebGameDeployProofs

`TypeCorrect`, `OnlyApprovedHolds` (`OnlyApproved`) and `KeepsJournalPromise` (`ChangeSpec`: every step of the
deployment maps to a step of `JournalledChange` or to a stutter). `Covered` says that whoever is past the writing of
the journal works for the journal on file, and that without a journal `origin` is the present; `Known` carries
what each step found out to the step that relies on it: the expected pin and identity from the recheck to the write,
the approved pin from the write to the recreate, the running image from the recreate to the settling. Each is
weakened by "unless edited since", by comparing the count of edits, and that is what makes it inductive.

### SharedRegistryProofs

`FileHolds` (`FileIsRight`), `BrokenKept` (`BrokenIsKept`). `Locked` says that the thread that is not idle is the
holder of the lock, `Knows` what a process has read by each step and `Holds` that what a thread has read is
still what is on file, unless a check is about to write behind the lock (`stale`). From these, what a thread
writes is its operation's effect on the file there is.

### BattleWSAllowlistProofs

`AnswersHold` (`AnswerIsTrue`), `MapHolds` (`MapIsSound`). `CallIsCurrent` says that what a running call has read is
still so, that the map is the rendered one from its write to its end and was accepted from its test on, and that
the map it may put back was accepted unless an earlier call was cut short. Faults of every step are included.

### OperationPollerProofs

`ExitHolds` (`ExitIsTrue`), `EndsInTimeHolds` (`EndsInTime`). `InTime` bounds the clock and the end of the request
or sleep under way by the deadline and the slowness so far; `Lately` bounds how long ago the operation may have
succeeded without the script knowing, step by step: a request's limit after its answer, and an interval more after
the pause.

### ServerLifecycleProofs

`TypeCorrect` (`TypeOK`), `NoOrphanHolds` (`NoOrphan`), `JobsHold` (`JobNeverOverclaims`), `NotReplayed`
(`CompletedNotReplayed`), `RefusalsAreClean` (`RefusalIsClean`), `NothingIsHalfDone` (`NothingHalfDone`),
`SuccessIsReached` (`SuccessMeansReached`), `ChangesAreJournalled` (`ChangeSpec`) and `RecordsAreLedger`, without further
assumptions. Each invariant below is inductive with those above it.

* `TypeInv` adds to the types that a journal names an admissible request and that a program which puts an entry
  has a server to put: `RedoCreate` and `ResetProgram` depend on it.
* `BooksInv` is what the record, the deferred status and the job of an operation say at each point of its way.
  `Owned`: the journal is that of the work at hand. `Prepared` and `Worked`: what has been written of the operation
  under preparation, and of the one at work, by phase; a repair in particular records its result before it
  clears the journal (`RecordsFirst`, which `RecordsThenClears` shows of each redo). `Fresh`: an operation without a record has neither a job
  nor a deferred status. `Claims` bounds what a job
  may say beyond what is at work. `NoOrphan` and `JobNeverOverclaims` follow; neither is inductive alone, since
  both depend on the order in which `Return`, `RepairFails` and `Reject` leave the books.
* `TeardownOver` says that the settling of a recorded success has no teardown in its program, and that a repair's
  program has none after the step that records its result. Only `down` takes the data away (`RemovedByDown`), a worker
  records success when its program is over, and `CompletedNotReplayed` follows.
* `Clean` is what makes a refusal mean that nothing was changed. `TouchedIsKept`: an operation that has changed the server
  has succeeded, or has a journal and no refusal deferred. `BeforeJournal`: a worker without a journal has not
  come to the step that writes it, and every worker's program writes it before the first change (`WorkerPrograms`).
  `Withdrawn` and `Withdrawing`: only a repair that finds neither env file nor entry of a create cancels it.
  `CreateStands`: a create that has changed anything has its env file, so such a repair has nothing to withdraw; this needs
  that every program of a create makes the file, or finds it, before anything else (`CreateIsFounded`). `Deferring`: no
  deferred status waits behind a terminal record. `StepChanges` is the lemma on which both a
  completed step and a crash within one rest.
* `Course` is what exactly the server is at each point, and the three theorems on the server itself rest on it. A
  program need not be known by its position: `WellMade` says of each step what must and must not be among the steps
  left after it (`Follows`), it is shown once of each program, redo and verification included, and a step then only needs
  the set of what is left (`Left`). `OnCourse` says what is done once it is not left any more, as long as nothing has
  failed; `Standing` what holds under each kind of journal even then, so that a repair can start from it after any failure or
  crash. `JournalBegins` and `CourseEnds` are the two ends: when the journal is written everything the kind requires
  (`Duties`) is still left, and when nothing is left the server is what the journal asks for. `Calm` says that a server
  without a journal is in order, `Settling` and `Awaiting` that a success not yet on record, or deferred, has been
  reached, and `UnderJournal` that one on record stays so under its journal, as far as a redo leaves it (`Won`, finding 2).
* `Admitted` says that a request which has yet to write its journal finds the server there, unless it is a create or will
  still validate it: deploy and patch because they look under their lease, a close because of its second look (`Stale`), a
  reset because its worker validates after `Start`. Nothing else runs meanwhile, so the journal is written for a server it
  `Applies` to; a create looks for itself (`absent`) after which only its own steps follow.
* `ChangesAreJournalled` sorts the steps into four (`Announces`, `Works`, `Withdraws`, `Rests`), one for each action of
  `JournalledChange`. `SuccessIsReached` splits them by who records: the worker, a repair, or a retry that flushes.
* `RecordsAreLedger` joins the composition to the store's module: the records of this module, reduced to their status,
  implement the `OperationLedger` that `DurableOperationStore` is shown to implement (without its pruning, which is not part of
  this module).

### Only model-checked

Liveness, which the prover does not treat: `ServesAgain`, `EveryCallReturns`, `RepairConverges` (twice),
`RoomReturns`, `EventuallyPublished`. Every other property of a passing run is a theorem; the findings and further
counterexamples of section 3 are TLC's.

## 5. Plan

1. The coordinator of `ServerLifecycle` replaced by `OperationCoordinator` itself, with one server and two
   goroutines, if the composition stays within reach of TLC.
2. The budget of a reset's disk space and the chain of reset evidence, once something in the program produces
   the evidence.

## 6. What is not modelled, and why

* The Docker commands, HTTP decoding, authentication and JSON parsing: I/O without state of the deployer's.
  Their failure is a choice in the models.
* The evidence, receipts, pins and space budget of D101 resets: the code refuses requests that carry evidence
  (4255-4262); nothing produces it. The budget is arithmetic on what Docker reports.
* Content of messages, logs and the registry's presentation fields.
* nginx (but for what it does with the allowlist), compose files, workflows and the acceptance tools:
  configuration and tests of other programs.
* Legacy native guards: only tests install an owner; in the running program they never block.
* A power loss, outside the store's module. Env files and the registry are replaced one after the other without
  syncing their directory (4847), and `enter` does not sync the directory of its marker (1035): after a power
  loss one may be old and the other new, or the barrier be gone. Nothing in the code handles it.
* The restore gate together with the journal: clearing a journal reopens a coordinator which the gate had closed
  (1007). The gate is made by hand, outside the program.
* Two servers at once: admission is global, and nothing but the shared files relates them (`SharedRegistry`).
