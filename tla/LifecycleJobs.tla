----------------------------- MODULE LifecycleJobs -----------------------------
(***************************************************************************)
(* The in-memory table of lifecycle jobs (lifecycleJobManager): what the   *)
(* handlers, the workers, the clients that cancel or look up a job and the *)
(* clock do to it.  Every operation runs under the manager's mutex and is  *)
(* one action.                                                             *)
(*                                                                         *)
(* Time is kept as the age of each finished job, up to the retention.  A   *)
(* new id is random over 128 bits: here it is one that no job and no       *)
(* goroutine holds.  The fingerprint of a request decides only which       *)
(* refusal it is given and is left out.                                    *)
(***************************************************************************)
EXTENDS Integers, FiniteSets

CONSTANTS
    Ids,         \* job identifiers
    NoId,
    Ops,         \* operation identifiers
    NoOp,        \* a request without an operation identifier
    MaxEntries,  \* lifecycleJobMaxEntries
    Retention    \* lifecycleJobTerminalRetention, in ticks of the clock

ASSUME JobsAssumption ==
    /\ IsFiniteSet(Ids) /\ NoId \notin Ids /\ NoOp \notin Ops
    /\ MaxEntries \in Nat /\ Retention \in Nat \ {0}

VARIABLES
    jobs,    \* the table
    index,   \* operationJobs: the job of an operation
    holder   \* the goroutine that holds a job's id: the handler that reserved
             \* it, the same once it has been refused, or its worker

vars == <<jobs, index, holder>>

-----------------------------------------------------------------------------
Terminal == {"succeeded", "failed", "cancelled"}
Outcomes == Terminal \cup {"recovery_required"}
Job == [status : Outcomes \cup {"pending", "running"}, op : Ops \cup {NoOp},
        cancel : BOOLEAN, age : 0..Retention]
NoJob == [status |-> "absent"]

Present == {i \in Ids : jobs[i] # NoJob}

NewJob(o) == [status |-> "pending", op |-> o, cancel |-> FALSE, age |-> 0]

ExpiredMutant(j) == j.status \in Terminal \ {"cancelled"} /\ j.age >= Retention
ExpiredEarlyMutant(j) == j.status \in Terminal /\ j.age >= Retention - 1
Expired(j) == j.status \in Terminal /\ j.age >= Retention

\* pruneExpiredTerminalLocked
Pruned == [i \in Ids |-> IF Expired(jobs[i]) THEN NoJob ELSE jobs[i]]
PrunedIndexMutant == index
PrunedIndex == [o \in Ops |-> IF \E i \in Ids : Expired(jobs[i]) /\ jobs[i].op = o /\ index[o] = i
                              THEN NoId ELSE index[o]]

Outcome(j, status) ==
    IF j.cancel /\ status # "recovery_required" THEN "cancelled" ELSE status

Finished(j, status) ==
    IF j = NoJob \/ j.status \in Terminal THEN j
    ELSE [j EXCEPT !.status = Outcome(j, status), !.age = 0]

CancelledMutant(j) ==
    IF j.status \in {"pending", "running"} THEN [j EXCEPT !.status = "cancelled", !.age = 0] ELSE j
Cancelled(j) ==
    CASE j.status = "pending" -> [j EXCEPT !.status = "cancelled", !.age = 0]
      [] j.status = "running" -> [j EXCEPT !.cancel = TRUE]
      [] OTHER -> j

Discardable(j) == j.status = "pending" \/ j.status \in Terminal

Aged(j) == IF j.status \in Terminal /\ j.age < Retention
           THEN [j EXCEPT !.age = @ + 1] ELSE j

Init == /\ jobs = [i \in Ids |-> NoJob]
        /\ index = [o \in Ops |-> NoId]
        /\ holder = [i \in Ids |-> "none"]

-----------------------------------------------------------------------------
(***************************************************************************)
(* The handlers.                                                           *)
(***************************************************************************)
Listed(o) == /\ o \in Ops
             /\ PrunedIndex[o] \in Ids
             /\ Pruned[PrunedIndex[o]] # NoJob

\* reserveWithOperation: the operation has a job, and the request is answered
\* from it or refused as a conflict.
ReserveExisting(o) ==
    /\ Listed(o)
    /\ jobs' = Pruned
    /\ index' = PrunedIndex
    /\ UNCHANGED holder

Room == Cardinality({i \in Ids : Pruned[i] # NoJob}) < MaxEntries

\* It has none: an index entry left without its job is dropped.
ReserveRefused(o) ==
    /\ ~Listed(o) /\ ~Room
    /\ jobs' = Pruned
    /\ index' = IF o \in Ops THEN [PrunedIndex EXCEPT ![o] = NoId] ELSE PrunedIndex
    /\ UNCHANGED holder

ReserveNew(o, i) ==
    /\ ~Listed(o) /\ Room
    /\ jobs[i] = NoJob /\ holder[i] = "none"
    /\ jobs' = [Pruned EXCEPT ![i] = NewJob(o)]
    /\ index' = IF o \in Ops THEN [PrunedIndex EXCEPT ![o] = i] ELSE PrunedIndex
    /\ holder' = [holder EXCEPT ![i] = "handler"]

\* claim, as the coordinator admits the request.
ClaimableMutant(j) == j # NoJob
Claimable(j) == j.status = "pending"

Claim(i) ==
    /\ holder[i] = "handler" /\ Claimable(jobs[i])
    /\ jobs' = [jobs EXCEPT ![i].status = "running"]
    /\ holder' = [holder EXCEPT ![i] = "worker"]
    /\ UNCHANGED index

\* The coordinator is closed and cancels the job it was given.
AdmissionClosed(i) ==
    /\ holder[i] = "handler"
    /\ jobs' = [jobs EXCEPT ![i] = Cancelled(@)]
    /\ holder' = [holder EXCEPT ![i] = "refused"]
    /\ UNCHANGED index

\* Admission ends for another reason: the job was cancelled, Docker is away.
AdmissionFails(i) ==
    /\ holder[i] = "handler"
    /\ holder' = [holder EXCEPT ![i] = "refused"]
    /\ UNCHANGED <<jobs, index>>

\* A create whose job was cancelled meanwhile leaves it for its client to see.
KeepCancelled(i) ==
    /\ holder[i] = "handler" /\ ~Claimable(jobs[i])
    /\ holder' = [holder EXCEPT ![i] = "none"]
    /\ UNCHANGED <<jobs, index>>

\* discard, by the handler that was refused.
Discard(i) ==
    /\ holder[i] = "refused"
    /\ holder' = [holder EXCEPT ![i] = "none"]
    /\ IF Discardable(jobs[i])
       THEN /\ jobs' = [jobs EXCEPT ![i] = NoJob]
            /\ index' = IF jobs[i].op \in Ops /\ index[jobs[i].op] = i
                        THEN [index EXCEPT ![jobs[i].op] = NoId] ELSE index
       ELSE UNCHANGED <<jobs, index>>

\* A close whose server changed while it waited: finish, then discard.
StaleClose(i) ==
    /\ holder[i] = "worker"
    /\ jobs' = [jobs EXCEPT ![i] = Finished(@, "cancelled")]
    /\ holder' = [holder EXCEPT ![i] = "refused"]
    /\ UNCHANGED index

(***************************************************************************)
(* The workers, the clients and the clock.                                 *)
(***************************************************************************)
\* finishWithPublicMessage, by the worker or by a handler that cannot start it.
Finish(i, status) ==
    /\ holder[i] = "worker"
    /\ jobs' = [jobs EXCEPT ![i] = Finished(@, status)]
    /\ holder' = [holder EXCEPT ![i] = "none"]
    /\ UNCHANGED index

\* requestCancel, by a client or by the closing of the barrier.
Cancel(i) ==
    /\ jobs[i] # NoJob
    /\ jobs' = [jobs EXCEPT ![i] = Cancelled(@)]
    /\ UNCHANGED <<index, holder>>

\* lookup and lookupOperation.
Lookup == /\ jobs' = Pruned
          /\ index' = PrunedIndex
          /\ UNCHANGED holder

Tick == /\ jobs' = [i \in Ids |-> Aged(jobs[i])]
        /\ UNCHANGED <<index, holder>>

HandlerStep(i) == \/ Claim(i) \/ AdmissionClosed(i) \/ AdmissionFails(i)
                  \/ KeepCancelled(i) \/ Discard(i)
WorkerStep(i) == StaleClose(i) \/ \E status \in Outcomes : Finish(i, status)

Next ==
    \/ \E o \in Ops \cup {NoOp} : \/ ReserveExisting(o)
                                  \/ ReserveRefused(o)
                                  \/ \E i \in Ids : ReserveNew(o, i)
    \/ \E i \in Ids : HandlerStep(i) \/ WorkerStep(i) \/ Cancel(i)
    \/ Lookup
    \/ Tick

Spec == Init /\ [][Next]_vars

\* Handlers are answered by the coordinator, workers end, time passes.
Fairness == /\ \A i \in Ids : WF_vars(HandlerStep(i)) /\ WF_vars(WorkerStep(i))
            /\ WF_vars(Tick)

FairSpec == Spec /\ Fairness

-----------------------------------------------------------------------------
(***************************************************************************)
(* Properties.                                                             *)
(***************************************************************************)

\* The table, the index and the goroutines' handles have their shape.
TypeOK == /\ jobs \in [Ids -> Job \cup {NoJob}]
          /\ index \in [Ops -> Ids \cup {NoId}]
          /\ holder \in [Ids -> {"none", "handler", "refused", "worker"}]

\* The index and the table agree, through pruning and discarding: an indexed
\* operation has its job in the table, and the job of an operation is the one
\* the index finds, so an operation never has two jobs.
IndexAgrees ==
    /\ \A o \in Ops : index[o] # NoId => jobs[index[o]] # NoJob /\ jobs[index[o]].op = o
    /\ \A i \in Present : jobs[i].op \in Ops => index[jobs[i].op] = i

\* The table is never larger than lifecycleJobMaxEntries, and is what the index
\* says.
TableIsSound == TypeOK /\ IndexAgrees /\ Cardinality(Present) =< MaxEntries

\* A job runs exactly as long as a worker holds it: no cancel, discard or
\* pruning takes the entry a worker will report to (its outcome would be lost
\* in finish), and no job says running when nothing will ever finish it.
RunningHasWorker ==
    \A i \in Ids : jobs[i].status = "running" <=> holder[i] = "worker"

\* What was accepted or reported stands: a running job that was asked to cancel
\* never ends as a success or a plain failure, and a terminal job keeps its
\* status, so a claim that raced a cancel or the late end of a worker neither
\* revives nor rewrites it.
OutcomeStands ==
    [][\A i \in Ids :
         /\ jobs[i].status = "running" /\ jobs[i].cancel
              => jobs'[i].status \in {"running", "cancelled", "recovery_required"}
         /\ jobs[i].status \in Terminal => jobs'[i].status \in {jobs[i].status, "absent"}]_vars

\* What a client may be polling stays: a job no handler is about to discard
\* leaves the table only when it has been terminal for the whole retention, so
\* an unfinished or recovery_required job never does.
ResultIsKept ==
    [][\A i \in Ids :
         jobs[i] # NoJob /\ jobs'[i] = NoJob /\ holder[i] # "refused"
            => jobs[i].status \in Terminal /\ jobs[i].age = Retention]_vars

\* A full table makes room again for the next reservation, unless jobs left
\* recovery_required, which nothing ever removes, fill it by themselves.
RoomReturns ==
    []<>(Room \/ Cardinality({i \in Ids : jobs[i].status = "recovery_required"}) >= MaxEntries)

=============================================================================
