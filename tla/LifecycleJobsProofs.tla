-------------------------- MODULE LifecycleJobsProofs --------------------------
(***************************************************************************)
(* Theorems about the table of lifecycle jobs, for any number of           *)
(* identifiers and operations, any capacity and any retention.             *)
(***************************************************************************)
EXTENDS LifecycleJobs, FiniteSetTheorems, TLAPS

WithinCapacity == Cardinality(Present) =< MaxEntries

\* What every state satisfies: the types, the index, the capacity, and a worker
\* for each running job.
JobsInv == TypeOK /\ IndexAgrees /\ WithinCapacity /\ RunningHasWorker

-----------------------------------------------------------------------------
(***************************************************************************)
(* The operators on one job.                                               *)
(***************************************************************************)

LEMMA NoJobType == \A j \in Job : j # NoJob /\ j.status # "absent"
BY DEF Job, NoJob, Outcomes, Terminal

LEMMA NewJobType ==
    ASSUME NEW o \in Ops \cup {NoOp}
    PROVE  NewJob(o) \in Job /\ NewJob(o).op = o /\ NewJob(o).status = "pending"
BY JobsAssumption DEF NewJob, Job

\* finish keeps an entry its operation, and ends a running one.
LEMMA FinishedType ==
    ASSUME NEW j \in Job, NEW status \in Outcomes
    PROVE  /\ Finished(j, status) \in Job /\ Finished(j, status).op = j.op
           /\ j.status \in Terminal => Finished(j, status) = j
           /\ Finished(j, status).status # "running"
           /\ j.cancel /\ j.status = "running"
                => Finished(j, status).status \in {"cancelled", "recovery_required"}
<1> DEFINE out == Outcome(j, status)
<1>1. j # NoJob /\ 0 \in 0..Retention  BY NoJobType, JobsAssumption
<1>2. /\ out \in Outcomes
      /\ j.cancel => out \in {"cancelled", "recovery_required"}
    BY DEF Outcome, Outcomes, Terminal
<1>3. CASE j.status \in Terminal
    BY <1>1, <1>3 DEF Finished, Terminal
<1>4. CASE j.status \notin Terminal
    <2> HIDE DEF out
    <2>1. Finished(j, status) = [j EXCEPT !.status = out, !.age = 0]
        BY <1>1, <1>4 DEF Finished, out
    <2>2. out # "running"  BY <1>2 DEF Outcomes, Terminal
    <2> QED  BY <1>1, <1>2, <1>4, <2>1, <2>2 DEF Job
<1> QED  BY <1>3, <1>4

\* requestCancel keeps an entry its operation, and ends no running job.
LEMMA CancelledType ==
    ASSUME NEW j \in Job
    PROVE  /\ Cancelled(j) \in Job /\ Cancelled(j).op = j.op
           /\ Cancelled(j).status = "running" <=> j.status = "running"
           /\ j.status \in Terminal => Cancelled(j) = j
<1>1. 0 \in 0..Retention  BY JobsAssumption
<1>2. CASE j.status = "pending"
    <2>1. Cancelled(j) = [j EXCEPT !.status = "cancelled", !.age = 0]
        BY <1>2 DEF Cancelled
    <2> QED  BY <1>1, <1>2, <2>1 DEF Job, Outcomes, Terminal
<1>3. CASE j.status = "running"
    <2>1. Cancelled(j) = [j EXCEPT !.cancel = TRUE]  BY <1>3 DEF Cancelled
    <2> QED  BY <1>3, <2>1 DEF Job, Outcomes, Terminal
<1>4. CASE j.status \notin {"pending", "running"}
    BY <1>4 DEF Cancelled
<1> QED  BY <1>2, <1>3, <1>4

LEMMA AgedType ==
    ASSUME NEW j \in Job
    PROVE  /\ Aged(j) \in Job /\ Aged(j).op = j.op /\ Aged(j).status = j.status
BY JobsAssumption DEF Aged, Job, Outcomes, Terminal

LEMMA AbsentStays ==
    /\ Aged(NoJob) = NoJob /\ Cancelled(NoJob) = NoJob /\ ~Expired(NoJob)
    /\ \A status : Finished(NoJob, status) = NoJob
BY DEF Aged, Cancelled, Expired, Finished, NoJob, Terminal

\* What pruning leaves of an entry.
LEMMA PrunedEntry ==
    ASSUME TypeOK, NEW i \in Ids
    PROVE  /\ Pruned[i] \in {jobs[i], NoJob}
           /\ Pruned[i] = NoJob /\ jobs[i] # NoJob
                => jobs[i].status \in Terminal /\ jobs[i].age = Retention
           /\ jobs[i].status \notin Terminal => Pruned[i] = jobs[i]
<1>1. Pruned[i] = IF Expired(jobs[i]) THEN NoJob ELSE jobs[i]  BY DEF Pruned
<1>2. CASE Expired(jobs[i])
    <2>1. jobs[i] \in Job  BY <1>2, AbsentStays DEF TypeOK
    <2> QED  BY <1>1, <1>2, <2>1, JobsAssumption DEF Expired, Job
<1>3. CASE ~Expired(jobs[i])  BY <1>1, <1>3
<1> QED  BY <1>2, <1>3

-----------------------------------------------------------------------------
(***************************************************************************)
(* The index and the capacity.                                             *)
(***************************************************************************)

\* A table and an index that agree.
Agree(table, ix) ==
    /\ \A o \in Ops : ix[o] # NoId => table[ix[o]] # NoJob /\ table[ix[o]].op = o
    /\ \A i \in Ids : table[i] # NoJob /\ table[i].op \in Ops => ix[table[i].op] = i

LEMMA PrunedType ==
    ASSUME TypeOK
    PROVE  Pruned \in [Ids -> Job \cup {NoJob}] /\ PrunedIndex \in [Ops -> Ids \cup {NoId}]
BY DEF Pruned, PrunedIndex, TypeOK

\* Pruning takes an operation's entry out of the index when it takes its job.
LEMMA PrunedAgrees ==
    ASSUME TypeOK, IndexAgrees
    PROVE  Agree(Pruned, PrunedIndex)
<1>1. \A i \in Ids : Pruned[i] = IF Expired(jobs[i]) THEN NoJob ELSE jobs[i]
    BY DEF Pruned
<1>2. \A o \in Ops : PrunedIndex[o] =
          IF \E i \in Ids : Expired(jobs[i]) /\ jobs[i].op = o /\ index[o] = i
            THEN NoId ELSE index[o]
    BY DEF PrunedIndex
<1>3. ASSUME NEW o \in Ops, PrunedIndex[o] # NoId
      PROVE  Pruned[PrunedIndex[o]] # NoJob /\ Pruned[PrunedIndex[o]].op = o
    <2>1. /\ PrunedIndex[o] = index[o] /\ index[o] \in Ids
          /\ ~\E i \in Ids : Expired(jobs[i]) /\ jobs[i].op = o /\ index[o] = i
        BY <1>2, <1>3 DEF TypeOK
    <2>2. jobs[index[o]] # NoJob /\ jobs[index[o]].op = o
        BY <1>3, <2>1 DEF IndexAgrees
    <2> QED  BY <1>1, <2>1, <2>2
<1>4. ASSUME NEW i \in Ids, Pruned[i] # NoJob, Pruned[i].op \in Ops
      PROVE  PrunedIndex[Pruned[i].op] = i
    <2>1. ~Expired(jobs[i]) /\ Pruned[i] = jobs[i]  BY <1>1, <1>4
    <2>2. index[jobs[i].op] = i  BY <1>4, <2>1 DEF IndexAgrees, Present
    <2> QED  BY <1>2, <1>4, <2>1, <2>2
<1> QED  BY <1>3, <1>4 DEF Agree

LEMMA AgreeIsIndexAgrees ==
    ASSUME Agree(jobs', index') PROVE IndexAgrees'
BY DEF Agree, IndexAgrees, Present

\* A step that keeps every entry's presence and operation, and the index.
LEMMA SameAgrees ==
    ASSUME TypeOK, IndexAgrees, UNCHANGED index,
           \A i \in Ids : /\ (jobs'[i] = NoJob) = (jobs[i] = NoJob)
                          /\ jobs[i] # NoJob => jobs'[i].op = jobs[i].op
    PROVE  IndexAgrees'
<1>1. \A o \in Ops : index[o] # NoId => index[o] \in Ids  BY DEF TypeOK
<1> QED  BY <1>1 DEF IndexAgrees, Present

LEMMA FewerFit ==
    ASSUME WithinCapacity, \A i \in Ids : jobs'[i] # NoJob => jobs[i] # NoJob
    PROVE  WithinCapacity'
<1>1. IsFiniteSet(Present) /\ Present' \subseteq Present
    BY JobsAssumption, FS_Subset DEF Present
<1>2. Cardinality(Present') \in Nat /\ Cardinality(Present) \in Nat
      /\ Cardinality(Present') =< Cardinality(Present)
    BY <1>1, FS_Subset, FS_CardinalityType
<1> QED  BY <1>2, JobsAssumption DEF WithinCapacity

-----------------------------------------------------------------------------
(***************************************************************************)
(* Each action preserves the invariant.                                    *)
(***************************************************************************)

LEMMA InitInv == Init => JobsInv
<1> SUFFICES ASSUME Init PROVE JobsInv  OBVIOUS
<1>1. TypeOK  BY DEF Init, TypeOK
<1>2. Present = {}  BY DEF Init, Present
<1>3. IndexAgrees  BY <1>2 DEF Init, IndexAgrees
<1>4. WithinCapacity  BY <1>2, FS_EmptySet, JobsAssumption DEF WithinCapacity
<1>5. RunningHasWorker  BY DEF Init, RunningHasWorker, NoJob
<1> QED  BY <1>1, <1>3, <1>4, <1>5 DEF JobsInv

\* Claim, cancel and finish change one entry in place.
LEMMA OneEntryChanges ==
    ASSUME JobsInv, NEW i \in Ids, NEW new \in Job \cup {NoJob},
           jobs' = [jobs EXCEPT ![i] = new], UNCHANGED index,
           (new = NoJob) = (jobs[i] = NoJob),
           new # NoJob => new.op = jobs[i].op
    PROVE  /\ jobs' \in [Ids -> Job \cup {NoJob}] /\ index' \in [Ops -> Ids \cup {NoId}]
           /\ IndexAgrees' /\ WithinCapacity'
<1>1. /\ jobs \in [Ids -> Job \cup {NoJob}] /\ index \in [Ops -> Ids \cup {NoId}]
      /\ \A k \in Ids : jobs'[k] = IF k = i THEN new ELSE jobs[k]
    BY DEF JobsInv, TypeOK
<1>2. IndexAgrees'  BY <1>1, SameAgrees DEF JobsInv
<1>3. WithinCapacity'  BY <1>1, FewerFit DEF JobsInv
<1> QED  BY <1>1, <1>2, <1>3

\* Pruning, as every look at the table does first.
LEMMA PruningInv ==
    ASSUME JobsInv, jobs' = Pruned, index' = PrunedIndex, UNCHANGED holder
    PROVE  JobsInv'
<1>1. TypeOK'  BY PrunedType DEF JobsInv, TypeOK
<1>2. IndexAgrees'  BY PrunedAgrees, AgreeIsIndexAgrees DEF JobsInv
<1>3. WithinCapacity'  BY PrunedEntry, FewerFit DEF JobsInv
<1>4. RunningHasWorker'
    <2> SUFFICES ASSUME NEW i \in Ids
                 PROVE  jobs'[i].status = "running" <=> holder[i] = "worker"
        BY DEF RunningHasWorker
    <2>1. NoJob.status # "running" /\ "running" \notin Terminal
        BY DEF NoJob, Terminal
    <2> QED  BY <2>1, PrunedEntry DEF JobsInv, RunningHasWorker
<1> QED  BY <1>1, <1>2, <1>3, <1>4 DEF JobsInv

LEMMA ReserveRefusedInv ==
    ASSUME JobsInv, NEW o \in Ops \cup {NoOp}, ReserveRefused(o)
    PROVE  JobsInv'
<1>1. jobs' = Pruned /\ UNCHANGED holder /\ ~Listed(o)  BY DEF ReserveRefused
<1>2. CASE o = NoOp
    BY <1>1, <1>2, PruningInv, JobsAssumption DEF ReserveRefused
<1>3. CASE o \in Ops
    <2>1. index' = [PrunedIndex EXCEPT ![o] = NoId]  BY <1>3 DEF ReserveRefused
    <2>2. Agree(Pruned, PrunedIndex) /\ PrunedIndex \in [Ops -> Ids \cup {NoId}]
        BY PrunedAgrees, PrunedType DEF JobsInv
    <2>3. PrunedIndex[o] = NoId
        BY <1>1, <1>3, <2>2 DEF Agree, Listed
    <2>4. index' = PrunedIndex  BY <2>1, <2>2, <2>3
    <2> QED  BY <1>1, <2>4, PruningInv
<1> QED  BY <1>2, <1>3

LEMMA ReserveNewInv ==
    ASSUME JobsInv, NEW o \in Ops \cup {NoOp}, NEW i \in Ids, ReserveNew(o, i)
    PROVE  JobsInv'
<1> DEFINE kept == {k \in Ids : Pruned[k] # NoJob}
<1>1. /\ ~Listed(o) /\ jobs[i] = NoJob /\ holder[i] = "none"
      /\ Cardinality(kept) < MaxEntries
      /\ jobs' = [Pruned EXCEPT ![i] = NewJob(o)]
      /\ index' = IF o \in Ops THEN [PrunedIndex EXCEPT ![o] = i] ELSE PrunedIndex
      /\ holder' = [holder EXCEPT ![i] = "handler"]
    BY DEF ReserveNew, Room
<1>2. /\ Pruned \in [Ids -> Job \cup {NoJob}]
      /\ PrunedIndex \in [Ops -> Ids \cup {NoId}]
      /\ Agree(Pruned, PrunedIndex) /\ Pruned[i] = NoJob
    BY <1>1, PrunedType, PrunedAgrees, PrunedEntry DEF JobsInv
<1>3. NewJob(o) \in Job /\ NewJob(o).op = o /\ NewJob(o).status = "pending"
      /\ NewJob(o) # NoJob
    BY NewJobType, NoJobType
<1>4. \A k \in Ids : jobs'[k] = IF k = i THEN NewJob(o) ELSE Pruned[k]
    BY <1>1, <1>2
<1>5. TypeOK'
    BY <1>1, <1>2, <1>3 DEF JobsInv, TypeOK
<1>6. IndexAgrees'
    <2>1. \A q \in Ops : index'[q] = IF q = o THEN i ELSE PrunedIndex[q]
        BY <1>1, <1>2, JobsAssumption
    <2>2. \A k \in Ids : Pruned[k] # NoJob => Pruned[k].op # o \/ o \notin Ops
        BY <1>1, <1>2 DEF Agree, Listed
    <2>3. \A q \in Ops : PrunedIndex[q] # i
        BY <1>2, JobsAssumption DEF Agree
    <2>4. ASSUME NEW q \in Ops, index'[q] # NoId
          PROVE  jobs'[index'[q]] # NoJob /\ jobs'[index'[q]].op = q
        BY <1>2, <1>3, <1>4, <2>1, <2>3, <2>4 DEF Agree
    <2>5. ASSUME NEW k \in Ids, jobs'[k] # NoJob, jobs'[k].op \in Ops
          PROVE  index'[jobs'[k].op] = k
        BY <1>2, <1>3, <1>4, <2>1, <2>2, <2>5 DEF Agree
    <2> QED  BY <2>4, <2>5, AgreeIsIndexAgrees DEF Agree
<1>7. WithinCapacity'
    <2>1. Present' = kept \cup {i}  BY <1>3, <1>4 DEF Present
    <2>2. IsFiniteSet(kept)  BY JobsAssumption, FS_Subset
    <2>3. i \notin kept  BY <1>2
    <2>4. Cardinality(kept) \in Nat /\ Cardinality(Present') = Cardinality(kept) + 1
        BY <2>1, <2>2, <2>3, FS_AddElement, FS_CardinalityType
    <2> QED  BY <1>1, <2>4, JobsAssumption DEF WithinCapacity
<1>8. RunningHasWorker'
    <2> SUFFICES ASSUME NEW k \in Ids
                 PROVE  jobs'[k].status = "running" <=> holder'[k] = "worker"
        BY DEF RunningHasWorker
    <2>1. CASE k = i  BY <1>1, <1>3, <1>4, <2>1 DEF JobsInv, TypeOK
    <2>2. CASE k # i
        <3>1. jobs'[k] = Pruned[k] /\ holder'[k] = holder[k]
            BY <1>1, <1>4, <2>2 DEF JobsInv, TypeOK
        <3>2. NoJob.status # "running" /\ "running" \notin Terminal
            BY DEF NoJob, Terminal
        <3> QED  BY <3>1, <3>2, PrunedEntry DEF JobsInv, RunningHasWorker
    <2> QED  BY <2>1, <2>2
<1> QED  BY <1>5, <1>6, <1>7, <1>8 DEF JobsInv

LEMMA ClaimInv ==
    ASSUME JobsInv, NEW i \in Ids, Claim(i)
    PROVE  JobsInv'
<1> DEFINE new == [jobs[i] EXCEPT !.status = "running"]
<1>1. /\ jobs[i].status = "pending" /\ jobs' = [jobs EXCEPT ![i] = new]
      /\ holder' = [holder EXCEPT ![i] = "worker"] /\ UNCHANGED index
    BY DEF Claim, Claimable, JobsInv, TypeOK
<1>2. jobs[i] \in Job  BY <1>1 DEF JobsInv, TypeOK, NoJob
<1>3. new \in Job /\ new.op = jobs[i].op /\ new.status = "running"
    BY <1>2 DEF Job
<1> HIDE DEF new
<1>4. /\ jobs' \in [Ids -> Job \cup {NoJob}] /\ index' \in [Ops -> Ids \cup {NoId}]
      /\ IndexAgrees' /\ WithinCapacity'
    BY <1>1, <1>2, <1>3, NoJobType, OneEntryChanges
<1>5. TypeOK'  BY <1>1, <1>4 DEF JobsInv, TypeOK
<1>6. RunningHasWorker'
    BY <1>1, <1>3 DEF JobsInv, TypeOK, RunningHasWorker
<1> QED  BY <1>4, <1>5, <1>6 DEF JobsInv

LEMMA CancelEntryInv ==
    ASSUME JobsInv, NEW i \in Ids, NEW h \in {"none", "handler", "refused", "worker"},
           jobs' = [jobs EXCEPT ![i] = Cancelled(@)], UNCHANGED index,
           holder' = [holder EXCEPT ![i] = h],
           h = "worker" <=> holder[i] = "worker"
    PROVE  JobsInv'
<1> DEFINE new == Cancelled(jobs[i])
<1>1. jobs' = [jobs EXCEPT ![i] = new]  BY DEF JobsInv, TypeOK
<1>2. /\ new \in Job \cup {NoJob} /\ (new = NoJob) = (jobs[i] = NoJob)
      /\ new # NoJob => new.op = jobs[i].op
      /\ new.status = "running" <=> jobs[i].status = "running"
    BY CancelledType, AbsentStays, NoJobType DEF JobsInv, TypeOK
<1> HIDE DEF new
<1>3. /\ jobs' \in [Ids -> Job \cup {NoJob}] /\ index' \in [Ops -> Ids \cup {NoId}]
      /\ IndexAgrees' /\ WithinCapacity'
    BY <1>1, <1>2, OneEntryChanges
<1>4. TypeOK'  BY <1>3 DEF JobsInv, TypeOK
<1>5. RunningHasWorker'
    BY <1>1, <1>2 DEF JobsInv, TypeOK, RunningHasWorker
<1> QED  BY <1>3, <1>4, <1>5 DEF JobsInv

LEMMA FinishEntryInv ==
    ASSUME JobsInv, NEW i \in Ids, NEW h \in {"none", "refused"},
           NEW status \in Outcomes, holder[i] = "worker",
           jobs' = [jobs EXCEPT ![i] = Finished(@, status)], UNCHANGED index,
           holder' = [holder EXCEPT ![i] = h]
    PROVE  JobsInv'
<1> DEFINE new == Finished(jobs[i], status)
<1>1. jobs' = [jobs EXCEPT ![i] = new]  BY DEF JobsInv, TypeOK
<1>2. jobs[i] \in Job  BY DEF JobsInv, TypeOK, RunningHasWorker, NoJob
<1>3. new \in Job /\ new.op = jobs[i].op /\ new.status # "running"
    BY <1>2, FinishedType
<1> HIDE DEF new
<1>4. /\ jobs' \in [Ids -> Job \cup {NoJob}] /\ index' \in [Ops -> Ids \cup {NoId}]
      /\ IndexAgrees' /\ WithinCapacity'
    BY <1>1, <1>2, <1>3, NoJobType, OneEntryChanges
<1>5. TypeOK'  BY <1>4 DEF JobsInv, TypeOK
<1>6. RunningHasWorker'
    BY <1>1, <1>3 DEF JobsInv, TypeOK, RunningHasWorker
<1> QED  BY <1>4, <1>5, <1>6 DEF JobsInv

\* A handler that is refused, or leaves its cancelled job, changes no entry.
LEMMA HolderInv ==
    ASSUME JobsInv, NEW i \in Ids, NEW h \in {"none", "refused"},
           holder[i] # "worker", holder' = [holder EXCEPT ![i] = h],
           UNCHANGED <<jobs, index>>
    PROVE  JobsInv'
<1>1. TypeOK'  BY DEF JobsInv, TypeOK
<1>2. IndexAgrees' /\ WithinCapacity'
    BY DEF JobsInv, IndexAgrees, WithinCapacity, Present
<1>3. RunningHasWorker'  BY DEF JobsInv, TypeOK, RunningHasWorker
<1> QED  BY <1>1, <1>2, <1>3 DEF JobsInv

LEMMA DiscardInv ==
    ASSUME JobsInv, NEW i \in Ids, Discard(i)
    PROVE  JobsInv'
<1>1. holder[i] = "refused" /\ holder' = [holder EXCEPT ![i] = "none"]
    BY DEF Discard
<1>2. CASE ~Discardable(jobs[i])
    BY <1>1, <1>2, HolderInv DEF Discard
<1>3. CASE Discardable(jobs[i])
    <2> DEFINE o == jobs[i].op
    <2>1. /\ jobs' = [jobs EXCEPT ![i] = NoJob]
          /\ index' = IF o \in Ops /\ index[o] = i THEN [index EXCEPT ![o] = NoId] ELSE index
        BY <1>3 DEF Discard
    <2>2. jobs[i] \in Job  BY <1>3 DEF JobsInv, TypeOK, Discardable, NoJob, Terminal
    <2>3. \A k \in Ids : jobs'[k] = IF k = i THEN NoJob ELSE jobs[k]
        BY <2>1 DEF JobsInv, TypeOK
    <2>4. TypeOK'  BY <1>1, <2>1 DEF JobsInv, TypeOK
    <2>5. IndexAgrees'
        <3>1. \A q \in Ops : index'[q] = IF q = o /\ index[q] = i THEN NoId ELSE index[q]
            BY <2>1 DEF JobsInv, TypeOK
        <3>2. ASSUME NEW q \in Ops, index'[q] # NoId
              PROVE  jobs'[index'[q]] # NoJob /\ jobs'[index'[q]].op = q
            <4>1. index'[q] = index[q] /\ index[q] \in Ids
                BY <3>1, <3>2 DEF JobsInv, TypeOK
            <4>2. jobs[index[q]] # NoJob /\ jobs[index[q]].op = q
                BY <3>2, <4>1 DEF JobsInv, IndexAgrees
            <4>3. index[q] # i  BY <3>1, <3>2, <4>1, <4>2
            <4> QED  BY <2>3, <4>1, <4>2, <4>3
        <3>3. ASSUME NEW k \in Ids, jobs'[k] # NoJob, jobs'[k].op \in Ops
              PROVE  index'[jobs'[k].op] = k
            <4>1. k # i /\ jobs'[k] = jobs[k]  BY <2>3, <3>3
            <4>2. index[jobs[k].op] = k
                BY <3>3, <4>1 DEF JobsInv, IndexAgrees, Present
            <4> QED  BY <3>1, <3>3, <4>1, <4>2
        <3> QED  BY <3>2, <3>3, AgreeIsIndexAgrees DEF Agree
    <2>6. WithinCapacity'  BY <2>3, FewerFit DEF JobsInv
    <2>7. RunningHasWorker'
        BY <1>1, <2>3 DEF JobsInv, TypeOK, RunningHasWorker, NoJob
    <2> QED  BY <2>4, <2>5, <2>6, <2>7 DEF JobsInv
<1> QED  BY <1>2, <1>3

LEMMA TickInv ==
    ASSUME JobsInv, Tick
    PROVE  JobsInv'
<1>1. \A k \in Ids : jobs'[k] = Aged(jobs[k])  BY DEF Tick
<1>2. \A k \in Ids :
          /\ jobs'[k] \in Job \cup {NoJob}
          /\ (jobs'[k] = NoJob) = (jobs[k] = NoJob)
          /\ jobs[k] # NoJob => jobs'[k].op = jobs[k].op
          /\ jobs'[k].status = jobs[k].status
    BY <1>1, AgedType, AbsentStays, NoJobType DEF JobsInv, TypeOK
<1>3. UNCHANGED <<index, holder>>  BY DEF Tick
<1>4. TypeOK'  BY <1>2, <1>3 DEF Tick, JobsInv, TypeOK
<1>5. IndexAgrees'  BY <1>2, <1>3, SameAgrees DEF JobsInv
<1>6. WithinCapacity'  BY <1>2, FewerFit DEF JobsInv
<1>7. RunningHasWorker'  BY <1>2, <1>3 DEF JobsInv, RunningHasWorker
<1> QED  BY <1>4, <1>5, <1>6, <1>7 DEF JobsInv

LEMMA NextInv == JobsInv /\ [Next]_vars => JobsInv'
<1> SUFFICES ASSUME JobsInv, [Next]_vars PROVE JobsInv'  OBVIOUS
<1>1. CASE UNCHANGED vars
    BY <1>1 DEF vars, JobsInv, TypeOK, IndexAgrees, WithinCapacity, Present, RunningHasWorker
<1>2. ASSUME NEW o \in Ops \cup {NoOp},
             ReserveExisting(o) \/ ReserveRefused(o) \/ \E i \in Ids : ReserveNew(o, i)
      PROVE  JobsInv'
    BY <1>2, PruningInv, ReserveRefusedInv, ReserveNewInv DEF ReserveExisting
<1>3. ASSUME NEW i \in Ids, HandlerStep(i)
      PROVE  JobsInv'
    <2>1. CASE Claim(i)  BY <2>1, ClaimInv
    <2>2. CASE AdmissionClosed(i)  BY <2>2, CancelEntryInv DEF AdmissionClosed
    <2>3. CASE AdmissionFails(i)  BY <2>3, HolderInv DEF AdmissionFails
    <2>4. CASE KeepCancelled(i)  BY <2>4, HolderInv DEF KeepCancelled
    <2>5. CASE Discard(i)  BY <2>5, DiscardInv
    <2> QED  BY <1>3, <2>1, <2>2, <2>3, <2>4, <2>5 DEF HandlerStep
<1>4. ASSUME NEW i \in Ids, WorkerStep(i)
      PROVE  JobsInv'
    <2>1. CASE StaleClose(i)
        <3>1. "cancelled" \in Outcomes  BY DEF Outcomes, Terminal
        <3> QED  BY <2>1, <3>1, FinishEntryInv DEF StaleClose
    <2>2. ASSUME NEW status \in Outcomes, Finish(i, status) PROVE JobsInv'
        BY <2>2, FinishEntryInv DEF Finish
    <2> QED  BY <1>4, <2>1, <2>2 DEF WorkerStep
<1>5. ASSUME NEW i \in Ids, Cancel(i)
      PROVE  JobsInv'
    <2>1. holder' = [holder EXCEPT ![i] = holder[i]] /\ holder[i] \in {"none", "handler", "refused", "worker"}
        BY <1>5 DEF Cancel, JobsInv, TypeOK
    <2> QED  BY <1>5, <2>1, CancelEntryInv DEF Cancel
<1>6. CASE Lookup  BY <1>6, PruningInv DEF Lookup
<1>7. CASE Tick  BY <1>7, TickInv
<1> QED  BY <1>1, <1>2, <1>3, <1>4, <1>5, <1>6, <1>7 DEF Next

LEMMA InvHolds == Spec => []JobsInv
BY InitInv, NextInv, PTL DEF Spec

-----------------------------------------------------------------------------
(***************************************************************************)
(* What a step does to one entry: leave it; remove it, expired or          *)
(* discarded; put a new one where there was none; or move it on.           *)
(***************************************************************************)
Kept(i) == jobs'[i] = jobs[i]
Removed(i) == /\ jobs'[i] = NoJob
              /\ \/ jobs[i].status \in Terminal /\ jobs[i].age = Retention
                 \/ holder[i] = "refused" /\ Discardable(jobs[i])
Added(i) == jobs[i] = NoJob /\ \E o \in Ops \cup {NoOp} : jobs'[i] = NewJob(o)
Moved(i) == /\ jobs[i] \in Job /\ jobs'[i] \in Job
            /\ jobs[i].status \in Terminal => jobs'[i].status = jobs[i].status
            /\ jobs[i].status = "running" /\ jobs[i].cancel
                 => jobs'[i].status \in {"running", "cancelled", "recovery_required"}

LEMMA PrunedMoves ==
    ASSUME JobsInv, NEW i \in Ids, jobs'[i] = Pruned[i]
    PROVE  Kept(i) \/ Removed(i)
BY PrunedEntry DEF JobsInv, Kept, Removed

LEMMA CancelledMoves ==
    ASSUME JobsInv, NEW i \in Ids, jobs'[i] = Cancelled(jobs[i])
    PROVE  Kept(i) \/ Moved(i)
<1>1. CASE jobs[i] = NoJob  BY <1>1, AbsentStays DEF Kept
<1>2. CASE jobs[i] \in Job  BY <1>2, CancelledType DEF Moved
<1> QED  BY <1>1, <1>2 DEF JobsInv, TypeOK

LEMMA FinishedMoves ==
    ASSUME JobsInv, NEW i \in Ids, NEW status \in Outcomes,
           jobs'[i] = Finished(jobs[i], status)
    PROVE  Kept(i) \/ Moved(i)
<1>1. CASE jobs[i] = NoJob  BY <1>1, AbsentStays DEF Kept
<1>2. CASE jobs[i] \in Job  BY <1>2, FinishedType DEF Moved
<1> QED  BY <1>1, <1>2 DEF JobsInv, TypeOK

\* Every step does one of these to every entry.
LEMMA StepMoves ==
    ASSUME JobsInv, Next, NEW i \in Ids
    PROVE  Kept(i) \/ Removed(i) \/ Added(i) \/ Moved(i)
<1>1. ASSUME NEW o \in Ops \cup {NoOp}, ReserveExisting(o) \/ ReserveRefused(o)
      PROVE  Kept(i) \/ Removed(i)
    BY <1>1, PrunedMoves DEF ReserveExisting, ReserveRefused
<1>2. ASSUME NEW o \in Ops \cup {NoOp}, NEW k \in Ids, ReserveNew(o, k)
      PROVE  Kept(i) \/ Removed(i) \/ Added(i)
    <2>1. jobs[k] = NoJob /\ jobs'[i] = IF i = k THEN NewJob(o) ELSE Pruned[i]
        BY <1>2, PrunedType DEF ReserveNew, JobsInv
    <2> QED  BY <2>1, PrunedMoves DEF Added
<1>3. ASSUME NEW k \in Ids, Claim(k)
      PROVE  Kept(i) \/ Moved(i)
    <2>1. CASE i # k  BY <1>3, <2>1 DEF Claim, Kept, JobsInv, TypeOK
    <2>2. CASE i = k
        <3>1. jobs[i].status = "pending" /\ jobs'[i] = [jobs[i] EXCEPT !.status = "running"]
            BY <1>3, <2>2 DEF Claim, Claimable, JobsInv, TypeOK
        <3>2. jobs[i] \in Job  BY <3>1 DEF JobsInv, TypeOK, NoJob
        <3> QED  BY <3>1, <3>2 DEF Moved, Job, Terminal
    <2> QED  BY <2>1, <2>2
<1>4. ASSUME NEW k \in Ids, AdmissionClosed(k) \/ Cancel(k)
      PROVE  Kept(i) \/ Moved(i)
    <2>1. jobs'[i] = IF i = k THEN Cancelled(jobs[i]) ELSE jobs[i]
        BY <1>4 DEF AdmissionClosed, Cancel, JobsInv, TypeOK
    <2> QED  BY <2>1, CancelledMoves DEF Kept
<1>5. ASSUME NEW k \in Ids, AdmissionFails(k) \/ KeepCancelled(k)
      PROVE  Kept(i)
    BY <1>5 DEF AdmissionFails, KeepCancelled, Kept
<1>6. ASSUME NEW k \in Ids, Discard(k)
      PROVE  Kept(i) \/ Removed(i)
    BY <1>6 DEF Discard, Kept, Removed, JobsInv, TypeOK
<1>7. ASSUME NEW k \in Ids, NEW status \in Outcomes,
             jobs' = [jobs EXCEPT ![k] = Finished(@, status)]
      PROVE  Kept(i) \/ Moved(i)
    <2>1. jobs'[i] = IF i = k THEN Finished(jobs[i], status) ELSE jobs[i]
        BY <1>7 DEF JobsInv, TypeOK
    <2> QED  BY <2>1, FinishedMoves DEF Kept
<1>8. ASSUME NEW k \in Ids, WorkerStep(k)
      PROVE  Kept(i) \/ Moved(i)
    <2>1. "cancelled" \in Outcomes  BY DEF Outcomes, Terminal
    <2> QED  BY <1>7, <1>8, <2>1 DEF WorkerStep, StaleClose, Finish
<1>9. CASE Lookup  BY <1>9, PrunedMoves DEF Lookup
<1>10. CASE Tick
    <2>1. jobs'[i] = Aged(jobs[i])  BY <1>10 DEF Tick
    <2>2. CASE jobs[i] = NoJob  BY <2>1, <2>2, AbsentStays DEF Kept
    <2>3. CASE jobs[i] \in Job  BY <2>1, <2>3, AgedType DEF Moved
    <2> QED  BY <2>2, <2>3 DEF JobsInv, TypeOK
<1> QED
    BY <1>1, <1>2, <1>3, <1>4, <1>5, <1>6, <1>8, <1>9, <1>10 DEF Next, HandlerStep

LEMMA StepOutcome ==
    ASSUME JobsInv, Next, NEW i \in Ids
    PROVE  /\ jobs[i].status = "running" /\ jobs[i].cancel
                => jobs'[i].status \in {"running", "cancelled", "recovery_required"}
           /\ jobs[i].status \in Terminal => jobs'[i].status \in {jobs[i].status, "absent"}
<1>1. CASE Kept(i)  BY <1>1 DEF Kept
<1>2. CASE Removed(i)
    BY <1>2 DEF Removed, Discardable, NoJob, Terminal
<1>3. CASE Added(i)  BY <1>3 DEF Added, NoJob, Terminal
<1>4. CASE Moved(i)  BY <1>4 DEF Moved
<1> QED  BY <1>1, <1>2, <1>3, <1>4, StepMoves

LEMMA StepKeepsResult ==
    ASSUME JobsInv, Next, NEW i \in Ids,
           jobs[i] # NoJob, jobs'[i] = NoJob, holder[i] # "refused"
    PROVE  jobs[i].status \in Terminal /\ jobs[i].age = Retention
<1>1. ~Kept(i)  BY DEF Kept
<1>2. ~Added(i)  BY DEF Added
<1>3. ~Moved(i)  BY NoJobType DEF Moved
<1> QED  BY <1>1, <1>2, <1>3, StepMoves DEF Removed

-----------------------------------------------------------------------------
(***************************************************************************)
(* The theorems.                                                           *)
(***************************************************************************)

\* The table has its shape, never more than lifecycleJobMaxEntries entries, and
\* the index by operation is what the table says, whatever is pruned,
\* discarded or cancelled: an operation never has two jobs.
THEOREM TableHolds == Spec => []TableIsSound
<1>1. JobsInv => TableIsSound  BY DEF JobsInv, TableIsSound, WithinCapacity
<1> QED  BY <1>1, InvHolds, PTL

\* A job runs exactly as long as a worker holds it.
THEOREM WorkersHold == Spec => []RunningHasWorker
<1>1. JobsInv => RunningHasWorker  BY DEF JobsInv
<1> QED  BY <1>1, InvHolds, PTL

\* An accepted cancel and a reported outcome are never taken back.
THEOREM OutcomesStand == Spec => OutcomeStands
<1>1. JobsInv /\ [Next]_vars =>
        [\A i \in Ids :
           /\ jobs[i].status = "running" /\ jobs[i].cancel
                => jobs'[i].status \in {"running", "cancelled", "recovery_required"}
           /\ jobs[i].status \in Terminal
                => jobs'[i].status \in {jobs[i].status, "absent"}]_vars
    BY StepOutcome
<1> QED  BY <1>1, InvHolds, PTL DEF Spec, OutcomeStands

\* A job that no handler discards leaves the table only when it has been
\* terminal for the whole retention.
THEOREM ResultsKept == Spec => ResultIsKept
<1>1. JobsInv /\ [Next]_vars =>
        [\A i \in Ids :
           jobs[i] # NoJob /\ jobs'[i] = NoJob /\ holder[i] # "refused"
             => jobs[i].status \in Terminal /\ jobs[i].age = Retention]_vars
    BY StepKeepsResult
<1> QED  BY <1>1, InvHolds, PTL DEF Spec, ResultIsKept
=============================================================================
