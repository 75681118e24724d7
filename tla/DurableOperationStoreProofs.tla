-------------------- MODULE DurableOperationStoreProofs --------------------
(***************************************************************************)
(* Theorems about the durable operation store, for any number of           *)
(* operations, requests, write faults, restarts and power losses.          *)
(***************************************************************************)
EXTENDS DurableOperationStore, FiniteSetTheorems, TLAPS

-----------------------------------------------------------------------------
(***************************************************************************)
(* Facts about the helpers.                                                *)
(***************************************************************************)
LEMMA EmptyTableType == EmptyTable \in Table
BY DEF EmptyTable, Table

LEMMA PrunedType == ASSUME NEW table \in Table PROVE Pruned(table) \in Table
BY DEF Pruned, Table

LEMMA MovedType ==
    ASSUME NEW rec \in Record, clock \in Nat,
           NEW outcome \in Outcomes \cup {<<"cancelled", "restart">>}
    PROVE  /\ Moved(rec, outcome) \in Record
           /\ Moved(rec, outcome).req = rec.req
           /\ Moved(rec, outcome).status = outcome[1]
           /\ Moved(rec, outcome).updated = clock
<1>1. outcome[1] \in Unfinished \cup Terminal /\ outcome[2] \in Notes
    BY DEF Outcomes, Unfinished, Terminal, Notes
<1> DEFINE s == outcome[1]
           n == outcome[2]
<1>2. s \in Unfinished \cup Terminal /\ n \in Notes  BY <1>1
<1>3. Moved(rec, outcome) = [rec EXCEPT !.status = s, !.note = n, !.updated = clock]
    BY DEF Moved
<1> HIDE DEF s, n
<1>4. /\ Moved(rec, outcome) \in Record
      /\ Moved(rec, outcome).req = rec.req
      /\ Moved(rec, outcome).status = s
      /\ Moved(rec, outcome).updated = clock
    BY <1>2, <1>3 DEF Record
<1> QED  BY <1>4 DEF s

LEMMA RecoveredType ==
    ASSUME NEW table \in Table, clock \in Nat
    PROVE  Recovered(table) \in Table
<1>1. Pruned(table) \in Table  BY PrunedType
<1> SUFFICES ASSUME NEW op \in OpIds
             PROVE  Reconciled(op, Pruned(table)[op]) \in Record \cup {NoRecord}
    BY DEF Recovered, Table
<1>2. Pruned(table)[op] \in Record \cup {NoRecord}  BY <1>1 DEF Table
<1>3. CASE ~IsUnfinished(Pruned(table)[op])  BY <1>2, <1>3 DEF Reconciled
<1>4. CASE IsUnfinished(Pruned(table)[op])
    <2>1. Pruned(table)[op] \in Record  BY <1>2, <1>4 DEF IsUnfinished
    <2>2. /\ Moved(Pruned(table)[op], <<"recovery_required", "recovery">>) \in Record
          /\ Moved(Pruned(table)[op], <<"cancelled", "restart">>) \in Record
        BY <2>1, MovedType DEF Outcomes
    <2> QED  BY <2>2, <1>4 DEF Reconciled
<1> QED  BY <1>3, <1>4

\* One replacement of the file leaves it alone or installs the new content.
LEMMA PersistEffect ==
    ASSUME NEW next, NEW result, Persist(next, result)
    PROVE  \/ ~Committed(result) /\ UNCHANGED files
           \/ /\ Committed(result)
              /\ disk' = next
              /\ survivors' = {next} \/ survivors' = survivors \cup {next}
BY DEF Persist, Committed

LEMMA PersistType ==
    ASSUME TypeOK, NEW next \in Table, NEW result, Persist(next, result)
    PROVE  /\ disk' \in Table /\ survivors' \in SUBSET Table
           /\ faults' \in Nat
<1>1. faults' \in Nat  BY DEF Persist, Fault, TypeOK
<1> QED  BY <1>1, PersistEffect DEF TypeOK, files

-----------------------------------------------------------------------------
(***************************************************************************)
(* Type correctness.                                                       *)
(***************************************************************************)
LEMMA InitType == Init => TypeOK
<1> SUFFICES ASSUME Init PROVE TypeOK  OBVIOUS
<1>1. reply \in [op : OpIds \cup {NoOp}, verdict : Verdicts, rec : Record \cup {NoRecord}]
    BY DEF Init, NoReply, Verdicts
<1> QED  BY <1>1, EmptyTableType DEF Init, TypeOK

LEMMA NoReplyType ==
    NoReply \in [op : OpIds \cup {NoOp}, verdict : Verdicts, rec : Record \cup {NoRecord}]
BY DEF NoReply, Verdicts

LEMMA AnswerType ==
    ASSUME NEW op \in OpIds, NEW verdict \in Verdicts,
           NEW rec \in Record \cup {NoRecord}
    PROVE  Answer(op, verdict, rec) \in
             [op : OpIds \cup {NoOp}, verdict : Verdicts, rec : Record \cup {NoRecord}]
BY DEF Answer

LEMMA OpenType == ASSUME TypeOK, NEW result, Open(result) PROVE TypeOK'
<1>1. Pruned(disk) \in Table  BY PrunedType DEF TypeOK
<1>2. reply' = NoReply  BY DEF Open
<1>3. UNCHANGED <<journal, deferred, clock, settled, restarts, outages>>
    BY DEF Open, bounds
<1>4. phase' \in {"opened", "down"}  BY DEF Open
<1>5. mem' \in Table  BY <1>1 DEF Open, TypeOK
<1>6. disk' \in Table /\ survivors' \in SUBSET Table /\ faults' \in Nat
    BY <1>1, PersistType DEF Open, TypeOK, files
<1> QED  BY <1>2, <1>3, <1>4, <1>5, <1>6, NoReplyType DEF TypeOK

LEMMA RecoverType == ASSUME TypeOK, NEW result, Recover(result) PROVE TypeOK'
<1>1. Recovered(mem) \in Table  BY RecoveredType DEF TypeOK
<1>2. reply' = NoReply  BY DEF Recover
<1>3. UNCHANGED <<journal, deferred, clock, settled, restarts, outages>>
    BY DEF Recover, bounds
<1>4. phase' \in {"serving", "retry", "down"}  BY DEF Recover, AfterRecover
<1>5. mem' \in Table  BY <1>1, EmptyTableType DEF Recover, TypeOK
<1>6. disk' \in Table /\ survivors' \in SUBSET Table /\ faults' \in Nat
    BY <1>1, PersistType DEF Recover, TypeOK, files
<1> QED  BY <1>2, <1>3, <1>4, <1>5, <1>6, NoReplyType DEF TypeOK

LEMMA ReserveExistingType ==
    ASSUME TypeOK, NEW op \in OpIds, NEW req \in Requests, ReserveExisting(op, req)
    PROVE  TypeOK'
<1>1. mem[op] \in Record \cup {NoRecord}  BY DEF TypeOK, Table
<1>2. reply' \in [op : OpIds \cup {NoOp}, verdict : Verdicts, rec : Record \cup {NoRecord}]
    <2>1. /\ "replayed" \in Verdicts /\ "conflict" \in Verdicts
          /\ NoRecord \in Record \cup {NoRecord}
        BY DEF Verdicts
    <2>2. reply' \in {Answer(op, "replayed", mem[op]), Answer(op, "conflict", NoRecord)}
        BY DEF ReserveExisting
    <2> QED  BY <1>1, <2>1, <2>2, AnswerType
<1> QED  BY <1>2 DEF ReserveExisting, TypeOK, files, bounds

LEMMA ReserveFlushesDeferredType ==
    ASSUME TypeOK, NEW op \in OpIds, NEW req \in Requests, NEW result,
           ReserveFlushesDeferred(op, req, result)
    PROVE  TypeOK'
<1>1. /\ mem[op] \in Record \cup {NoRecord} /\ deferred[op] \in Record \cup {NoRecord}
      /\ NoRecord \in Record \cup {NoRecord}
    BY DEF TypeOK, Table
<1> DEFINE next == [mem EXCEPT ![op] = deferred[op]]
<1>2. next \in Table  BY <1>1 DEF TypeOK, Table
<1>3. Persist(next, result) /\ mem' \in {next, mem}
    BY DEF ReserveFlushesDeferred, PersistAndInstall
<1>4. disk' \in Table /\ survivors' \in SUBSET Table /\ faults' \in Nat
    BY <1>2, <1>3, PersistType
<1>5. deferred' \in Table /\ settled' \in Table
    BY <1>1 DEF ReserveFlushesDeferred, Defer, TypeOK, Table
<1>6. reply' \in [op : OpIds \cup {NoOp}, verdict : Verdicts, rec : Record \cup {NoRecord}]
    <2>1. "replayed" \in Verdicts /\ "unsettled" \in Verdicts  BY DEF Verdicts
    <2>2. reply' \in {Answer(op, "replayed", deferred[op]), Answer(op, "unsettled", mem[op])}
        BY DEF ReserveFlushesDeferred
    <2> QED  BY <1>1, <2>1, <2>2, AnswerType
<1>7. mem' \in Table  BY <1>2, <1>3 DEF TypeOK
<1>8. UNCHANGED <<journal, phase, clock, restarts, outages>>
    BY DEF ReserveFlushesDeferred, bounds
<1> QED  BY <1>4, <1>5, <1>6, <1>7, <1>8 DEF TypeOK

LEMMA ReserveType ==
    ASSUME TypeOK, NEW op \in OpIds, NEW req \in Requests,
           NEW outcome \in Reservations, NEW result, Reserve(op, req, outcome, result)
    PROVE  TypeOK'
<1> DEFINE rec == [req |-> req, status |-> outcome[1], note |-> outcome[2],
                   updated |-> clock]
           next == [Pruned(mem) EXCEPT ![op] = rec]
<1>1. rec \in Record
    BY DEF Record, Reservations, Unfinished, Terminal, Notes, TypeOK
<1>2. next \in Table  BY <1>1, PrunedType DEF TypeOK, Table
<1>3. /\ (UNCHANGED files /\ faults' = faults) \/ Persist(next, result)
      /\ mem' \in {next, mem}
    BY DEF Reserve, PersistAndInstall
<1>4. disk' \in Table /\ survivors' \in SUBSET Table /\ faults' \in Nat
    BY <1>2, <1>3, PersistType DEF TypeOK, files
<1>5. settled' \in Table
    <2>1. \/ settled' = settled
          \/ settled' = [settled EXCEPT ![op] = rec]
          \/ settled' = [settled EXCEPT ![op] = NoRecord]
        BY DEF Reserve
    <2> QED  BY <1>1, <2>1 DEF TypeOK, Table
<1>6. reply' \in [op : OpIds \cup {NoOp}, verdict : Verdicts, rec : Record \cup {NoRecord}]
    <2>1. /\ {"full", "new", "error"} \subseteq Verdicts
          /\ rec \in Record \cup {NoRecord} /\ NoRecord \in Record \cup {NoRecord}
        BY <1>1 DEF Verdicts
    <2>2. reply' \in {Answer(op, "full", NoRecord), Answer(op, "new", rec),
                      Answer(op, "error", NoRecord)}
        BY DEF Reserve
    <2> QED  BY <2>1, <2>2, AnswerType
<1>7. mem' \in Table  BY <1>2, <1>3 DEF TypeOK
<1>8. UNCHANGED <<journal, phase, deferred, clock, restarts, outages>>
    BY DEF Reserve, bounds
<1> QED  BY <1>4, <1>5, <1>6, <1>7, <1>8 DEF TypeOK

LEMMA TransitionFinishedType ==
    ASSUME TypeOK, NEW op \in OpIds, NEW outcome, TransitionFinished(op, outcome)
    PROVE  TypeOK'
<1>1. mem[op] \in Record \cup {NoRecord}  BY DEF TypeOK, Table
<1>2. reply' \in [op : OpIds \cup {NoOp}, verdict : Verdicts, rec : Record \cup {NoRecord}]
    <2>1. "settled" \in Verdicts /\ "error" \in Verdicts  BY DEF Verdicts
    <2>2. reply' \in {Answer(op, "settled", mem[op]), Answer(op, "error", NoRecord)}
        BY DEF TransitionFinished
    <2> QED  BY <1>1, <2>1, <2>2, AnswerType
<1> QED  BY <1>2 DEF TransitionFinished, TypeOK, files, bounds

LEMMA TransitionType ==
    ASSUME TypeOK, NEW op \in OpIds, NEW outcome \in Outcomes, NEW result,
           Transition(op, outcome, result)
    PROVE  TypeOK'
<1> DEFINE rec == Moved(mem[op], outcome)
           next == [Pruned(mem) EXCEPT ![op] = rec]
<1>1. mem[op] \in Record
    BY DEF Transition, IsUnfinished, TypeOK, Table
<1>2. rec \in Record  BY <1>1, MovedType DEF TypeOK
<1>3. next \in Table  BY <1>2, PrunedType DEF TypeOK, Table
<1>4. Persist(next, result) /\ mem' \in {next, mem}
    BY DEF Transition, PersistAndInstall
<1>5. disk' \in Table /\ survivors' \in SUBSET Table /\ faults' \in Nat
    BY <1>3, <1>4, PersistType
<1>6. mem' \in Table  BY <1>3, <1>4 DEF TypeOK
<1>7. deferred' \in Table
    <2>1. deferred' \in {[deferred EXCEPT ![op] = NoRecord], [deferred EXCEPT ![op] = rec]}
        BY DEF Transition, Defer
    <2> HIDE DEF rec
    <2> QED  BY <1>2, <2>1 DEF TypeOK, Table
<1>8. settled' \in Table
    <2>1. settled' \in {settled, [settled EXCEPT ![op] = rec]}  BY DEF Transition
    <2> HIDE DEF rec
    <2> QED  BY <1>2, <2>1 DEF TypeOK, Table
<1>9. reply' \in [op : OpIds \cup {NoOp}, verdict : Verdicts, rec : Record \cup {NoRecord}]
    <2>1. /\ "settled" \in Verdicts /\ "error" \in Verdicts
          /\ mem'[op] \in Record \cup {NoRecord}
        BY <1>6 DEF Verdicts, Table
    <2>2. reply' \in {Answer(op, "settled", mem'[op]), Answer(op, "error", NoRecord)}
        BY DEF Transition
    <2> QED  BY <2>1, <2>2, AnswerType
<1>10. UNCHANGED <<journal, phase, clock, restarts, outages>>
    BY DEF Transition, bounds
<1> QED  BY <1>5, <1>6, <1>7, <1>8, <1>9, <1>10 DEF TypeOK

LEMMA SurroundingsType ==
    ASSUME TypeOK,
           (\E op \in OpIds : WriteJournal(op)) \/ ClearJournal \/ Tick
             \/ Crash \/ PowerLoss \/ Probe
    PROVE  TypeOK'
<1>1. CASE \E op \in OpIds : WriteJournal(op)
    BY <1>1, NoReplyType DEF WriteJournal, JournalStep, TypeOK, bounds
<1>2. CASE ClearJournal
    BY <1>2, NoReplyType DEF ClearJournal, JournalStep, TypeOK, bounds
<1>3. CASE Tick
    BY <1>3, NoReplyType DEF Tick, TypeOK, files, bounds
<1>4. CASE Crash
    BY <1>4, NoReplyType, EmptyTableType DEF Crash, ProcessStops, TypeOK, files
<1>5. CASE PowerLoss
    BY <1>5, NoReplyType, EmptyTableType DEF PowerLoss, ProcessStops, TypeOK
<1>6. CASE Probe
    <2>1. Recovered(disk) \in Table  BY RecoveredType DEF TypeOK
    <2>2. disk' \in Table /\ survivors' \in SUBSET Table /\ faults' \in Nat
        BY <1>6, <2>1, PersistType DEF Probe
    <2> QED  BY <1>6, <2>2, NoReplyType DEF Probe, TypeOK, bounds
<1> QED  BY <1>1, <1>2, <1>3, <1>4, <1>5, <1>6

LEMMA NextType == TypeOK /\ [Next]_vars => TypeOK'
<1> SUFFICES ASSUME TypeOK, [Next]_vars PROVE TypeOK'  OBVIOUS
<1>1. CASE UNCHANGED vars  BY <1>1 DEF TypeOK, vars
<1>2. CASE Next
    BY <1>2, OpenType, RecoverType, ReserveExistingType, ReserveFlushesDeferredType,
       ReserveType, TransitionFinishedType, TransitionType, SurroundingsType DEF Next
<1> QED  BY <1>1, <1>2

\* Every reachable state of the store has its type: whatever is read back from
\* the file is a table of well-formed records.
THEOREM TypeCorrect == Spec => []TypeOK
<1>1. TypeOK /\ [Next]_vars => TypeOK'  BY NextType
<1> QED  BY <1>1, InitType, PTL DEF Spec

-----------------------------------------------------------------------------
(***************************************************************************)
(* Pruning and reconciling, entry by entry.                                *)
(***************************************************************************)
LEMMA StatusesDisjoint ==
    ASSUME NEW rec, IsUnfinished(rec) PROVE ~IsTerminal(rec) /\ ~Expired(rec)
BY DEF IsUnfinished, IsTerminal, Expired, Unfinished, Terminal

LEMMA PrunedEntry ==
    ASSUME NEW table \in Table, NEW op \in OpIds
    PROVE  /\ \/ Pruned(table)[op] = table[op]
              \/ Pruned(table)[op] = NoRecord /\ Expired(table[op])
           /\ IsUnfinished(table[op]) => Pruned(table)[op] = table[op]
BY StatusesDisjoint DEF Pruned

LEMMA RecoveredEntry ==
    ASSUME NEW table \in Table, NEW op \in OpIds
    PROVE  /\ ~IsUnfinished(table[op]) =>
                \/ Recovered(table)[op] = table[op]
                \/ Recovered(table)[op] = NoRecord /\ Expired(table[op])
           /\ IsUnfinished(table[op]) =>
                Recovered(table)[op] =
                  IF op = journal
                    THEN Moved(table[op], <<"recovery_required", "recovery">>)
                    ELSE Moved(table[op], <<"cancelled", "restart">>)
<1>1. Recovered(table)[op] = Reconciled(op, Pruned(table)[op])  BY DEF Recovered
<1>2. CASE IsUnfinished(table[op])
    BY <1>1, <1>2, PrunedEntry DEF Reconciled
<1>3. CASE ~IsUnfinished(table[op])
    <2>1. ~IsUnfinished(Pruned(table)[op])
        BY <1>3, PrunedEntry DEF IsUnfinished
    <2> QED  BY <1>1, <1>3, <2>1, PrunedEntry DEF Reconciled
<1> QED  BY <1>2, <1>3

\* A table keeps every settled result up to retention.
Keeps(table) == \A op \in OpIds :
    settled[op] # NoRecord =>
        \/ table[op] = settled[op]
        \/ table[op] = NoRecord /\ Expired(settled[op])

SettledIsTerminal ==
    \A op \in OpIds : settled[op] # NoRecord => IsTerminal(settled[op])

LEMMA PrunedKeeps ==
    ASSUME NEW table \in Table, Keeps(table) PROVE Keeps(Pruned(table))
<1> SUFFICES ASSUME NEW op \in OpIds, settled[op] # NoRecord
             PROVE  \/ Pruned(table)[op] = settled[op]
                    \/ Pruned(table)[op] = NoRecord /\ Expired(settled[op])
    BY DEF Keeps
<1>1. \/ table[op] = settled[op]
      \/ table[op] = NoRecord /\ Expired(settled[op])
    BY DEF Keeps
<1>2. Expired(table[op]) => table[op] # NoRecord  BY DEF Expired, IsTerminal
<1> QED  BY <1>1, <1>2, PrunedEntry

LEMMA RecoveredKeeps ==
    ASSUME NEW table \in Table, Keeps(table), SettledIsTerminal
    PROVE  Keeps(Recovered(table))
<1> SUFFICES ASSUME NEW op \in OpIds, settled[op] # NoRecord
             PROVE  \/ Recovered(table)[op] = settled[op]
                    \/ Recovered(table)[op] = NoRecord /\ Expired(settled[op])
    BY DEF Keeps
<1>1. \/ table[op] = settled[op]
      \/ table[op] = NoRecord /\ Expired(settled[op])
    BY DEF Keeps
<1>2. Expired(table[op]) => table[op] # NoRecord  BY DEF Expired, IsTerminal
<1>3. ~IsUnfinished(table[op])
    BY <1>1, StatusesDisjoint DEF SettledIsTerminal, IsUnfinished
<1> QED  BY <1>1, <1>2, <1>3, RecoveredEntry

LEMMA SurvivesIsKeeps ==
    SettledSurvives <=> \A left \in survivors \cup {disk} : Keeps(left)
BY DEF SettledSurvives, Keeps

\* A step that settles nothing new may let time pass and may leave only
\* tables on file that keep the settled results.
LEMMA KeepsStep ==
    ASSUME TypeOK, SettledSurvives, settled' = settled,
           clock' \in Nat, clock' >= clock,
           \A left \in survivors' \cup {disk'} :
               left \in survivors \cup {disk} \/ Keeps(left)
    PROVE  SettledSurvives'
<1> SUFFICES ASSUME NEW op \in OpIds, settled[op] # NoRecord,
                    NEW left \in survivors' \cup {disk'}
             PROVE  \/ left[op] = settled[op]
                    \/ left[op] = NoRecord /\ Expired(settled[op])'
    BY DEF SettledSurvives
<1>1. Keeps(left)  BY SurvivesIsKeeps
<1>2. Expired(settled[op]) => Expired(settled[op])'
    <2>1. settled[op] \in Record  BY DEF TypeOK, Table
    <2>2. settled[op].updated \in Nat /\ clock \in Nat /\ Retention \in Nat
        BY <2>1, StoreAssumption DEF Record, TypeOK
    <2> QED  BY <2>2 DEF Expired, IsTerminal
<1> QED  BY <1>1, <1>2 DEF Keeps

\* A step that settles the record it has just written completely, or forgets
\* an older result of the same operation.
LEMMA SettleStep ==
    ASSUME SettledSurvives, TypeOK, NEW op \in OpIds, NEW next \in Table, Keeps(next),
           clock' = clock,
           NEW rec, next[op] = rec,
           disk' = next,
           survivors' = {next},
           settled' = [settled EXCEPT ![op] = rec]
    PROVE  SettledSurvives'
<1> SUFFICES ASSUME NEW o \in OpIds, settled'[o] # NoRecord
             PROVE  \/ next[o] = settled'[o]
                    \/ next[o] = NoRecord /\ Expired(settled[o])'
    BY DEF SettledSurvives
<1>1. settled'[o] = IF o = op THEN rec ELSE settled[o]  BY DEF TypeOK, Table
<1> QED  BY <1>1 DEF Keeps, Expired, IsTerminal

LEMMA ForgetStep ==
    ASSUME SettledSurvives, TypeOK, NEW op \in OpIds, clock' = clock,
           settled' = [settled EXCEPT ![op] = NoRecord],
           \A left \in survivors' \cup {disk'} :
               \/ left \in survivors \cup {disk}
               \/ \A o \in OpIds \ {op} :
                    settled[o] # NoRecord =>
                        \/ left[o] = settled[o]
                        \/ left[o] = NoRecord /\ Expired(settled[o])
    PROVE  SettledSurvives'
<1> SUFFICES ASSUME NEW o \in OpIds, settled'[o] # NoRecord,
                    NEW left \in survivors' \cup {disk'}
             PROVE  \/ left[o] = settled'[o]
                    \/ left[o] = NoRecord /\ Expired(settled[o])'
    BY DEF SettledSurvives
<1>1. o # op /\ settled'[o] = settled[o]  BY DEF TypeOK, Table
<1>2. \/ left[o] = settled[o]
      \/ left[o] = NoRecord /\ Expired(settled[o])
    BY <1>1 DEF SettledSurvives
<1> QED  BY <1>1, <1>2 DEF Expired, IsTerminal
-----------------------------------------------------------------------------
(***************************************************************************)
(* The inductive invariant.  MirrorsFile alone is not inductive: start-up  *)
(* must leave memory equal to the file before it serves, and a stopped     *)
(* process must not carry a deferred transition over.                      *)
(***************************************************************************)
StoreInv ==
    /\ TypeOK
    /\ phase # "down" => mem = disk
    /\ phase # "serving" => deferred = EmptyTable
    /\ disk \in survivors
    /\ DeferredIsUnfinished
    /\ SettledIsTerminal
    /\ SettledSurvives

LEMMA InitInv == Init => StoreInv
<1> SUFFICES ASSUME Init PROVE StoreInv  OBVIOUS
<1>1. TypeOK  BY InitType
<1>2. DeferredIsUnfinished  BY DEF Init, DeferredIsUnfinished, EmptyTable
<1>3. SettledIsTerminal /\ SettledSurvives
    BY DEF Init, SettledIsTerminal, SettledSurvives, EmptyTable
<1> QED  BY <1>1, <1>2, <1>3 DEF StoreInv, Init

LEMMA EmptyDeferred ==
    ASSUME deferred' = EmptyTable PROVE DeferredIsUnfinished'
BY DEF DeferredIsUnfinished, EmptyTable

LEMMA OpenInv == ASSUME StoreInv, NEW result, Open(result) PROVE StoreInv'
<1> USE DEF StoreInv
<1>1. TypeOK'  BY OpenType
<1>2. deferred' = EmptyTable /\ settled' = settled /\ clock' = clock
    BY DEF Open
<1>3. Keeps(Pruned(disk))  BY PrunedKeeps, SurvivesIsKeeps DEF TypeOK
<1>4. \/ disk' = disk /\ survivors' = survivors
      \/ disk' = Pruned(disk) /\ survivors' \in {{disk'}, survivors \cup {disk'}}
    BY PersistEffect DEF Open, files
<1>5. phase' # "down" => mem' = disk'
    BY PersistEffect DEF Open, Committed, files
<1>6. SettledSurvives'
    BY <1>2, <1>3, <1>4, KeepsStep DEF TypeOK
<1> QED  BY <1>1, <1>2, <1>4, <1>5, <1>6, EmptyDeferred DEF SettledIsTerminal, IsTerminal

LEMMA RecoverInv == ASSUME StoreInv, NEW result, Recover(result) PROVE StoreInv'
<1> USE DEF StoreInv
<1>1. TypeOK'  BY RecoverType
<1>2. deferred' = EmptyTable /\ settled' = settled /\ clock' = clock
    BY DEF Recover
<1>3. Keeps(Recovered(mem))  BY RecoveredKeeps, SurvivesIsKeeps DEF TypeOK, Recover
<1>4. \/ disk' = disk /\ survivors' = survivors
      \/ disk' = Recovered(mem) /\ survivors' \in {{disk'}, survivors \cup {disk'}}
    BY PersistEffect DEF Recover, files
<1>5. phase' # "down" => mem' = disk'
    BY PersistEffect DEF Recover, AfterRecover, files
<1>6. SettledSurvives'
    BY <1>2, <1>3, <1>4, KeepsStep DEF TypeOK
<1> QED  BY <1>1, <1>2, <1>4, <1>5, <1>6, EmptyDeferred DEF SettledIsTerminal, IsTerminal

LEMMA SteadyInv ==
    ASSUME StoreInv, TypeOK', UNCHANGED <<files, phase, mem, deferred, clock, settled>>
    PROVE  StoreInv'
BY DEF StoreInv, files, DeferredIsUnfinished, IsUnfinished, SettledIsTerminal,
       IsTerminal, SettledSurvives, Expired

LEMMA ReserveFlushesDeferredInv ==
    ASSUME StoreInv, NEW op \in OpIds, NEW req \in Requests, NEW result,
           ReserveFlushesDeferred(op, req, result)
    PROVE  StoreInv'
<1> USE DEF StoreInv
<1> DEFINE rec == deferred[op]
           next == [mem EXCEPT ![op] = rec]
<1>1. TypeOK'  BY ReserveFlushesDeferredType
<1>2. mem = disk /\ mem \in Table /\ clock' = clock /\ phase' = phase /\ phase = "serving"
    BY DEF ReserveFlushesDeferred, TypeOK
<1>3. rec \in Record /\ IsUnfinished(mem[op])
    BY DEF ReserveFlushesDeferred, TypeOK, Table, DeferredIsUnfinished
<1>4. settled[op] = NoRecord
    BY <1>2, <1>3 DEF SettledSurvives, SettledIsTerminal, IsUnfinished, IsTerminal,
                      Unfinished, Terminal
<1>5. next \in Table /\ next[op] = rec /\ Keeps(next)
    <2>1. \A o \in OpIds : o # op => next[o] = mem[o]  BY <1>2 DEF Table
    <2> QED  BY <1>2, <1>3, <1>4, <2>1, SurvivesIsKeeps DEF Keeps, Table
<1> HIDE DEF rec, next
<1>6. PersistAndInstall(next, result)
    BY DEF ReserveFlushesDeferred, next, rec
<1>7. CASE ~Committed(result)
    <2>1. UNCHANGED <<files, mem, deferred, settled>>
        BY <1>6, <1>7, PersistEffect
           DEF PersistAndInstall, ReserveFlushesDeferred, Defer,
               Committed, TypeOK, Table
    <2> QED  BY <1>1, <1>2, <2>1, SteadyInv
<1>8. CASE Committed(result)
    <2>1. /\ disk' = next /\ mem' = next
          /\ survivors' \in {{next}, survivors \cup {next}}
        BY <1>6, <1>8, PersistEffect DEF PersistAndInstall
    <2>2. deferred' = [deferred EXCEPT ![op] = NoRecord]
        BY <1>8 DEF ReserveFlushesDeferred, Defer
    <2>3. DeferredIsUnfinished'
        <3> SUFFICES ASSUME NEW o \in OpIds, deferred'[o] # NoRecord
                     PROVE  /\ IsUnfinished(next[o])
                            /\ deferred'[o].req = next[o].req
            BY <2>1 DEF DeferredIsUnfinished, IsUnfinished
        <3>1. o # op /\ deferred'[o] = deferred[o] /\ next[o] = mem[o]
            BY <1>2, <2>2 DEF TypeOK, Table, next
        <3> QED  BY <3>1 DEF DeferredIsUnfinished
    <2>4. CASE result = "synced" /\ IsTerminal(rec)
        <3>1. settled' = [settled EXCEPT ![op] = rec]
            BY <2>4 DEF ReserveFlushesDeferred, rec
        <3>2. survivors' = {next}
            BY <1>6, <2>4 DEF PersistAndInstall, Persist
        <3>3. SettledSurvives'
            BY <1>2, <1>5, <2>1, <3>1, <3>2, SettleStep
        <3>4. SettledIsTerminal'
            BY <2>4, <3>1 DEF SettledIsTerminal, IsTerminal, TypeOK, Table
        <3> QED  BY <1>1, <1>2, <2>1, <2>3, <3>2, <3>3, <3>4
    <2>5. CASE ~(result = "synced" /\ IsTerminal(rec))
        <3>1. settled' = settled
            BY <2>5 DEF ReserveFlushesDeferred, rec
        <3>2. SettledSurvives'
            BY <1>2, <1>5, <2>1, <3>1, KeepsStep DEF TypeOK
        <3> QED  BY <1>1, <1>2, <2>1, <2>3, <3>1, <3>2
                 DEF SettledIsTerminal, IsTerminal
    <2> QED  BY <2>4, <2>5
<1> QED  BY <1>7, <1>8

LEMMA ReserveInv ==
    ASSUME StoreInv, NEW op \in OpIds, NEW req \in Requests,
           NEW outcome \in Reservations, NEW result, Reserve(op, req, outcome, result)
    PROVE  StoreInv'
<1> USE DEF StoreInv
<1> DEFINE rec == [req |-> req, status |-> outcome[1], note |-> outcome[2],
                   updated |-> clock]
           next == [Pruned(mem) EXCEPT ![op] = rec]
<1>1. TypeOK'  BY ReserveType
<1>2. /\ mem = disk /\ mem \in Table /\ clock' = clock /\ phase' = phase
      /\ phase = "serving" /\ deferred' = deferred /\ mem[op] = NoRecord
    BY DEF Reserve, TypeOK
<1>3. Pruned(mem) \in Table /\ Keeps(Pruned(mem))
    BY <1>2, PrunedType, PrunedKeeps, SurvivesIsKeeps
<1>4. \A o \in OpIds : o # op => next[o] = Pruned(mem)[o]  BY <1>3 DEF Table
<1>5. next[op] = rec /\ rec \in Record
    BY <1>3 DEF Table, Record, Reservations, Unfinished, Terminal, Notes, TypeOK
<1> HIDE DEF rec, next
<1>6. CASE UNCHANGED <<files, mem, settled>>
    BY <1>1, <1>2, <1>6, SteadyInv
<1>7. CASE PersistAndInstall(next, result) /\
           settled' = [settled EXCEPT ![op] =
                         IF result = "synced" /\ IsTerminal(rec) THEN rec ELSE NoRecord]
    <2>1. \/ ~Committed(result) /\ UNCHANGED <<disk, survivors, mem>>
          \/ /\ disk' = next /\ mem' = next
             /\ survivors' \in {{next}, survivors \cup {next}}
        BY <1>7, PersistEffect DEF PersistAndInstall, files
    <2>2. DeferredIsUnfinished'
        <3> SUFFICES ASSUME NEW o \in OpIds, deferred[o] # NoRecord
                     PROVE  mem'[o] = mem[o] /\ IsUnfinished(mem[o])
            BY <1>2 DEF DeferredIsUnfinished, IsUnfinished
        <3>1. IsUnfinished(mem[o]) /\ o # op
            BY <1>2 DEF DeferredIsUnfinished, IsUnfinished
        <3> QED  BY <1>2, <1>4, <2>1, <3>1, PrunedEntry
    <2>3. CASE result = "synced" /\ IsTerminal(rec)
        <3>1. settled' = [settled EXCEPT ![op] = rec]  BY <1>7, <2>3
        <3>2. survivors' = {next} /\ disk' = next /\ mem' = next
            BY <1>7, <2>3 DEF PersistAndInstall, Persist, Committed
        <3>3. \A o \in OpIds :
                settled'[o] # NoRecord =>
                    \/ next[o] = settled'[o]
                    \/ next[o] = NoRecord /\ Expired(settled[o])
            BY <1>3, <1>4, <1>5, <3>1 DEF Keeps, TypeOK, Table
        <3>4. SettledSurvives'
            <4> SUFFICES ASSUME NEW o \in OpIds, settled'[o] # NoRecord
                         PROVE  \/ next[o] = settled'[o]
                                \/ next[o] = NoRecord /\ Expired(settled[o])'
                BY <3>2 DEF SettledSurvives
            <4>1. CASE o = op
                BY <1>5, <3>1, <4>1 DEF TypeOK, Table
            <4>2. CASE o # op
                <5>1. settled'[o] = settled[o]  BY <3>1, <4>2 DEF TypeOK, Table
                <5> QED  BY <1>2, <3>3, <5>1 DEF Expired, IsTerminal
            <4> QED  BY <4>1, <4>2
        <3>5. SettledIsTerminal'
            BY <2>3, <3>1 DEF SettledIsTerminal, IsTerminal, TypeOK, Table
        <3> QED  BY <1>1, <1>2, <2>2, <3>2, <3>4, <3>5
    <2>4. CASE ~(result = "synced" /\ IsTerminal(rec))
        <3>1. settled' = [settled EXCEPT ![op] = NoRecord]  BY <1>7, <2>4
        <3>2. \A o \in OpIds \ {op} :
                settled[o] # NoRecord =>
                    \/ next[o] = settled[o]
                    \/ next[o] = NoRecord /\ Expired(settled[o])
            BY <1>3, <1>4 DEF Keeps
        <3>3. SettledSurvives'
            BY <1>2, <2>1, <3>1, <3>2, ForgetStep
        <3>4. SettledIsTerminal'
            BY <3>1 DEF SettledIsTerminal, IsTerminal, TypeOK, Table
        <3> QED  BY <1>1, <1>2, <2>1, <2>2, <3>3, <3>4
    <2> QED  BY <2>3, <2>4
<1> QED  BY <1>6, <1>7 DEF Reserve, rec, next

LEMMA TransitionInv ==
    ASSUME StoreInv, NEW op \in OpIds, NEW outcome \in Outcomes, NEW result,
           Transition(op, outcome, result)
    PROVE  StoreInv'
<1> USE DEF StoreInv
<1> DEFINE rec == Moved(mem[op], outcome)
           next == [Pruned(mem) EXCEPT ![op] = rec]
<1>1. TypeOK'  BY TransitionType
<1>2. /\ mem = disk /\ mem \in Table /\ clock' = clock /\ phase' = phase
      /\ phase = "serving" /\ IsUnfinished(mem[op])
    BY DEF Transition, TypeOK
<1>3. mem[op] \in Record  BY <1>2 DEF IsUnfinished, Table
<1>4. rec \in Record /\ rec.req = mem[op].req  BY <1>3, MovedType DEF TypeOK
<1>5. settled[op] = NoRecord
    BY <1>2 DEF SettledSurvives, SettledIsTerminal, IsUnfinished, IsTerminal,
                Unfinished, Terminal
<1>6. Pruned(mem) \in Table /\ Keeps(Pruned(mem))
    BY <1>2, PrunedType, PrunedKeeps, SurvivesIsKeeps
<1> HIDE DEF rec
<1>7. next \in Table /\ next[op] = rec /\ \A o \in OpIds : o # op => next[o] = Pruned(mem)[o]
    BY <1>4, <1>6 DEF Table
<1>8. Keeps(next)  BY <1>5, <1>6, <1>7 DEF Keeps
<1> HIDE DEF next
<1>9. /\ PersistAndInstall(next, result)
      /\ deferred' = [deferred EXCEPT ![op] = IF Committed(result) THEN NoRecord ELSE rec]
      /\ settled' = IF result = "synced" /\ IsTerminal(rec)
                      THEN [settled EXCEPT ![op] = rec] ELSE settled
    BY DEF Transition, Defer, rec, next
<1>10. \/ ~Committed(result) /\ UNCHANGED <<disk, survivors, mem>>
       \/ /\ Committed(result) /\ disk' = next /\ mem' = next
          /\ survivors' \in {{next}, survivors \cup {next}}
    BY <1>9, PersistEffect DEF PersistAndInstall, files
<1>11. DeferredIsUnfinished'
    <2> SUFFICES ASSUME NEW o \in OpIds, deferred'[o] # NoRecord
                 PROVE  /\ IsUnfinished(mem'[o])
                        /\ deferred'[o].req = mem'[o].req
        BY DEF DeferredIsUnfinished, IsUnfinished
    <2>1. CASE o = op
        <3>1. deferred'[o] = rec /\ mem' = mem
            BY <1>9, <1>10, <2>1 DEF TypeOK, Table
        <3> QED  BY <1>2, <1>4, <2>1, <3>1
    <2>2. CASE o # op
        <3>1. deferred'[o] = deferred[o]  BY <1>9, <2>2 DEF TypeOK, Table
        <3>2. IsUnfinished(mem[o]) /\ deferred[o].req = mem[o].req
            BY <3>1 DEF DeferredIsUnfinished
        <3>3. mem'[o] = mem[o]  BY <1>2, <1>7, <1>10, <2>2, <3>2, PrunedEntry
        <3> QED  BY <3>1, <3>2, <3>3
    <2> QED  BY <2>1, <2>2
<1>12. SettledSurvives' /\ SettledIsTerminal'
    <2>1. CASE result = "synced" /\ IsTerminal(rec)
        <3>1. survivors' = {next} /\ disk' = next
            BY <1>9, <2>1 DEF PersistAndInstall, Persist
        <3>2. settled' = [settled EXCEPT ![op] = rec]  BY <1>9, <2>1
        <3>3. SettledSurvives'  BY <1>2, <1>7, <1>8, <3>1, <3>2, SettleStep
        <3>4. SettledIsTerminal'
            BY <2>1, <3>2 DEF SettledIsTerminal, IsTerminal, TypeOK, Table
        <3> QED  BY <3>3, <3>4
    <2>2. CASE ~(result = "synced" /\ IsTerminal(rec))
        <3>1. settled' = settled  BY <1>9, <2>2
        <3>2. SettledSurvives'  BY <1>2, <1>8, <1>10, <3>1, KeepsStep DEF TypeOK
        <3> QED  BY <3>1, <3>2 DEF SettledIsTerminal, IsTerminal
    <2> QED  BY <2>1, <2>2
<1> QED  BY <1>1, <1>2, <1>10, <1>11, <1>12

LEMMA SurroundingsInv ==
    ASSUME StoreInv,
           (\E op \in OpIds : WriteJournal(op)) \/ ClearJournal \/ Tick
             \/ Crash \/ PowerLoss
    PROVE  StoreInv'
<1> USE DEF StoreInv
<1>1. TypeOK'  BY SurroundingsType
<1>2. CASE (\E op \in OpIds : WriteJournal(op)) \/ ClearJournal
    <2>1. /\ UNCHANGED <<disk, phase, mem, deferred, clock, settled>>
          /\ survivors' = {disk}
        BY <1>2 DEF WriteJournal, ClearJournal, JournalStep
    <2>2. SettledSurvives'  BY <2>1, KeepsStep DEF TypeOK
    <2> QED  BY <1>1, <2>1, <2>2 DEF DeferredIsUnfinished, IsUnfinished,
                                     SettledIsTerminal, IsTerminal
<1>3. CASE Tick
    <2>1. /\ UNCHANGED <<files, phase, mem, deferred, settled>>
          /\ clock' = clock + 1
        BY <1>3 DEF Tick
    <2>2. SettledSurvives'  BY <2>1, KeepsStep DEF TypeOK, files
    <2> QED  BY <1>1, <2>1, <2>2 DEF files, DeferredIsUnfinished, IsUnfinished,
                                     SettledIsTerminal, IsTerminal
<1>4. CASE Crash \/ PowerLoss
    <2>1. /\ phase' = "down" /\ deferred' = EmptyTable
          /\ settled' = settled /\ clock' = clock
          /\ survivors' \cup {disk'} \subseteq survivors \cup {disk}
          /\ disk' \in survivors'
        BY <1>4 DEF Crash, PowerLoss, ProcessStops, files
    <2>2. SettledSurvives'  BY <2>1, KeepsStep DEF TypeOK
    <2> QED  BY <1>1, <2>1, <2>2, EmptyDeferred DEF SettledIsTerminal, IsTerminal
<1> QED  BY <1>2, <1>3, <1>4

LEMMA NextInv == StoreInv /\ ~ProbeAllowed /\ [Next]_vars => StoreInv'
<1> SUFFICES ASSUME StoreInv, ~ProbeAllowed, [Next]_vars PROVE StoreInv'  OBVIOUS
<1>1. TypeOK'  BY NextType DEF StoreInv
<1>2. ASSUME NEW op \in OpIds, NEW req \in Requests, ReserveExisting(op, req)
      PROVE  StoreInv'
    BY <1>1, <1>2, SteadyInv DEF ReserveExisting
<1>3. ASSUME NEW op \in OpIds, NEW outcome \in Outcomes, TransitionFinished(op, outcome)
      PROVE  StoreInv'
    BY <1>1, <1>3, SteadyInv DEF TransitionFinished
<1>4. CASE UNCHANGED vars
    BY <1>1, <1>4, SteadyInv DEF vars, files
<1>5. CASE Next
    BY <1>2, <1>3, <1>5, OpenInv, RecoverInv, ReserveFlushesDeferredInv, ReserveInv,
       TransitionInv, SurroundingsInv DEF Next, Probe
<1> QED  BY <1>4, <1>5

\* While the process serves, every answer it gives from memory is what a
\* restart would read from the file, and a deferred transition never waits to
\* overwrite a finished record, in every execution without a second process
\* on the same file.
THEOREM FileMirrored ==
    ASSUME ~ProbeAllowed
    PROVE  Spec => [](MirrorsFile /\ DeferredIsUnfinished)
<1>1. StoreInv /\ [Next]_vars => StoreInv'  BY NextInv
<1>2. StoreInv => MirrorsFile /\ DeferredIsUnfinished  BY DEF StoreInv, MirrorsFile
<1> QED  BY <1>1, <1>2, InitInv, PTL DEF Spec

\* A terminal result confirmed by a complete write is found unchanged after any
\* number of crashes and power losses, until its retention has passed.
THEOREM ResultsSurvive ==
    ASSUME ~ProbeAllowed
    PROVE  Spec => []SettledSurvives
<1>1. StoreInv /\ [Next]_vars => StoreInv'  BY NextInv
<1>2. StoreInv => SettledSurvives  BY DEF StoreInv
<1> QED  BY <1>1, <1>2, InitInv, PTL DEF Spec

-----------------------------------------------------------------------------
(***************************************************************************)
(* What callers are told.                                                  *)
(***************************************************************************)
Confirms == {"new", "replayed", "settled"}

LEMMA SilentStep == ASSUME reply' = NoReply PROVE AnswersMatchFile'
BY DEF NoReply, AnswersMatchFile

LEMMA AnswerStep ==
    ASSUME NEW op \in OpIds, NEW verdict, NEW rec, reply' = Answer(op, verdict, rec),
           verdict \in Confirms => rec = disk'[op]
    PROVE  AnswersMatchFile'
BY DEF Answer, AnswersMatchFile, Confirms

LEMMA ReservationAnswers ==
    ASSUME StoreInv, NEW op \in OpIds, NEW req \in Requests,
           NEW outcome \in Reservations, NEW result, Reserve(op, req, outcome, result)
    PROVE  AnswersMatchFile'
<1> DEFINE rec == [req |-> req, status |-> outcome[1], note |-> outcome[2],
                   updated |-> clock]
           next == [Pruned(mem) EXCEPT ![op] = rec]
<1>1. next[op] = rec  BY PrunedType DEF StoreInv, TypeOK, Table
<1> HIDE DEF rec, next
<1>2. CASE reply' = Answer(op, "full", NoRecord)
    BY <1>2, AnswerStep DEF Confirms
<1>3. CASE PersistAndInstall(next, result) /\
           reply' = IF Committed(result) THEN Answer(op, "new", rec)
                                         ELSE Answer(op, "error", NoRecord)
    <2>1. CASE Committed(result)
        <3>1. disk' = next  BY <1>3, <2>1, PersistEffect DEF PersistAndInstall
        <3> QED  BY <1>1, <1>3, <2>1, <3>1, AnswerStep
    <2>2. CASE ~Committed(result)
        BY <1>3, <2>2, AnswerStep DEF Confirms
    <2> QED  BY <2>1, <2>2
<1> QED  BY <1>2, <1>3 DEF Reserve, rec, next

LEMMA ReplayAnswers ==
    ASSUME StoreInv, NEW op \in OpIds, NEW req \in Requests,
           ReserveExisting(op, req)
             \/ \E result \in WriteResults : ReserveFlushesDeferred(op, req, result)
    PROVE  AnswersMatchFile'
<1>1. CASE ReserveExisting(op, req)
    <2>1. mem = disk /\ disk' = disk  BY <1>1 DEF ReserveExisting, StoreInv, files
    <2>2. reply' \in {Answer(op, "replayed", mem[op]), Answer(op, "conflict", NoRecord)}
        BY <1>1 DEF ReserveExisting
    <2> QED  BY <2>1, <2>2, AnswerStep DEF Confirms
<1>2. ASSUME NEW result \in WriteResults, ReserveFlushesDeferred(op, req, result)
      PROVE  AnswersMatchFile'
    <2> DEFINE next == [mem EXCEPT ![op] = deferred[op]]
    <2>1. next[op] = deferred[op]  BY DEF StoreInv, TypeOK, Table
    <2>2. CASE Committed(result)
        <3>1. disk' = next
            BY <1>2, <2>2, PersistEffect DEF ReserveFlushesDeferred, PersistAndInstall
        <3>2. reply' = Answer(op, "replayed", deferred[op])
            BY <1>2, <2>2 DEF ReserveFlushesDeferred
        <3> QED  BY <2>1, <3>1, <3>2, AnswerStep
    <2>3. CASE ~Committed(result)
        <3>1. reply' = Answer(op, "unsettled", mem[op])
            BY <1>2, <2>3 DEF ReserveFlushesDeferred
        <3> QED  BY <3>1, AnswerStep DEF Confirms
    <2> QED  BY <2>2, <2>3
<1> QED  BY <1>1, <1>2

LEMMA TransitionAnswers ==
    ASSUME StoreInv, NEW op \in OpIds, NEW outcome \in Outcomes,
           TransitionFinished(op, outcome)
             \/ \E result \in WriteResults : Transition(op, outcome, result)
    PROVE  AnswersMatchFile'
<1>1. CASE TransitionFinished(op, outcome)
    <2>1. mem = disk /\ disk' = disk  BY <1>1 DEF TransitionFinished, StoreInv, files
    <2>2. reply' \in {Answer(op, "settled", mem[op]), Answer(op, "error", NoRecord)}
        BY <1>1 DEF TransitionFinished
    <2> QED  BY <2>1, <2>2, AnswerStep DEF Confirms
<1>2. ASSUME NEW result \in WriteResults, Transition(op, outcome, result)
      PROVE  AnswersMatchFile'
    <2>1. mem' = disk'
        BY <1>2, PersistEffect DEF Transition, PersistAndInstall, StoreInv, files
    <2>2. reply' \in {Answer(op, "settled", mem'[op]), Answer(op, "error", NoRecord)}
        BY <1>2 DEF Transition
    <2> QED  BY <2>1, <2>2, AnswerStep DEF Confirms
<1> QED  BY <1>1, <1>2

LEMMA NextAnswers ==
    StoreInv /\ AnswersMatchFile /\ ~ProbeAllowed /\ [Next]_vars => AnswersMatchFile'
<1> SUFFICES ASSUME StoreInv, AnswersMatchFile, ~ProbeAllowed, [Next]_vars
             PROVE  AnswersMatchFile'
    OBVIOUS
<1>1. CASE UNCHANGED vars  BY <1>1 DEF vars, AnswersMatchFile
<1>2. ASSUME NEW result \in WriteResults, Open(result) \/ Recover(result)
      PROVE  AnswersMatchFile'
    BY <1>2, SilentStep DEF Open, Recover
<1>3. CASE (\E op \in OpIds : WriteJournal(op)) \/ ClearJournal \/ Tick
             \/ Crash \/ PowerLoss
    BY <1>3, SilentStep DEF WriteJournal, ClearJournal, JournalStep, Tick, Crash,
                            PowerLoss, ProcessStops
<1> QED  BY <1>1, <1>2, <1>3, ReservationAnswers, ReplayAnswers, TransitionAnswers
         DEF Next, Probe

\* The record a caller is answered with, for a fresh reservation, a replay or a
\* transition, is the record on file at that moment, even when the directory
\* sync of the write failed.
THEOREM AnswersOnFile ==
    ASSUME ~ProbeAllowed
    PROVE  Spec => []AnswersMatchFile
<1>1. StoreInv /\ AnswersMatchFile /\ [Next]_vars => StoreInv' /\ AnswersMatchFile'
    BY NextInv, NextAnswers
<1>2. Init => AnswersMatchFile  BY DEF Init, NoReply, AnswersMatchFile
<1> QED  BY <1>1, <1>2, InitInv, PTL DEF Spec

-----------------------------------------------------------------------------
(***************************************************************************)
(* Refinement: every step of the store is a step of the operation ledger   *)
(* or leaves it alone.                                                     *)
(***************************************************************************)
Evolution(table) == \A op \in OpIds : Ledger!Evolves(disk[op], table[op])

LEMMA PrunedEvolves ==
    ASSUME TypeOK, NEW op \in OpIds PROVE Ledger!Evolves(disk[op], Pruned(disk)[op])
<1>1. disk \in Table  BY DEF TypeOK
<1>2. CASE Pruned(disk)[op] = disk[op]  BY <1>2 DEF Ledger!Evolves
<1>3. CASE Pruned(disk)[op] = NoRecord /\ Expired(disk[op])
    BY <1>3 DEF Ledger!Evolves, Ledger!Expired, Ledger!TerminalStatus,
                Expired, IsTerminal, Terminal
<1> QED  BY <1>1, <1>2, <1>3, PrunedEntry

LEMMA MovedEvolves ==
    ASSUME TypeOK, NEW rec \in Record, IsUnfinished(rec),
           NEW outcome \in Outcomes \cup {<<"cancelled", "restart">>}
    PROVE  Ledger!Evolves(rec, Moved(rec, outcome))
<1>1. Moved(rec, outcome) \in Record /\ Moved(rec, outcome).req = rec.req
    BY MovedType DEF TypeOK
<1> QED  BY <1>1, RecordAssumption
         DEF Ledger!Evolves, Ledger!Progressed, Ledger!UnfinishedStatus,
             IsUnfinished, Unfinished

LEMMA RecoveredEvolves == TypeOK => Evolution(Recovered(disk))
<1> SUFFICES ASSUME TypeOK, NEW op \in OpIds
             PROVE  Ledger!Evolves(disk[op], Recovered(disk)[op])
    BY DEF Evolution
<1>1. disk \in Table  BY DEF TypeOK
<1>2. CASE IsUnfinished(disk[op])
    <2>1. disk[op] \in Record  BY <1>1, <1>2 DEF IsUnfinished, Table
    <2>2. /\ Ledger!Evolves(disk[op], Moved(disk[op], <<"recovery_required", "recovery">>))
          /\ Ledger!Evolves(disk[op], Moved(disk[op], <<"cancelled", "restart">>))
        BY <1>2, <2>1, MovedEvolves DEF Outcomes
    <2> QED  BY <1>1, <1>2, <2>2, RecoveredEntry
<1>3. CASE ~IsUnfinished(disk[op])
    <2>1. CASE Recovered(disk)[op] = disk[op]  BY <2>1 DEF Ledger!Evolves
    <2>2. CASE Recovered(disk)[op] = NoRecord /\ Expired(disk[op])
        BY <2>2 DEF Ledger!Evolves, Ledger!Expired, Ledger!TerminalStatus,
                    Expired, IsTerminal, Terminal
    <2> QED  BY <1>1, <1>3, <2>1, <2>2, RecoveredEntry
<1> QED  BY <1>2, <1>3

LEMMA PersistEvolves ==
    ASSUME NEW next, Evolution(next), NEW result, Persist(next, result), clock' = clock
    PROVE  Ledger!LedgerStep
<1>1. disk' = next \/ disk' = disk  BY PersistEffect DEF files
<1>2. CASE disk' = next  BY <1>2 DEF Evolution, Ledger!LedgerStep
<1>3. CASE disk' = disk  BY <1>3 DEF Ledger!LedgerStep, Ledger!Evolves
<1> QED  BY <1>1, <1>2, <1>3

LEMMA StartEvolves ==
    ASSUME StoreInv, NEW result, Open(result) \/ Recover(result)
    PROVE  [Ledger!LedgerNext]_<<disk, clock>>
<1>1. Evolution(Pruned(disk)) /\ Evolution(Recovered(disk))
    BY PrunedEvolves, RecoveredEvolves DEF StoreInv, Evolution
<1>2. clock' = clock  BY DEF Open, Recover
<1>3. UNCHANGED files \/ Persist(Pruned(disk), result) \/ Persist(Recovered(disk), result)
    BY DEF Open, Recover, StoreInv
<1> QED  BY <1>1, <1>2, <1>3, PersistEvolves DEF files, Ledger!LedgerNext

LEMMA ReservationEvolves ==
    ASSUME StoreInv, NEW op \in OpIds, NEW req \in Requests,
           NEW outcome \in Reservations, NEW result, Reserve(op, req, outcome, result)
    PROVE  [Ledger!LedgerNext]_<<disk, clock>>
<1> DEFINE rec == [req |-> req, status |-> outcome[1], note |-> outcome[2],
                   updated |-> clock]
           next == [Pruned(mem) EXCEPT ![op] = rec]
<1>1. mem = disk /\ mem \in Table /\ mem[op] = NoRecord /\ clock' = clock
    BY DEF Reserve, StoreInv, TypeOK
<1>2. \A o \in OpIds : next[o] = IF o = op THEN rec ELSE Pruned(disk)[o]
    BY <1>1, PrunedType DEF Table
<1>3. rec.status \in {"pending", "cancelled"}  BY DEF Reservations
<1> HIDE DEF rec, next
<1>4. Evolution(next)
    <2> SUFFICES ASSUME NEW o \in OpIds PROVE Ledger!Evolves(disk[o], next[o])
        BY DEF Evolution
    <2>1. CASE o = op
        BY <1>1, <1>2, <1>3, <2>1 DEF Ledger!Evolves, Ledger!Admitted
    <2>2. CASE o # op
        BY <1>2, <2>2, PrunedEvolves DEF StoreInv
    <2> QED  BY <2>1, <2>2
<1>5. UNCHANGED files \/ Persist(next, result)
    BY DEF Reserve, PersistAndInstall, rec, next
<1> QED  BY <1>1, <1>4, <1>5, PersistEvolves DEF files, Ledger!LedgerNext

LEMMA FlushEvolves ==
    ASSUME StoreInv, NEW op \in OpIds, NEW req \in Requests, NEW result,
           ReserveFlushesDeferred(op, req, result)
    PROVE  [Ledger!LedgerNext]_<<disk, clock>>
<1> DEFINE next == [mem EXCEPT ![op] = deferred[op]]
<1>1. mem = disk /\ mem \in Table /\ clock' = clock
    BY DEF ReserveFlushesDeferred, StoreInv, TypeOK
<1>2. /\ deferred[op] # NoRecord /\ deferred[op].req = mem[op].req
      /\ mem[op] # NoRecord /\ mem[op].status \in Unfinished
    BY DEF ReserveFlushesDeferred, StoreInv, DeferredIsUnfinished, IsUnfinished
<1>3. Evolution(next)
    <2> SUFFICES ASSUME NEW o \in OpIds PROVE Ledger!Evolves(disk[o], next[o])
        BY DEF Evolution
    <2>1. CASE o = op
        BY <1>1, <1>2, <2>1 DEF Ledger!Evolves, Ledger!Progressed,
                                Ledger!UnfinishedStatus, Unfinished, Table
    <2>2. CASE o # op
        BY <1>1, <2>2 DEF Ledger!Evolves, Table
    <2> QED  BY <2>1, <2>2
<1>4. Persist(next, result)  BY DEF ReserveFlushesDeferred, PersistAndInstall
<1> HIDE DEF next
<1> QED  BY <1>1, <1>3, <1>4, PersistEvolves DEF Ledger!LedgerNext

LEMMA TransitionEvolves ==
    ASSUME StoreInv, NEW op \in OpIds, NEW outcome \in Outcomes, NEW result,
           Transition(op, outcome, result)
    PROVE  [Ledger!LedgerNext]_<<disk, clock>>
<1> DEFINE rec == Moved(mem[op], outcome)
           next == [Pruned(mem) EXCEPT ![op] = rec]
<1>1. mem = disk /\ mem \in Table /\ clock' = clock /\ IsUnfinished(mem[op])
    BY DEF Transition, StoreInv, TypeOK
<1>2. mem[op] \in Record  BY <1>1 DEF IsUnfinished, Table
<1>3. Ledger!Evolves(disk[op], rec)  BY <1>1, <1>2, MovedEvolves DEF StoreInv
<1> HIDE DEF rec
<1>4. \A o \in OpIds : next[o] = IF o = op THEN rec ELSE Pruned(disk)[o]
    BY <1>1, PrunedType DEF Table
<1> HIDE DEF next
<1>5. Evolution(next)
    BY <1>3, <1>4, PrunedEvolves DEF Evolution, StoreInv
<1>6. Persist(next, result)  BY DEF Transition, PersistAndInstall, rec, next
<1> QED  BY <1>1, <1>5, <1>6, PersistEvolves DEF Ledger!LedgerNext

LEMMA NextEvolves ==
    ASSUME StoreInv, ~ProbeAllowed, [Next]_vars, outages' = outages
    PROVE  [Ledger!LedgerNext]_<<disk, clock>>
<1>1. CASE UNCHANGED vars  BY <1>1 DEF vars
<1>2. ASSUME NEW op \in OpIds,
             \/ \E req \in Requests : ReserveExisting(op, req)
             \/ \E outcome \in Outcomes : TransitionFinished(op, outcome)
             \/ WriteJournal(op)
      PROVE  UNCHANGED <<disk, clock>>
    BY <1>2 DEF ReserveExisting, TransitionFinished, WriteJournal, JournalStep, files
<1>3. CASE ClearJournal \/ Crash
    BY <1>3 DEF ClearJournal, JournalStep, Crash, ProcessStops, files
<1>4. CASE Tick
    BY <1>4 DEF Tick, files, Ledger!LedgerNext, Ledger!LedgerTick
<1>5. ~PowerLoss  BY DEF PowerLoss, StoreInv, TypeOK
<1>6. ~Probe  BY DEF Probe
<1>7. CASE Next
    BY <1>2, <1>3, <1>4, <1>5, <1>6, <1>7, StartEvolves, ReservationEvolves,
       FlushEvolves, TransitionEvolves DEF Next
<1> QED  BY <1>1, <1>7

\* The store implements the operation ledger, except for what a power loss itself
\* undoes: identifiers are bound to one request, terminal records are final until
\* retention, unfinished ones never vanish.
THEOREM ImplementsLedger ==
    ASSUME ~ProbeAllowed
    PROVE  Spec => LedgerSpec
<1>1. StoreInv /\ [Next]_vars => StoreInv'  BY NextInv
<1>2. StoreInv /\ [Next]_vars =>
          [outages' = outages => Ledger!LedgerNext]_<<disk, clock>>
    BY NextEvolves
<1>3. Init => Ledger!LedgerInit  BY DEF Init, EmptyTable, Ledger!LedgerInit
<1> QED  BY <1>1, <1>2, <1>3, InitInv, PTL
         DEF Spec, LedgerSpec

-----------------------------------------------------------------------------
(***************************************************************************)
(* The file is never too full for the next start-up, not even with a       *)
(* second process on it: every write follows a capacity check, or replaces *)
(* and prunes records that were there.                                     *)
(***************************************************************************)
Fits(table) == Cardinality(Live(table)) <= MaxEntries
CapacityInv == TypeOK /\ Fits(mem) /\ NextBootAccepts

LEMMA LiveFinite ==
    ASSUME NEW table PROVE IsFiniteSet(Live(table)) /\ Cardinality(Live(table)) \in Nat
BY StoreAssumption, FS_Subset, FS_CardinalityType DEF Live

\* A table without new records fits wherever the old one did.
LEMMA FewerFit ==
    ASSUME NEW table, NEW next, Fits(table),
           \A op \in OpIds : table[op] = NoRecord => next[op] = NoRecord
    PROVE  Fits(next)
<1>1. Live(next) \subseteq Live(table)  BY DEF Live
<1>2. Cardinality(Live(next)) <= Cardinality(Live(table))
    BY <1>1, LiveFinite, FS_Subset
<1> QED  BY <1>2, LiveFinite, StoreAssumption DEF Fits

LEMMA PrunedFits == ASSUME NEW table \in Table, Fits(table) PROVE Fits(Pruned(table))
<1>1. \A op \in OpIds : table[op] = NoRecord => Pruned(table)[op] = NoRecord
    BY PrunedEntry
<1> QED  BY <1>1, FewerFit

LEMMA RecoveredFits ==
    ASSUME NEW table \in Table, Fits(table) PROVE Fits(Recovered(table))
<1>1. \A op \in OpIds : table[op] = NoRecord => Recovered(table)[op] = NoRecord
    BY RecoveredEntry DEF IsUnfinished
<1> QED  BY <1>1, FewerFit

\* A reservation that passed the capacity check has room for its record.
LEMMA ReservedFits ==
    ASSUME mem \in Table, ~TableFull, NEW op \in OpIds, NEW rec
    PROVE  Fits([Pruned(mem) EXCEPT ![op] = rec])
<1> DEFINE pruned == Pruned(mem)
           next == [pruned EXCEPT ![op] = rec]
<1>1. pruned \in [OpIds -> Record \cup {NoRecord}]  BY PrunedType DEF Table
<1>2. Cardinality(Live(pruned)) < MaxEntries
    BY LiveFinite, StoreAssumption DEF TableFull
<1>3. Live(next) \subseteq Live(pruned) \cup {op}
    <2> HIDE DEF pruned
    <2> QED  BY <1>1 DEF Live
<1> HIDE DEF pruned, next
<1>4. /\ IsFiniteSet(Live(pruned) \cup {op})
      /\ Cardinality(Live(pruned) \cup {op}) <= Cardinality(Live(pruned)) + 1
    <2>1. IsFiniteSet(Live(pruned)) /\ Cardinality(Live(pruned)) \in Nat
        BY LiveFinite
    <2>2. /\ IsFiniteSet(Live(pruned) \cup {op})
          /\ Cardinality(Live(pruned) \cup {op}) =
               IF op \in Live(pruned) THEN Cardinality(Live(pruned))
                                      ELSE Cardinality(Live(pruned)) + 1
        BY <2>1, FS_AddElement
    <2> QED  BY <2>1, <2>2
<1>5. Cardinality(Live(next)) <= Cardinality(Live(pruned) \cup {op})
    BY <1>3, <1>4, FS_Subset
<1>6. Cardinality(Live(pruned) \cup {op}) \in Nat  BY <1>4, FS_CardinalityType
<1>7. Fits(next)  BY <1>2, <1>4, <1>5, <1>6, LiveFinite, StoreAssumption DEF Fits
<1> QED  BY <1>7 DEF next, pruned

LEMMA EmptyFits == Fits(EmptyTable)
<1>1. Live(EmptyTable) = {}  BY DEF Live, EmptyTable
<1> QED  BY <1>1, FS_EmptySet, StoreAssumption DEF Fits

LEMMA PersistFits ==
    ASSUME NextBootAccepts, NEW next, Fits(next), NEW result, Persist(next, result)
    PROVE  NextBootAccepts'
<1>1. \A left \in survivors' \cup {disk'} : left \in survivors \cup {disk} \/ left = next
    BY PersistEffect DEF files
<1> QED  BY <1>1 DEF NextBootAccepts, Fits, Live

LEMMA NextFits == CapacityInv /\ [Next]_vars => CapacityInv'
<1> SUFFICES ASSUME CapacityInv, [Next]_vars PROVE CapacityInv'
    OBVIOUS
<1>1. /\ TypeOK /\ TypeOK' /\ Fits(mem) /\ NextBootAccepts /\ mem \in Table /\ disk \in Table
      /\ Fits(disk) /\ \A left \in survivors : Fits(left)
    BY NextType DEF CapacityInv, TypeOK, NextBootAccepts, Fits
<1>2. ASSUME UNCHANGED <<disk, survivors, mem>> PROVE CapacityInv'
    BY <1>1, <1>2 DEF CapacityInv, Fits, NextBootAccepts, Live
<1>3. ASSUME NEW next, Fits(next), NEW result, Persist(next, result),
             mem' \in {mem, next, EmptyTable}
      PROVE  CapacityInv'
    <2>1. Fits(mem')  BY <1>1, <1>3, EmptyFits
    <2>2. NextBootAccepts'  BY <1>1, <1>3, PersistFits
    <2> QED  BY <1>1, <2>1, <2>2 DEF CapacityInv, Fits, Live
<1>4. ASSUME NEW result, Open(result) PROVE CapacityInv'
    <2>1. CASE Pruned(disk) = disk
        <3>1. UNCHANGED <<disk, survivors>> /\ mem' = disk
            BY <1>4, <2>1 DEF Open, files
        <3> QED  BY <1>1, <3>1 DEF CapacityInv, Fits, NextBootAccepts, Live
    <2>2. CASE Pruned(disk) # disk
        BY <1>1, <1>3, <1>4, <2>2, PrunedFits DEF Open
    <2> QED  BY <2>1, <2>2
<1>5. ASSUME NEW result, Recover(result) PROVE CapacityInv'
    <2>1. CASE Changed
        BY <1>1, <1>3, <1>5, <2>1, RecoveredFits DEF Recover
    <2>2. CASE ~Changed
        BY <1>2, <1>5, <2>2 DEF Recover, files
    <2> QED  BY <2>1, <2>2
<1>6. ASSUME NEW op \in OpIds, NEW req, NEW result, ReserveFlushesDeferred(op, req, result)
      PROVE  CapacityInv'
    <2> DEFINE next == [mem EXCEPT ![op] = deferred[op]]
    <2>1. /\ mem[op] # NoRecord /\ Persist(next, result) /\ mem' \in {mem, next}
        BY <1>6 DEF ReserveFlushesDeferred, PersistAndInstall
    <2>2. \A o \in OpIds : mem[o] = NoRecord => next[o] = NoRecord
        BY <1>1, <2>1 DEF Table
    <2> HIDE DEF next
    <2>3. Fits(next)  BY <1>1, <2>2, FewerFit
    <2> QED  BY <1>3, <2>1, <2>3
<1>7. ASSUME NEW op \in OpIds, NEW req, NEW outcome, NEW result,
             Reserve(op, req, outcome, result)
      PROVE  CapacityInv'
    <2> DEFINE rec == [req |-> req, status |-> outcome[1], note |-> outcome[2],
                       updated |-> clock]
               next == [Pruned(mem) EXCEPT ![op] = rec]
    <2>1. CASE TableFull
        BY <1>2, <1>7, <2>1 DEF Reserve, files
    <2>2. CASE ~TableFull
        <3>1. Persist(next, result) /\ mem' \in {mem, next}
            BY <1>7, <2>2 DEF Reserve, PersistAndInstall
        <3> HIDE DEF rec
        <3>2. Fits(next)  BY <1>1, <2>2, ReservedFits
        <3> HIDE DEF next
        <3> QED  BY <1>3, <3>1, <3>2
    <2> QED  BY <2>1, <2>2
<1>8. ASSUME NEW op \in OpIds, NEW outcome, NEW result, Transition(op, outcome, result)
      PROVE  CapacityInv'
    <2> DEFINE next == [Pruned(mem) EXCEPT ![op] = Moved(mem[op], outcome)]
    <2>1. IsUnfinished(mem[op]) /\ Persist(next, result) /\ mem' \in {mem, next}
        BY <1>8 DEF Transition, PersistAndInstall
    <2>2. \A o \in OpIds : mem[o] = NoRecord => next[o] = NoRecord
        <3>1. Pruned(mem) \in [OpIds -> Record \cup {NoRecord}]
            BY <1>1, PrunedType DEF Table
        <3>2. mem[op] # NoRecord  BY <2>1 DEF IsUnfinished
        <3> QED  BY <1>1, <3>1, <3>2, PrunedEntry
    <2> HIDE DEF next
    <2>3. Fits(next)  BY <1>1, <2>2, FewerFit
    <2> QED  BY <1>3, <2>1, <2>3
<1>9. ASSUME (\E op \in OpIds : WriteJournal(op)) \/ ClearJournal PROVE CapacityInv'
    <2>1. disk' = disk /\ survivors' = {disk} /\ mem' = mem
        BY <1>9 DEF WriteJournal, ClearJournal, JournalStep
    <2> QED  BY <1>1, <2>1 DEF CapacityInv, Fits, NextBootAccepts, Live
<1>10. ASSUME Crash \/ PowerLoss PROVE CapacityInv'
    <2>1. /\ mem' = EmptyTable
          /\ survivors' \cup {disk'} \subseteq survivors \cup {disk}
        BY <1>10 DEF Crash, PowerLoss, ProcessStops, files
    <2> QED  BY <1>1, <2>1, EmptyFits DEF CapacityInv, Fits, NextBootAccepts, Live
<1>11. ASSUME Probe PROVE CapacityInv'
    BY <1>1, <1>3, <1>11, RecoveredFits DEF Probe
<1>12. ASSUME \/ Tick \/ UNCHANGED vars
              \/ \E op \in OpIds : \/ \E req \in Requests : ReserveExisting(op, req)
                                   \/ \E outcome \in Outcomes : TransitionFinished(op, outcome)
       PROVE  CapacityInv'
    BY <1>2, <1>12 DEF Tick, vars, ReserveExisting, TransitionFinished, files
<1> QED  BY <1>4, <1>5, <1>6, <1>7, <1>8, <1>9, <1>10, <1>11, <1>12 DEF Next

\* Whatever a crash or a power loss leaves of the file, it never holds more records
\* than the start-up that reads it accepts, also with a second process on it.
THEOREM BootNeverRefused == Spec => []NextBootAccepts
<1>1. Init => CapacityInv
    BY InitType, EmptyFits DEF Init, CapacityInv, NextBootAccepts, Fits
<1>2. CapacityInv => NextBootAccepts  BY DEF CapacityInv
<1> QED  BY <1>1, <1>2, NextFits, PTL DEF Spec

-----------------------------------------------------------------------------
(***************************************************************************)
(* What start-up leaves.                                                   *)
(***************************************************************************)
LEMMA RecoverReconciles ==
    ASSUME TypeOK, NEW result, Recover(result), phase' = "serving",
           NEW op \in OpIds, IsUnfinished(mem'[op])
    PROVE  op = journal /\ mem'[op].status = "recovery_required"
<1>1. CASE ~Changed
    BY <1>1 DEF Recover, Changed
<1>2. CASE Changed
    <2>1. result = "synced"
        BY <1>2 DEF Recover, AfterRecover
    <2>2. mem' = Recovered(mem)
        BY <1>2, <2>1 DEF Recover, AfterRecover, Committed
    <2>3. mem \in Table /\ mem[op] \in Record \cup {NoRecord} /\ clock \in Nat
        BY DEF TypeOK, Table
    <2>4. IsUnfinished(mem[op])
        BY <2>2, <2>3, RecoveredEntry DEF IsUnfinished
    <2>5. mem[op] \in Record  BY <2>3, <2>4 DEF IsUnfinished
    <2>6. /\ Moved(mem[op], <<"recovery_required", "recovery">>).status = "recovery_required"
          /\ Moved(mem[op], <<"cancelled", "restart">>).status = "cancelled"
        BY <2>3, <2>5, MovedType DEF Outcomes
    <2> QED  BY <2>2, <2>3, <2>4, <2>6, RecoveredEntry DEF IsUnfinished, Unfinished
<1> QED  BY <1>1, <1>2

LEMMA NextReconciles ==
    ASSUME TypeOK, [Next]_vars, phase # "serving", phase' = "serving"
    PROVE  \A op \in OpIds : IsUnfinished(mem'[op]) =>
             op = journal /\ mem'[op].status = "recovery_required"
<1>1. PICK result \in WriteResults : Recover(result)
    <2>1. ASSUME NEW result, Open(result) PROVE FALSE
        BY <2>1 DEF Open
    <2>2. ASSUME NEW op, NEW req, ReserveExisting(op, req) PROVE FALSE
        BY <2>2 DEF ReserveExisting
    <2>3. ASSUME NEW op, NEW req, NEW result, ReserveFlushesDeferred(op, req, result)
          PROVE  FALSE
        BY <2>3 DEF ReserveFlushesDeferred
    <2>4. ASSUME NEW op, NEW req, NEW outcome, NEW result, Reserve(op, req, outcome, result)
          PROVE  FALSE
        BY <2>4 DEF Reserve
    <2>5. ASSUME NEW op, NEW outcome, TransitionFinished(op, outcome) PROVE FALSE
        BY <2>5 DEF TransitionFinished
    <2>6. ASSUME NEW op, NEW outcome, NEW result, Transition(op, outcome, result)
          PROVE  FALSE
        BY <2>6 DEF Transition
    <2>7. ASSUME \/ \E op \in OpIds : WriteJournal(op)
                 \/ ClearJournal \/ Tick \/ Crash \/ PowerLoss \/ Probe \/ UNCHANGED vars
          PROVE  FALSE
        BY <2>7 DEF WriteJournal, ClearJournal, JournalStep, Tick, Crash, PowerLoss,
                    ProcessStops, Probe, vars
    <2> QED  BY <2>1, <2>2, <2>3, <2>4, <2>5, <2>6, <2>7 DEF Next
<1> QED  BY <1>1, RecoverReconciles

\* When start-up completes, the journalled operation waits for its repair and no other
\* is unfinished: whichever of the two attempts wrote the file, or if none had to.
THEOREM BootHasReconciled == Spec => BootReconciles
<1>1. TypeOK /\ [Next]_vars =>
          [phase # "serving" /\ phase' = "serving" =>
             \A op \in OpIds : IsUnfinished(mem'[op]) =>
                 op = journal /\ mem'[op].status = "recovery_required"]_vars
    BY NextReconciles
<1> QED  BY <1>1, TypeCorrect, PTL DEF Spec, BootReconciles
=============================================================================
