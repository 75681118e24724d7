------------------------- MODULE ServerLifecycleProofs -------------------------
(***************************************************************************)
(* Theorems about the life of a game server, for any servers, operations   *)
(* and requests, and any number of calls, faults, cancellations and        *)
(* crashes.                                                                *)
(***************************************************************************)
EXTENDS ServerLifecycle, TLAPS

-----------------------------------------------------------------------------
(***************************************************************************)
(* The types, with what the programs need to keep them.                    *)
(***************************************************************************)

\* A journal names a request, and an entry is only put for a request that has
\* a server to put.
Requested ==
    /\ journal # NoJournal => IntentOf(journal) \in Calls
    /\ work # NoWork =>
          \A i \in 1..Len(work.prog) :
              work.prog[i] = "upsertEntry" => work.call.target \in Envs

TypeInv == TypeOK /\ Requested

-----------------------------------------------------------------------------
(***************************************************************************)
(* The books: what the durable record, the deferred status and the job of  *)
(* an operation say at each point of its way.                              *)
(***************************************************************************)

\* The journal is that of the work at hand.
Journalled(op) == journal # NoJournal /\ journal.op = op
Owned == /\ work # NoWork /\ journal # NoJournal => journal.op = work.call.op
         /\ work # NoWork => /\ work.who = "caller" => work.call.op = NoOp
                             /\ work.phase # "run" => work.who = "worker"
                             /\ work.phase \in {"start", "reject"} => journal = NoJournal

\* An operation without a record has nothing else either.
Fresh ==
    \A op \in Ops : record[op] = "none" =>
        /\ deferred[op] = "none" /\ job[op] = "none"
        /\ work # NoWork => work.call.op # op
        /\ ~Journalled(op)

\* The operation of a preparation is nobody else's.
Prepared ==
    /\ prep # NoWork =>
         /\ prep.phase = "record" => prep.call.op # NoOp
         /\ prep.call.op # NoOp =>
              LET op == prep.call.op
              IN /\ record[op] = IF prep.phase = "record" THEN "none" ELSE "pending"
                 /\ deferred[op] = "none"
                 /\ job[op] \in IF prep.phase = "promote" THEN {"pending", "cancelled"}
                                                           ELSE {"none"}
                 /\ work # NoWork => work.call.op # op
                 /\ ~Journalled(op)
    /\ \A op \in Ops : job[op] = "pending" =>
         prep # NoWork /\ prep.call.op = op /\ prep.phase = "promote"

\* What is left of a repair records the outcome before it clears the journal.
Records(step) == step \in {"succeed", "cancel"}
RecordsFirst(w) ==
    /\ \A i \in w.at..Len(w.prog) :
         /\ w.prog[i] \notin {"createEnv", "journal"}
         /\ w.prog[i] = "clear" => \E k \in w.at..i : Records(w.prog[k])
    /\ ~w.err => \E k \in w.at..Len(w.prog) : Records(w.prog[k])

\* What the books say of the operation being worked on.
Settled(result, op) ==
    \/ pinned /\ result = "failed"
    \/ record[op] = result /\ result \in Terminal
    \/ /\ record[op] = result /\ result = "recovery_required"
       /\ deferred[op] = "none" /\ journal # NoJournal

Worked ==
    work # NoWork /\ work.call.op # NoOp =>
        LET op == work.call.op
        IN /\ work.phase = "start" =>
                record[op] = "pending" /\ deferred[op] = "none" /\ job[op] = "running"
           /\ work.phase = "reject" =>
                record[op] \in {"pending", "running"} /\ deferred[op] \in {"none", "running"}
           /\ work.phase = "run" /\ work.who = "worker" =>
                /\ record[op] = "running" /\ deferred[op] = "none" /\ job[op] = "running"
                /\ work.prog \in {CreateProgram, CloseProgram, ResetProgram}
           /\ work.phase = "settle" => record[op] = "succeeded" /\ work.result = "succeeded"
           /\ work.phase = "finish" => Settled(work.result, op)
           /\ work.who = "repair" => journal # NoJournal /\ RecordsFirst(work)
           /\ work.who = "settler" => record[op] \in Terminal

\* What the job of an operation, and a deferred status, say of its record.
ClaimsOf(op) ==
    /\ job[op] = "succeeded" => record[op] = "succeeded"
    /\ job[op] = "recovery_required" =>
         /\ record[op] \in {"recovery_required", "succeeded", "cancelled"}
         /\ deferred[op] \in {"none", "recovery_required", "succeeded", "cancelled"}
    /\ job[op] = "cancelled" =>
         \/ pinned
         \/ record[op] \in Terminal
         \/ /\ record[op] \in {"pending", "running"}
            /\ deferred[op] \in {"none", "running"}
            /\ ~Journalled(op)
Claims == \A op \in Ops : ClaimsOf(op)

BooksInv == Owned /\ Fresh /\ Prepared /\ Worked /\ Claims /\ NoOrphan

-----------------------------------------------------------------------------
(***************************************************************************)
(* What the steps do to the world.                                         *)
(***************************************************************************)

LEMMA EntryType == \A e \in Entry : e.env \in Envs /\ e.repair \in BOOLEAN
BY DEF Entry

LEMMA SyncedType ==
    ASSUME NEW w \in World, w.env # None
    PROVE  Synced(w) \in World
<1>1. [env |-> w.env, repair |-> w.entry # None /\ w.entry.repair] \in Entry
    <2>1. (w.entry # None /\ w.entry.repair) \in BOOLEAN  OBVIOUS
    <2>2. w.env \in Envs  BY DEF World
    <2> QED  BY <2>1, <2>2 DEF Entry
<1> QED  BY <1>1 DEF Synced, World

LEMMA SetRepairType ==
    ASSUME NEW w \in World, w.entry # None, NEW flag \in BOOLEAN
    PROVE  SetRepair(w, flag) \in World
<1>1. w.entry \in Entry  BY DEF World
<1>2. [w.entry EXCEPT !.repair = flag] \in Entry  BY <1>1 DEF Entry
<1> QED  BY <1>2 DEF SetRepair, World

LEMMA AfterType ==
    ASSUME NEW w \in World, NEW target \in Envs \cup {None}, NEW step,
           Accepts(step, target, w), step = "upsertEntry" => target \in Envs
    PROVE  After(step, target, w) \in World
<1>1. CASE step \in {"createEnv", "writeEnv", "removeEnv", "removeEntry", "reload", "down"}
    BY <1>1 DEF After, World
<1>2. CASE step = "upsertEntry"
    <2>1. [env |-> target, repair |-> FALSE] \in Entry  BY <1>2 DEF Entry
    <2>2. After(step, target, w) = [w EXCEPT !.entry = [env |-> target, repair |-> FALSE]]
        BY <1>2 DEF After
    <2> QED  BY <2>1, <2>2 DEF World
<1>3. CASE step \in {"sync", "reconcile"}
    <2>1. w.env # None  BY <1>3 DEF Accepts
    <2>2. After(step, target, w) = Synced(w)  BY <1>3 DEF After
    <2> QED  BY <2>1, <2>2, SyncedType
<1>4. CASE step \in {"requireRepair", "clearRepair"}
    <2>1. w.entry # None  BY <1>4 DEF Accepts
    <2>2. \E flag \in BOOLEAN : After(step, target, w) = SetRepair(w, flag)
        BY <1>4 DEF After
    <2> QED  BY <2>1, <2>2, SetRepairType
<1>5. CASE step \in {"up", "upAnyway"}
    <2>1. (IF w.data = None THEN w.env ELSE w.data) \in Envs \cup {None}  BY DEF World
    <2>2. After(step, target, w) =
            [w EXCEPT !.stack = w.env, !.data = IF w.data = None THEN w.env ELSE w.data]
        BY <1>5 DEF After
    <2> QED  BY <2>1, <2>2 DEF World
<1>6. CASE step = "upStateless"
    BY <1>6 DEF After, World
<1>7. CASE step \notin {"createEnv", "writeEnv", "removeEnv", "removeEntry", "reload", "down",
                        "upsertEntry", "sync", "reconcile", "requireRepair", "clearRepair",
                        "up", "upAnyway", "upStateless"}
    <2>1. After(step, target, w) = w  BY <1>7 DEF After
    <2> QED  BY <2>1
<1> QED  BY <1>1, <1>2, <1>3, <1>4, <1>5, <1>6, <1>7

LEMMA LeavesType ==
    ASSUME NEW w \in World, NEW target \in Envs \cup {None}, NEW step,
           Accepts(step, target, w), step = "upsertEntry" => target \in Envs,
           NEW v \in Leaves(step, target, w)
    PROVE  v \in World
<1>1. v \in {w, [w EXCEPT !.stack = None], [w EXCEPT !.stack = w.env], After(step, target, w)}
    <2>1. CASE step = "down"  BY <2>1 DEF Leaves
    <2>2. CASE step \in {"up", "upAnyway"}  BY <2>2 DEF Leaves
    <2>3. CASE step \in {"upStateless", "reload", "requireRepair", "clearRepair"}
        BY <2>3 DEF Leaves
    <2>4. CASE step \notin {"down", "up", "upAnyway", "upStateless", "reload",
                            "requireRepair", "clearRepair"}
        BY <2>4 DEF Leaves
    <2> QED  BY <2>1, <2>2, <2>3, <2>4
<1>2. [w EXCEPT !.stack = None] \in World /\ [w EXCEPT !.stack = w.env] \in World
    BY DEF World
<1> QED  BY <1>1, <1>2, AfterType

-----------------------------------------------------------------------------
(***************************************************************************)
(* The programs.                                                           *)
(***************************************************************************)
\* A program that never puts an entry of its own.
PutsNothing(p) == \A i \in 1..Len(p) : p[i] # "upsertEntry"

LEMMA AppendedProgram ==
    ASSUME NEW p \in Seq(Steps), NEW q \in Seq(Steps)
    PROVE  /\ p \o q \in Seq(Steps) /\ Len(p \o q) = Len(p) + Len(q)
           /\ \A i \in 1..Len(p) : (p \o q)[i] = p[i]
           /\ \A i \in Len(p) + 1..Len(p) + Len(q) : (p \o q)[i] = q[i - Len(p)]
           /\ PutsNothing(p) /\ PutsNothing(q) => PutsNothing(p \o q)
<1>1. /\ p \o q \in Seq(Steps) /\ Len(p \o q) = Len(p) + Len(q)
      /\ \A i \in 1..Len(p) : (p \o q)[i] = p[i]
      /\ \A i \in Len(p) + 1..Len(p) + Len(q) : (p \o q)[i] = q[i - Len(p)]
    OBVIOUS
<1>2. ASSUME PutsNothing(p), PutsNothing(q), NEW i \in 1..Len(p \o q)
      PROVE  (p \o q)[i] # "upsertEntry"
    <2>1. CASE i \in 1..Len(p)  BY <1>1, <1>2, <2>1 DEF PutsNothing
    <2>2. CASE i \notin 1..Len(p)
        <3>1. i \in Len(p) + 1..Len(p) + Len(q) /\ i - Len(p) \in 1..Len(q)
            BY <1>1, <2>2
        <3> QED  BY <1>1, <1>2, <3>1 DEF PutsNothing
    <2> QED  BY <2>1, <2>2
<1> QED  BY <1>1, <1>2 DEF PutsNothing

LEMMA ProgramType ==
    ASSUME NEW kind \in Kinds, NEW target
    PROVE  /\ Program(kind, target) \in Seq(Steps)
           /\ kind # "create" => PutsNothing(Program(kind, target))
<1>1. /\ CreateProgram \in Seq(Steps) /\ CloseProgram \in Seq(Steps)
      /\ ResetProgram \in Seq(Steps) /\ DeployProgram \in Seq(Steps)
      /\ PatchProgram \in Seq(Steps) /\ QuietPatchProgram \in Seq(Steps)
    BY DEF CreateProgram, CloseProgram, ResetProgram, DeployProgram, PatchProgram,
           QuietPatchProgram, Steps, OwnSteps
<1>2. /\ PutsNothing(CloseProgram) /\ PutsNothing(ResetProgram)
      /\ PutsNothing(DeployProgram)
      /\ PutsNothing(PatchProgram) /\ PutsNothing(QuietPatchProgram)
    BY DEF CloseProgram, ResetProgram, DeployProgram, PatchProgram, QuietPatchProgram,
           PutsNothing
<1>3. CASE kind = "create"  BY <1>1, <1>3 DEF Program
<1>4. CASE kind = "close"   BY <1>1, <1>2, <1>4 DEF Program
<1>5. CASE kind = "reset"   BY <1>1, <1>2, <1>5 DEF Program
<1>6. CASE kind = "deploy"  BY <1>1, <1>2, <1>6 DEF Program
<1>7. CASE kind = "patch"   BY <1>1, <1>2, <1>7 DEF Program
<1> QED  BY <1>3, <1>4, <1>5, <1>6, <1>7 DEF Kinds

LEMMA VerifyProgramType ==
    ASSUME NEW kind \in LinkedKinds
    PROVE  VerifyProgram(kind) \in Seq(Steps) /\ PutsNothing(VerifyProgram(kind))
<1>1. CASE kind = "create"  BY <1>1 DEF VerifyProgram, PutsNothing, Steps, OwnSteps
<1>2. CASE kind = "close"   BY <1>2 DEF VerifyProgram, PutsNothing, Steps, OwnSteps
<1>3. CASE kind = "reset"   BY <1>3 DEF VerifyProgram, PutsNothing, Steps, OwnSteps
<1> QED  BY <1>1, <1>2, <1>3 DEF LinkedKinds

\* The programs of a repair that redoes an operation: first steps on the server,
\* then the outcome, then the journal; nothing is torn down after the outcome.
OnServer(p) == \A i \in 1..Len(p) :
    p[i] \notin {"createEnv", "journal", "clear", "upsertEntry", "succeed", "cancel"}
RecordsThenClears(p) ==
    /\ \A i \in 1..Len(p) :
         /\ p[i] \notin {"createEnv", "journal", "upsertEntry"}
         /\ p[i] = "clear" => \E k \in 1..i : Records(p[k])
    /\ \E k \in 1..Len(p) : Records(p[k])
    /\ \A k, i \in 1..Len(p) : k < i /\ Records(p[k]) => p[i] # "down"

LEMMA ServerThenRecord ==
    ASSUME NEW p \in Seq(Steps), NEW q \in Seq(Steps), OnServer(p), RecordsThenClears(q)
    PROVE  p \o q \in Seq(Steps) /\ RecordsThenClears(p \o q)
<1> DEFINE n == Len(p)
<1>1. /\ p \o q \in Seq(Steps) /\ Len(p \o q) = n + Len(q) /\ n \in Nat /\ Len(q) \in Nat
      /\ \A i \in 1..n : (p \o q)[i] = p[i]
      /\ \A i \in n + 1..n + Len(q) : (p \o q)[i] = q[i - n]
    BY AppendedProgram
<1> HIDE DEF n
<1>2. \A k \in 1..Len(q) : k + n \in n + 1..n + Len(q) /\ (p \o q)[k + n] = q[k]
    BY <1>1
<1>3. ASSUME NEW i \in 1..Len(p \o q)
      PROVE  /\ (p \o q)[i] \notin {"createEnv", "journal", "upsertEntry"}
             /\ (p \o q)[i] = "clear" => \E k \in 1..i : Records((p \o q)[k])
    <2>1. CASE i \in 1..n  BY <1>1, <2>1 DEF OnServer, n
    <2>2. CASE i \notin 1..n
        <3>1. i - n \in 1..Len(q) /\ (p \o q)[i] = q[i - n]  BY <1>1, <2>2
        <3>2. (p \o q)[i] \notin {"createEnv", "journal", "upsertEntry"}
            BY <3>1 DEF RecordsThenClears
        <3>3. ASSUME (p \o q)[i] = "clear" PROVE \E k \in 1..i : Records((p \o q)[k])
            <4>1. PICK k \in 1..(i - n) : Records(q[k])
                BY <3>1, <3>3 DEF RecordsThenClears
            <4>2. k \in 1..Len(q) /\ k + n \in 1..i  BY <1>1, <3>1
            <4> QED  BY <1>2, <4>1, <4>2
        <3> QED  BY <3>2, <3>3
    <2> QED  BY <2>1, <2>2
<1>4. \E k \in 1..Len(p \o q) : Records((p \o q)[k])
    <2>1. PICK k \in 1..Len(q) : Records(q[k])  BY DEF RecordsThenClears
    <2>2. k + n \in 1..Len(p \o q)  BY <1>1
    <2> QED  BY <1>2, <2>1, <2>2
<1>5. ASSUME NEW k \in 1..Len(p \o q), NEW i \in 1..Len(p \o q), k < i,
             Records((p \o q)[k])
      PROVE  (p \o q)[i] # "down"
    <2>1. k \notin 1..n  BY <1>1, <1>5 DEF OnServer, Records, n
    <2>2. /\ k - n \in 1..Len(q) /\ (p \o q)[k] = q[k - n]
          /\ i - n \in 1..Len(q) /\ (p \o q)[i] = q[i - n] /\ k - n < i - n
        BY <1>1, <1>5, <2>1
    <2> QED  BY <1>5, <2>2 DEF RecordsThenClears
<1> QED  BY <1>1, <1>3, <1>4, <1>5 DEF RecordsThenClears

LEMMA RedoCreateType == RedoCreate \in Seq(Steps) /\ RecordsThenClears(RedoCreate)
<1> DEFINE front == IF world.entry = None THEN <<"validate", "sync">> ELSE <<"validate">>
           tail == <<"up", "reload", "succeed", "clear">>
           undo == <<"cancel", "clear">>
<1>1. front \in Seq(Steps) /\ OnServer(front)
    <2>1. <<"validate">> \in Seq(Steps) /\ OnServer(<<"validate">>)
        BY DEF OnServer, Steps, OwnSteps
    <2>2. <<"validate", "sync">> \in Seq(Steps) /\ OnServer(<<"validate", "sync">>)
        BY DEF OnServer, Steps, OwnSteps
    <2> QED  BY <2>1, <2>2 DEF front
<1>2. tail \in Seq(Steps) /\ RecordsThenClears(tail)
    <2>1. tail \in Seq(Steps)  BY DEF Steps, OwnSteps
    <2>2. Len(tail) = 4 /\ tail[3] = "succeed"  OBVIOUS
    <2>3. \A i \in 1..4 : tail[i] = "clear" => i = 4  OBVIOUS
    <2>4. \A i \in 1..4 : tail[i] \notin {"createEnv", "journal", "upsertEntry"}  OBVIOUS
    <2>5. \A i \in 1..4 : Records(tail[i]) => i = 3  BY DEF Records
    <2>6. tail[4] # "down"  OBVIOUS
    <2> HIDE DEF tail
    <2> QED  BY <2>1, <2>2, <2>3, <2>4, <2>5, <2>6 DEF RecordsThenClears, Records
<1>3. undo \in Seq(Steps) /\ RecordsThenClears(undo)
    <2>1. undo \in Seq(Steps)  BY DEF Steps, OwnSteps
    <2>2. Len(undo) = 2 /\ undo[1] = "cancel"  OBVIOUS
    <2>3. \A i \in 1..2 :
              undo[i] \notin {"createEnv", "journal", "upsertEntry", "down"}
        OBVIOUS
    <2> QED  BY <2>1, <2>2, <2>3 DEF RecordsThenClears, Records
<1> HIDE DEF front, tail, undo
<1>4. front \o tail \in Seq(Steps) /\ RecordsThenClears(front \o tail)
    BY <1>1, <1>2, ServerThenRecord
<1>5. RedoCreate = IF world.env = None /\ world.entry = None THEN undo ELSE front \o tail
    BY DEF RedoCreate, front, tail, undo
<1> QED  BY <1>3, <1>4, <1>5

LEMMA RedoCloseType == RedoClose \in Seq(Steps) /\ RecordsThenClears(RedoClose)
<1> DEFINE front == IF world.env = None THEN <<>> ELSE <<"validate", "down", "removeEnv">>
           tail == <<"removeEntry", "reload", "succeed", "clear">>
<1>1. front \in Seq(Steps) /\ OnServer(front)
    <2>1. <<>> \in Seq(Steps) /\ OnServer(<<>>)
        BY DEF OnServer, Steps, OwnSteps
    <2>2. /\ <<"validate", "down", "removeEnv">> \in Seq(Steps)
          /\ OnServer(<<"validate", "down", "removeEnv">>)
        BY DEF OnServer, Steps, OwnSteps
    <2> QED  BY <2>1, <2>2 DEF front
<1>2. tail \in Seq(Steps) /\ RecordsThenClears(tail)
    <2>1. tail \in Seq(Steps)  BY DEF Steps, OwnSteps
    <2>2. Len(tail) = 4 /\ tail[3] = "succeed"  OBVIOUS
    <2>3. \A i \in 1..4 : tail[i] = "clear" => i = 4  OBVIOUS
    <2>4. \A i \in 1..4 : tail[i] \notin {"createEnv", "journal", "upsertEntry"}  OBVIOUS
    <2>5. \A i \in 1..4 : Records(tail[i]) => i = 3  BY DEF Records
    <2>6. tail[4] # "down"  OBVIOUS
    <2> HIDE DEF tail
    <2> QED  BY <2>1, <2>2, <2>3, <2>4, <2>5, <2>6 DEF RecordsThenClears, Records
<1> HIDE DEF front, tail
<1>3. RedoClose = front \o tail  BY DEF RedoClose, front, tail
<1> QED  BY <1>1, <1>2, <1>3, ServerThenRecord

LEMMA RedoResetType == RedoReset \in Seq(Steps) /\ RecordsThenClears(RedoReset)
<1> DEFINE front == <<"validate", "pull", "writeEnv">>
           mid == IF journal.stage = "prepared" THEN <<"stageEnv">> ELSE <<"validate">>
           tail == <<"reconcile", "requireRepair", "stageDown", "down", "up",
                     "verifyRuntime", "reconcile", "clearRepair", "reload",
                     "verifyShared", "succeed", "clear">>
<1>1. front \in Seq(Steps) /\ OnServer(front)  BY DEF OnServer, Steps, OwnSteps
<1>2. mid \in Seq(Steps) /\ OnServer(mid)
    <2>1. <<"validate">> \in Seq(Steps) /\ OnServer(<<"validate">>)
        BY DEF OnServer, Steps, OwnSteps
    <2>2. <<"stageEnv">> \in Seq(Steps) /\ OnServer(<<"stageEnv">>)
        BY DEF OnServer, Steps, OwnSteps
    <2> QED  BY <2>1, <2>2 DEF mid
<1>3. tail \in Seq(Steps) /\ RecordsThenClears(tail)
    <2>1. tail \in Seq(Steps)  BY DEF Steps, OwnSteps
    <2>2. Len(tail) = 12 /\ tail[11] = "succeed"  OBVIOUS
    <2>3. \A i \in 1..12 : tail[i] = "clear" => i = 12  OBVIOUS
    <2>4. \A i \in 1..12 : tail[i] \notin {"createEnv", "journal", "upsertEntry"}  OBVIOUS
    <2>5. \A i \in 1..12 : Records(tail[i]) => i = 11  BY DEF Records
    <2>6. tail[12] # "down"  OBVIOUS
    <2> HIDE DEF tail
    <2> QED  BY <2>1, <2>2, <2>3, <2>4, <2>5, <2>6 DEF RecordsThenClears, Records
<1> HIDE DEF front, mid, tail
<1>4. mid \o tail \in Seq(Steps) /\ RecordsThenClears(mid \o tail)
    BY <1>2, <1>3, ServerThenRecord
<1>5. front \o (mid \o tail) \in Seq(Steps) /\ RecordsThenClears(front \o (mid \o tail))
    BY <1>1, <1>4, ServerThenRecord
<1>6. RedoReset = front \o (mid \o tail)
    BY <1>1, <1>2, <1>3 DEF RedoReset, front, mid, tail
<1> QED  BY <1>5, <1>6

LEMMA RedoProgramType ==
    ASSUME NEW kind \in Kinds
    PROVE  /\ RedoProgram(kind) \in Seq(Steps) /\ PutsNothing(RedoProgram(kind))
           /\ kind \in LinkedKinds => RecordsThenClears(RedoProgram(kind))
<1>1. \A p : RecordsThenClears(p) => PutsNothing(p)  BY DEF RecordsThenClears, PutsNothing
<1>2. CASE kind = "create"  BY <1>1, <1>2, RedoCreateType DEF RedoProgram
<1>3. CASE kind = "close"   BY <1>1, <1>3, RedoCloseType DEF RedoProgram
<1>4. CASE kind = "reset"   BY <1>1, <1>4, RedoResetType DEF RedoProgram
<1>5. CASE kind = "deploy"
    BY <1>5 DEF RedoProgram, PutsNothing, LinkedKinds, Steps, OwnSteps
<1>6. CASE kind = "patch"
    BY <1>6 DEF RedoProgram, PutsNothing, LinkedKinds, Steps, OwnSteps
<1> QED  BY <1>2, <1>3, <1>4, <1>5, <1>6 DEF Kinds

-----------------------------------------------------------------------------
(***************************************************************************)
(* The steps keep the types.                                               *)
(***************************************************************************)

LEMMA CallType ==
    ASSUME NEW c \in Calls
    PROVE  /\ c \in Call /\ c.op \in Ops \cup {NoOp} /\ c.kind \in Kinds
           /\ c.target \in Envs \cup {None}
           /\ c.kind # "close" => c.target \in Envs
           /\ c.op # NoOp => c.kind \in LinkedKinds
BY LifecycleAssumption DEF Call

LEMMA WorkType ==
    ASSUME TypeInv, work # NoWork
    PROVE  /\ work \in Mutation /\ work.call \in Calls /\ work.prog \in Seq(Steps)
           /\ work.at \in Nat \ {0} /\ Len(work.prog) \in Nat
           /\ work.call.op \in Ops \cup {NoOp} /\ work.call.kind \in Kinds
           /\ work.call.target \in Envs \cup {None}
<1>1. work \in Mutation  BY DEF TypeInv, TypeOK
<1>2. work.call \in Calls /\ work.prog \in Seq(Steps) /\ work.at \in Nat \ {0}
    BY <1>1 DEF Mutation
<1> QED  BY <1>1, <1>2, CallType

LEMMA PrepType ==
    ASSUME TypeInv, prep # NoWork
    PROVE  /\ prep \in Preparation /\ prep.call \in Calls
           /\ prep.call.op \in Ops \cup {NoOp}
<1>1. prep \in Preparation  BY DEF TypeInv, TypeOK
<1>2. prep.call \in Calls  BY <1>1 DEF Preparation
<1> QED  BY <1>1, <1>2, CallType

LEMMA StepType ==
    ASSUME TypeInv, Running
    PROVE  /\ work.at \in 1..Len(work.prog) /\ Step \in Steps
           /\ work.prog[work.at] = "upsertEntry" => work.call.target \in Envs
<1>1. work # NoWork /\ work.at <= Len(work.prog)  BY DEF Running
<1>2. work.at \in 1..Len(work.prog)  BY <1>1, WorkType
<1> QED  BY <1>1, <1>2, WorkType DEF Step, TypeInv, Requested

LEMMA NoWorkIsNoWork == \A m \in Preparation \cup Mutation : m # NoWork
BY LifecycleAssumption

\* A step of a program leaves everything of the work but its place and its error.
LEMMA NextStep ==
    ASSUME TypeInv, Running, Advance \/ Fail
    PROVE  /\ work' \in Mutation /\ work' # NoWork
           /\ work'.who = work.who /\ work'.call = work.call /\ work'.phase = work.phase
           /\ work'.prog = work.prog /\ work'.cancelled = work.cancelled
           /\ work'.result = work.result
           /\ \/ work'.at = work.at + 1
              \/ work'.at = Len(work.prog) + 1 /\ work'.err
           /\ work'.err \/ (work'.at = work.at + 1 /\ work'.err = work.err)
<1>1. /\ work \in Mutation /\ work.at \in Nat \ {0} /\ Len(work.prog) \in Nat
      /\ work # NoWork
    BY WorkType DEF Running
<1>2. CASE Advance
    <2>1. work' = [work EXCEPT !.at = work.at + 1]  BY <1>2 DEF Advance
    <2>2. work.at + 1 \in Nat \ {0}  BY <1>1
    <2>3. work' \in Mutation  BY <1>1, <2>1, <2>2 DEF Mutation
    <2>4. work'.at = work.at + 1 /\ work'.err = work.err  BY <1>1, <2>1 DEF Mutation
    <2> QED  BY <1>1, <2>1, <2>3, <2>4, NoWorkIsNoWork DEF Mutation
<1>3. CASE Fail
    <2> DEFINE next == IF Step = "upAnyway" THEN work.at + 1 ELSE Len(work.prog) + 1
    <2>1. work' = [work EXCEPT !.err = TRUE, !.at = next]  BY <1>3 DEF Fail
    <2>2. next \in Nat \ {0} /\ next \in {work.at + 1, Len(work.prog) + 1}  BY <1>1
    <2> HIDE DEF next
    <2>3. work' \in Mutation  BY <1>1, <2>1, <2>2 DEF Mutation
    <2>4. work'.at = next /\ work'.err = TRUE  BY <1>1, <2>1 DEF Mutation
    <2> QED  BY <1>1, <2>1, <2>2, <2>3, <2>4, NoWorkIsNoWork DEF Mutation
<1> QED  BY <1>2, <1>3

LEMMA TouchType ==
    ASSUME TypeInv, work # NoWork, Touch
    PROVE  touched' \subseteq Ops
BY WorkType DEF Touch, TypeInv, TypeOK

LEMMA MarkedType == ASSUME NEW w \in World PROVE Marked(w) \in World
BY SetRepairType DEF Marked

LEMMA TransitionType ==
    ASSUME TypeInv, NEW op \in Ops \cup {NoOp}, NEW status \in Statuses,
           NEW ok \in BOOLEAN, Transition(op, status, ok)
    PROVE  record' \in [Ops -> Statuses] /\ deferred' \in [Ops -> Statuses]
BY DEF Transition, TypeInv, TypeOK, books, Statuses, Fault

LEMMA SetJobType ==
    ASSUME TypeInv, NEW op, NEW status \in Statuses, SetJob(op, status)
    PROVE  job' \in [Ops -> Statuses]
BY DEF SetJob, TypeInv, TypeOK

LEMMA ClearType ==
    ASSUME TypeInv, NEW ok \in BOOLEAN, Clear(ok)
    PROVE  /\ journal' \in {journal, NoJournal} /\ latched' \in BOOLEAN
           /\ before' \in World \cup {None}
BY DEF Clear, TypeInv, TypeOK

\* What of the types an action leaves alone.
LEMMA SameWork ==
    ASSUME TypeInv, work' \in Mutation, work' # NoWork, work # NoWork,
           work'.call = work.call, work'.prog = work.prog, journal' \in {journal, NoJournal}
    PROVE  Requested'
BY DEF TypeInv, Requested

LEMMA QuietWork ==
    ASSUME TypeInv, work' # NoWork, PutsNothing(work'.prog), UNCHANGED journal
    PROVE  Requested'
BY DEF TypeInv, Requested, PutsNothing

LEMMA KeptWork ==
    ASSUME TypeInv, work' \in {work, NoWork}, journal' \in {journal, NoJournal}
    PROVE  Requested'
BY DEF TypeInv, Requested

LEMMA InitType == Init => TypeInv
<1> SUFFICES ASSUME Init PROVE TypeInv
    OBVIOUS
<1>1. world \in World
    <2>1. EmptyWorld \in World  BY DEF EmptyWorld, World
    <2>2. ASSUME NEW e \in Envs PROVE RunningWorld(e) \in World
        <3>1. [env |-> e, repair |-> FALSE] \in Entry  BY DEF Entry
        <3> QED  BY <3>1 DEF RunningWorld, World
    <2> QED  BY <2>1, <2>2, LifecycleAssumption DEF Init
<1>2. TypeOK  BY <1>1 DEF Init, TypeOK, Statuses
<1> QED  BY <1>2 DEF Init, TypeInv, Requested

\* Preparation.
LEMMA PreparingType ==
    ASSUME TypeInv, (\E c \in Calls : Prepare(c)) \/ Preparing
    PROVE  TypeInv'
<1> USE DEF TypeInv
<1>1. ASSUME NEW c \in Calls, Prepare(c) PROVE TypeInv'
    <2>1. prep' \in Preparation  BY <1>1 DEF Prepare, Preparation
    <2> QED  BY <1>1, <2>1, KeptWork DEF Prepare, TypeOK, gate, books, history
<1>2. ASSUME NEW ok \in BOOLEAN, ReserveRecord(ok) PROVE TypeInv'
    <2>1. prep' \in Preparation \cup {NoWork}
        BY <1>2, PrepType DEF ReserveRecord, Preparation, Fault
    <2>2. record' \in [Ops -> Statuses]
        BY <1>2 DEF ReserveRecord, TypeOK, Statuses, Unfinished
    <2> QED  BY <1>2, <2>1, <2>2, KeptWork DEF ReserveRecord, TypeOK, gate, history
<1>3. ASSUME ReserveJob PROVE TypeInv'
    <2>1. prep' \in Preparation  BY <1>3, PrepType DEF ReserveJob, Preparation
    <2>2. job' \in [Ops -> Statuses]
        BY <1>3, SetJobType DEF ReserveJob, Statuses, Unfinished
    <2> QED  BY <1>3, <2>1, <2>2, KeptWork DEF ReserveJob, TypeOK, gate, books, history
<1>4. ASSUME NEW ok \in BOOLEAN, Reject(ok) PROVE TypeInv'
    <2>1. record' \in [Ops -> Statuses] /\ deferred' \in [Ops -> Statuses]
        BY <1>4, PrepType, TransitionType DEF Reject, Statuses, Terminal
    <2> QED  BY <1>4, <2>1, KeptWork DEF Reject, TypeOK, history
<1>5. ASSUME Promote PROVE TypeInv'
    <2>1. work' \in Mutation
        <3>1. <<>> \in Seq(Steps)  OBVIOUS
        <3> QED  BY <1>5, <3>1, PrepType DEF Promote, Mutation, Statuses
    <2>2. PutsNothing(work'.prog)  BY <1>5 DEF Promote, PutsNothing
    <2>3. job' \in [Ops -> Statuses]
        BY <1>5, SetJobType DEF Promote, Statuses, Unfinished
    <2>4. Requested'  BY <1>5, <2>1, <2>2, NoWorkIsNoWork, QuietWork DEF Promote
    <2> QED  BY <1>5, <2>1, <2>3, <2>4 DEF Promote, TypeOK, gate, books, history
<1>6. ASSUME NEW ok \in BOOLEAN, PromoteRefused(ok) PROVE TypeInv'
    <2>1. record' \in [Ops -> Statuses] /\ deferred' \in [Ops -> Statuses]
        <3>1. CASE Transition(prep.call.op, "cancelled", ok)
            BY <1>6, <3>1, PrepType, TransitionType DEF PromoteRefused, Statuses, Terminal
        <3>2. CASE ~Transition(prep.call.op, "cancelled", ok)
            BY <1>6, <3>2 DEF PromoteRefused, TypeOK, Statuses, Terminal
        <3> QED  BY <3>1, <3>2
    <2>2. job' \in [Ops -> Statuses]
        BY <1>6, SetJobType DEF PromoteRefused, Statuses, Terminal
    <2> QED  BY <1>6, <2>1, <2>2, KeptWork DEF PromoteRefused, TypeOK, history
<1> QED  BY <1>1, <1>2, <1>3, <1>4, <1>5, <1>6 DEF Preparing

\* Beginning and ending a piece of work.
LEMMA FinishedJobType ==
    ASSUME NEW status \in Statuses, NEW cancelled
    PROVE  FinishedJob(status, cancelled) \in Statuses
BY DEF FinishedJob, Statuses, Terminal

LEMMA StartingType ==
    ASSUME TypeInv,
           \/ \E c \in Calls : Begin(c)
           \/ \E ok \in BOOLEAN : Start(ok) \/ RejectStarted(ok)
           \/ BeginRepair
    PROVE  TypeInv'
<1> USE DEF TypeInv
<1>1. ASSUME NEW c \in Calls, Begin(c) PROVE TypeInv'
    <2>1. /\ Program(c.kind, c.target) \in Seq(Steps)
          /\ PutsNothing(Program(c.kind, c.target))
        BY <1>1, CallType, ProgramType DEF Begin
    <2>2. work' \in Mutation /\ work'.prog = Program(c.kind, c.target)
        BY <1>1, <2>1 DEF Begin, Mutation, Statuses
    <2>3. Requested'  BY <1>1, <2>1, <2>2, NoWorkIsNoWork, QuietWork DEF Begin
    <2> QED  BY <1>1, <2>2, <2>3 DEF Begin, TypeOK, gate, books, history
<1>2. ASSUME NEW ok \in BOOLEAN, Start(ok) PROVE TypeInv'
    <2> DEFINE stale == Stale(work.call)
               op == work.call.op
    <2>1. work # NoWork /\ op \in Ops \cup {NoOp} /\ work \in Mutation
          /\ work.call \in Calls /\ work.call.kind \in Kinds
        BY <1>2, WorkType DEF Start
    <2>2. /\ record' \in [Ops -> Statuses] /\ deferred' \in [Ops -> Statuses]
          /\ job' \in [Ops -> Statuses]
        <3>1. CASE stale
            <4>1. SetJob(op, "none") /\ UNCHANGED books  BY <1>2, <3>1 DEF Start
            <4> QED  BY <4>1, SetJobType DEF TypeOK, books, Statuses
        <3>2. CASE ~stale
            <4>1. Transition(op, "running", ok)  BY <1>2, <3>2 DEF Start
            <4>2. job' = job \/ SetJob(op, FinishedJob("failed", work.cancelled))
                BY <1>2, <3>2 DEF Start
            <4>3. "running" \in Statuses /\ FinishedJob("failed", work.cancelled) \in Statuses
                BY FinishedJobType DEF Statuses, Unfinished, Terminal
            <4> HIDE DEF op
            <4> QED  BY <2>1, <4>1, <4>2, <4>3, SetJobType, TransitionType DEF TypeOK
        <3> QED  BY <3>1, <3>2
    <2>3. work' \in Mutation /\ Requested'
        <3> DEFINE prog == Program(work.call.kind, work.call.target)
        <3>1. CASE ok /\ ~stale
            <4>1. work' = [work EXCEPT !.phase = "run", !.prog = prog]
                BY <1>2, <3>1 DEF Start
            <4>2. prog \in Seq(Steps) /\ (work.call.kind # "create" => PutsNothing(prog))
                BY <2>1, ProgramType
            <4> HIDE DEF prog
            <4>3. work' \in Mutation /\ work'.prog = prog /\ work'.call = work.call
                BY <2>1, <4>1, <4>2 DEF Mutation
            <4>4. CASE work.call.kind = "create"
                <5>1. work'.call.target \in Envs
                    BY <2>1, <4>3, <4>4, CallType
                <5> QED  BY <1>2, <4>3, <5>1 DEF Requested, Start
            <4>5. CASE work.call.kind # "create"
                BY <1>2, <4>2, <4>3, <4>5, NoWorkIsNoWork, QuietWork DEF Start
            <4> QED  BY <4>3, <4>4, <4>5
        <3>2. CASE ~(ok /\ ~stale)
            <4>1. work' = [work EXCEPT !.phase = "reject"]  BY <1>2, <3>2 DEF Start
            <4>2. /\ work' \in Mutation /\ work'.prog = work.prog
                  /\ work'.call = work.call
                BY <2>1, <4>1 DEF Mutation
            <4> QED  BY <1>2, <2>1, <4>2, NoWorkIsNoWork, SameWork DEF Start
        <3> QED  BY <3>1, <3>2
    <2> QED  BY <1>2, <2>2, <2>3 DEF Start, TypeOK, gate, history
<1>3. ASSUME NEW ok \in BOOLEAN, RejectStarted(ok) PROVE TypeInv'
    <2>1. record' \in [Ops -> Statuses] /\ deferred' \in [Ops -> Statuses]
        BY <1>3, WorkType, TransitionType DEF RejectStarted, Statuses, Terminal
    <2> QED  BY <1>3, <2>1, KeptWork DEF RejectStarted, TypeOK, history
<1>4. ASSUME BeginRepair PROVE TypeInv'
    <2>1. journal # NoJournal /\ IntentOf(journal) \in Calls
        BY <1>4 DEF BeginRepair, Requested
    <2>2. IntentOf(journal) =
            [op |-> journal.op, kind |-> journal.kind, target |-> journal.target]
        BY <2>1 DEF IntentOf
    <2>3. journal.kind \in Kinds /\ (journal.op # NoOp => journal.kind \in LinkedKinds)
        BY <2>1, <2>2, CallType
    <2>4. RepairProgram \in Seq(Steps) /\ PutsNothing(RepairProgram)
        BY <2>3, VerifyProgramType, RedoProgramType DEF RepairProgram
    <2>5. work' \in Mutation /\ work'.prog = RepairProgram
        <3> HIDE DEF Requested
        <3> QED  BY <1>4, <2>1, <2>2, <2>4 DEF BeginRepair, Mutation, Statuses
    <2>6. Requested'
        BY <1>4, <2>4, <2>5, NoWorkIsNoWork, QuietWork DEF BeginRepair
    <2> QED  BY <1>4, <2>5, <2>6 DEF BeginRepair, TypeOK, gate, books, history
<1> QED  BY <1>1, <1>2, <1>3, <1>4

\* Running a program.
LEMMA RunningType ==
    ASSUME TypeInv,
           \/ StepDone \/ StepRefused \/ StepFails \/ CreateEnvFails
           \/ \E ok \in BOOLEAN : \/ WriteJournal(ok) \/ AdvanceJournal(ok)
                                  \/ ClearStep(ok) \/ RecordRepair(ok)
    PROVE  TypeInv'
<1> USE DEF TypeInv
<1>a. /\ Running /\ work # NoWork /\ work \in Mutation /\ work.call \in Calls
      /\ work.call.op \in Ops \cup {NoOp} /\ work.call.kind \in Kinds
      /\ work.call.target \in Envs \cup {None}
      /\ Step \in Steps /\ (Step = "upsertEntry" => work.call.target \in Envs)
    <2>1. Running
        BY DEF StepDone, StepRefused, StepFails, CreateEnvFails, WriteJournal,
               AdvanceJournal, ClearStep, RecordRepair
    <2> QED  BY <2>1, WorkType, StepType DEF Running, Step
<1>b. ASSUME Advance \/ Fail, journal' \in {journal, NoJournal}
      PROVE  work' \in Mutation /\ Requested'
    BY <1>a, <1>b, NextStep, SameWork
<1>c. ASSUME NEW w \in World PROVE Marked(w) \in World
    BY <1>c, MarkedType
<1>1. ASSUME StepDone PROVE TypeInv'
    <2>1. world' \in World
        BY <1>1, <1>a, AfterType DEF StepDone, TypeOK
    <2>2. touched' \subseteq Ops  BY <1>1, <1>a, TouchType DEF StepDone
    <2>3. work' \in Mutation /\ Requested'  BY <1>1, <1>b DEF StepDone
    <2> QED  BY <1>1, <2>1, <2>2, <2>3 DEF StepDone, TypeOK, gate, books
<1>2. ASSUME StepRefused PROVE TypeInv'
    <2>1. world' \in World  BY <1>2, <1>c DEF StepRefused, TypeOK
    <2>2. touched' \subseteq Ops  BY <1>2, <1>a, TouchType DEF StepRefused
    <2>3. work' \in Mutation /\ Requested'  BY <1>2, <1>b DEF StepRefused
    <2> QED  BY <1>2, <2>1, <2>2, <2>3 DEF StepRefused, TypeOK, gate, books
<1>3. ASSUME StepFails PROVE TypeInv'
    <2>1. PICK w \in Leaves(Step, work.call.target, world) : world' \in {w, Marked(w)}
        BY <1>3 DEF StepFails
    <2>2. w \in World
        BY <1>3, <1>a, LeavesType DEF StepFails, TypeOK
    <2>3. touched' \subseteq Ops  BY <1>3, <1>a, TouchType DEF StepFails
    <2>4. work' \in Mutation /\ Requested'  BY <1>3, <1>b DEF StepFails
    <2> QED  BY <1>3, <1>c, <2>1, <2>2, <2>3, <2>4 DEF StepFails, TypeOK, gate, books
<1>4. ASSUME CreateEnvFails PROVE TypeInv'
    <2>1. /\ journal' \in {journal, NoJournal} /\ latched' \in BOOLEAN
          /\ before' \in World \cup {None}
        BY <1>4, ClearType DEF CreateEnvFails
    <2>2. work' \in Mutation /\ Requested'  BY <1>4, <1>b, <2>1 DEF CreateEnvFails
    <2> QED  BY <1>4, <2>1, <2>2 DEF CreateEnvFails, TypeOK, books
<1>5. ASSUME NEW ok \in BOOLEAN, WriteJournal(ok) PROVE TypeInv'
    <2> DEFINE new == [op |-> work.call.op, kind |-> work.call.kind,
                       target |-> work.call.target, stage |-> "prepared"]
    <2>1. new \in Journal  BY <1>a DEF Journal
    <2>2. IntentOf(new) = work.call
        <3>1. new # NoJournal  BY <2>1, LifecycleAssumption
        <3>2. work.call \in Call  BY <1>a, CallType
        <3> QED  BY <3>1, <3>2 DEF IntentOf, Call
    <2>3. journal' \in {NoJournal, new} /\ latched' \in BOOLEAN /\ journal = NoJournal
        BY <1>5 DEF WriteJournal, TypeOK
    <2>4. Advance \/ Fail  BY <1>5 DEF WriteJournal
    <2>5. work' \in Mutation /\ work' # NoWork /\ work'.prog = work.prog
          /\ work'.call = work.call
        BY <1>a, <2>4, NextStep
    <2>6. Requested'
        <3>1. journal' # NoJournal => IntentOf(journal') = work.call  BY <2>2, <2>3
        <3> HIDE DEF new
        <3> QED  BY <1>a, <2>5, <3>1 DEF Requested
    <2>7. before' \in World \cup {None}  BY <1>5 DEF WriteJournal, TypeOK
    <2> HIDE DEF new
    <2> QED  BY <1>5, <2>1, <2>3, <2>5, <2>6, <2>7 DEF WriteJournal, TypeOK, books
<1>6. ASSUME NEW ok \in BOOLEAN, AdvanceJournal(ok) PROVE TypeInv'
    <2> DEFINE new == [journal EXCEPT !.stage = StageOf(Step)]
    <2>1. journal # NoJournal /\ journal \in Journal
        BY <1>6 DEF AdvanceJournal, TypeOK
    <2>2. StageOf(Step) \in {"env-updated", "registry-synced", "down-pending"}
        BY <1>6 DEF AdvanceJournal, StageOf
    <2>3. new \in Journal /\ new # NoJournal /\ IntentOf(new) = IntentOf(journal)
        <3>1. new \in Journal  BY <2>1, <2>2 DEF Journal
        <3>2. new # NoJournal  BY <3>1, LifecycleAssumption
        <3>3. new.op = journal.op /\ new.kind = journal.kind /\ new.target = journal.target
            BY <2>1 DEF Journal
        <3> QED  BY <2>1, <3>1, <3>2, <3>3 DEF IntentOf
    <2>4. journal' \in {journal, new} /\ latched' \in BOOLEAN /\ world' \in World
        BY <1>6, <1>c DEF AdvanceJournal, TypeOK
    <2>5. Advance \/ Fail  BY <1>6 DEF AdvanceJournal
    <2>6. work' \in Mutation /\ work' # NoWork /\ work'.prog = work.prog
          /\ work'.call = work.call
        BY <1>a, <2>5, NextStep
    <2> HIDE DEF new
    <2>7. Requested'  BY <1>a, <2>1, <2>3, <2>4, <2>6 DEF Requested
    <2>8. touched' \subseteq Ops  BY <1>6, <1>a, TouchType DEF AdvanceJournal
    <2> QED  BY <1>6, <2>3, <2>4, <2>6, <2>7, <2>8 DEF AdvanceJournal, TypeOK, books
<1>7. ASSUME NEW ok \in BOOLEAN, ClearStep(ok) PROVE TypeInv'
    <2>1. /\ journal' \in {journal, NoJournal} /\ latched' \in BOOLEAN
          /\ before' \in World \cup {None}
        BY <1>7, ClearType DEF ClearStep
    <2>2. work' \in Mutation /\ Requested'  BY <1>7, <1>b, <2>1 DEF ClearStep
    <2> QED  BY <1>7, <2>1, <2>2 DEF ClearStep, TypeOK, books
<1>8. ASSUME NEW ok \in BOOLEAN, RecordRepair(ok) PROVE TypeInv'
    <2>1. record' \in [Ops -> Statuses] /\ deferred' \in [Ops -> Statuses]
        BY <1>8, <1>a, TransitionType DEF RecordRepair, Statuses, Terminal
    <2>2. work' \in Mutation /\ Requested'
        <3>1. CASE ok
            <4>1. work' = [work EXCEPT !.who = "settler", !.at = work.at + 1]
                BY <1>8, <3>1 DEF RecordRepair
            <4>2. work.at + 1 \in Nat \ {0}  BY <1>a DEF Mutation
            <4>3. /\ work' \in Mutation /\ work'.prog = work.prog
                  /\ work'.call = work.call
                BY <1>a, <4>1, <4>2 DEF Mutation
            <4> QED  BY <1>8, <1>a, <4>3, NoWorkIsNoWork, SameWork DEF RecordRepair
        <3>2. CASE ~ok  BY <1>8, <1>b, <3>2 DEF RecordRepair
        <3> QED  BY <3>1, <3>2
    <2> QED  BY <1>8, <2>1, <2>2 DEF RecordRepair, TypeOK, gate, history
<1> QED  BY <1>1, <1>2, <1>3, <1>4, <1>5, <1>6, <1>7, <1>8

\* The end of a program.
LEMMA OutcomeType == Outcome \in {"succeeded", "recovery_required", "cancelled", "failed"}
BY DEF Outcome

LEMMA EndingType ==
    ASSUME TypeInv,
           \/ \E ok \in BOOLEAN : RecordResult(ok) \/ SettleJournal(ok) \/ RepairFails(ok)
           \/ FinishJob \/ Return
    PROVE  TypeInv'
<1> USE DEF TypeInv
<1>1. ASSUME NEW ok \in BOOLEAN, RecordResult(ok) PROVE TypeInv'
    <2>1. work # NoWork  BY <1>1 DEF RecordResult, Ended
    <2>2. record' \in [Ops -> Statuses] /\ deferred' \in [Ops -> Statuses]
        BY <1>1, <2>1, WorkType, OutcomeType, TransitionType
        DEF RecordResult, Statuses, Terminal, Unfinished
    <2>3. work' \in Mutation /\ work'.prog = work.prog /\ work'.call = work.call
        BY <1>1, <2>1, WorkType, OutcomeType
        DEF RecordResult, Mutation, Statuses, Terminal, Unfinished
    <2>4. Requested'  BY <1>1, <2>1, <2>3, NoWorkIsNoWork, SameWork DEF RecordResult
    <2>5. pinned' \in BOOLEAN  BY <1>1 DEF RecordResult, TypeOK
    <2> QED  BY <1>1, <2>2, <2>3, <2>4, <2>5 DEF RecordResult, TypeOK, history
<1>2. ASSUME NEW ok \in BOOLEAN, SettleJournal(ok) PROVE TypeInv'
    <2>1. /\ journal' \in {journal, NoJournal} /\ latched' \in BOOLEAN
          /\ before' \in World \cup {None}
        BY <1>2, ClearType DEF SettleJournal
    <2>2. work' \in Mutation /\ work'.prog = work.prog /\ work'.call = work.call
        BY <1>2, WorkType DEF SettleJournal, Mutation
    <2>3. Requested'  BY <1>2, <2>1, <2>2, NoWorkIsNoWork, SameWork DEF SettleJournal
    <2> QED  BY <1>2, <2>1, <2>2, <2>3 DEF SettleJournal, TypeOK, books
<1>3. ASSUME NEW ok \in BOOLEAN, RepairFails(ok) PROVE TypeInv'
    <2>1. record' \in [Ops -> Statuses] /\ deferred' \in [Ops -> Statuses]
        BY <1>3, WorkType, TransitionType DEF RepairFails, Ended, Statuses, Unfinished
    <2> QED  BY <1>3, <2>1, KeptWork DEF RepairFails, TypeOK, gate, history
<1>4. ASSUME FinishJob PROVE TypeInv'
    <2>1. work.result \in Statuses  BY <1>4, WorkType DEF FinishJob, Mutation
    <2>2. job' \in [Ops -> Statuses]
        BY <1>4, <2>1, FinishedJobType, SetJobType DEF FinishJob
    <2> QED  BY <1>4, <2>2, KeptWork DEF FinishJob, TypeOK, gate, books, history
<1>5. ASSUME Return PROVE TypeInv'
    BY <1>5, KeptWork DEF Return, TypeOK, gate, books, history
<1> QED  BY <1>1, <1>2, <1>3, <1>4, <1>5

\* Cancellation, retries and crashes.
LEMMA CancelledType ==
    /\ \A w \in Mutation : Cancelled(w) \in Mutation /\ Cancelled(w).call = w.call
                           /\ Cancelled(w).prog = w.prog
    /\ \A p \in Preparation : Cancelled(p) \in Preparation
    /\ Cancelled(NoWork) = NoWork
<1>1. \A w \in Mutation : Cancelled(w) = [w EXCEPT !.cancelled = TRUE]
    BY NoWorkIsNoWork DEF Cancelled
<1>2. \A p \in Preparation : Cancelled(p) = [p EXCEPT !.cancelled = TRUE]
    BY NoWorkIsNoWork DEF Cancelled
<1>3. Cancelled(NoWork) = NoWork  BY DEF Cancelled
<1> QED  BY <1>1, <1>2, <1>3 DEF Mutation, Preparation

LEMMA InterruptingType ==
    ASSUME TypeInv,
           \/ \E op \in Ops : CancelJob(op) \/ \E ok \in BOOLEAN : Retry(op, ok)
           \/ Interrupt \/ Crash
    PROVE  TypeInv'
<1> USE DEF TypeInv
<1>1. ASSUME NEW op \in Ops, CancelJob(op) PROVE TypeInv'
    <2>1. job' \in [Ops -> Statuses]  BY <1>1 DEF CancelJob, TypeOK, Statuses, Terminal
    <2>2. CASE work' = work
        BY <1>1, <2>1, <2>2, KeptWork DEF CancelJob, TypeOK, gate, books, history
    <2>3. CASE work # NoWork /\ work' = Cancelled(work)
        <3>1. work' \in Mutation /\ work'.prog = work.prog /\ work'.call = work.call
            BY <2>3, WorkType, CancelledType
        <3>2. Requested'  BY <1>1, <2>3, <3>1, NoWorkIsNoWork, SameWork DEF CancelJob
        <3> QED  BY <1>1, <2>1, <3>1, <3>2 DEF CancelJob, TypeOK, gate, books, history
    <2> QED  BY <1>1, <2>2, <2>3 DEF CancelJob
<1>2. ASSUME NEW op \in Ops, NEW ok \in BOOLEAN, Retry(op, ok) PROVE TypeInv'
    <2>1. record' \in [Ops -> Statuses] /\ deferred' \in [Ops -> Statuses]
        BY <1>2 DEF Retry, TypeOK, books, Statuses
    <2> QED  BY <1>2, <2>1, KeptWork DEF Retry, TypeOK, gate, history
<1>3. ASSUME Interrupt PROVE TypeInv'
    <2>1. prep' \in Preparation \cup {NoWork}
        BY <1>3, CancelledType DEF Interrupt, TypeOK
    <2>2. CASE work = NoWork
        <3>1. work' = work  BY <1>3, <2>2, CancelledType DEF Interrupt
        <3> QED  BY <1>3, <2>1, <3>1, KeptWork DEF Interrupt, TypeOK, gate, books, history
    <2>3. CASE work # NoWork
        <3>1. work' \in Mutation /\ work'.prog = work.prog /\ work'.call = work.call
            BY <1>3, <2>3, WorkType, CancelledType DEF Interrupt
        <3>2. Requested'  BY <1>3, <2>3, <3>1, NoWorkIsNoWork, SameWork DEF Interrupt
        <3> QED  BY <1>3, <2>1, <3>1, <3>2 DEF Interrupt, TypeOK, gate, books, history
    <2> QED  BY <2>2, <2>3
<1>4. ASSUME Crash PROVE TypeInv'
    <2>1. world' \in World
        <3>1. CASE Running /\ Step \notin OwnSteps /\ Accepts(Step, work.call.target, world)
            <4>1. /\ work.call.target \in Envs \cup {None}
                  /\ Step = "upsertEntry" => work.call.target \in Envs
                BY <3>1, WorkType, StepType DEF Running, Step
            <4> QED  BY <1>4, <3>1, <4>1, LeavesType DEF Crash, CrashLeaves, TypeOK
        <3>2. CASE ~(Running /\ Step \notin OwnSteps
                       /\ Accepts(Step, work.call.target, world))
            BY <1>4, <3>2 DEF Crash, CrashLeaves, TypeOK
        <3> QED  BY <3>1, <3>2
    <2>2. record' \in [Ops -> Statuses]
        BY <1>4 DEF Crash, Recovered, TypeOK, Statuses, Unfinished, Terminal
    <2>3. deferred' \in [Ops -> Statuses] /\ job' \in [Ops -> Statuses]
        BY <1>4 DEF Crash, Statuses
    <2>4. touched' \subseteq Ops
        BY <1>4, TouchType DEF Crash, TypeOK
    <2>5. Requested'  BY <1>4, KeptWork DEF Crash
    <2> QED  BY <1>4, <2>1, <2>2, <2>3, <2>4, <2>5 DEF Crash, TypeOK
<1> QED  BY <1>1, <1>2, <1>3, <1>4

LEMMA TypeStep == TypeInv /\ [Next]_vars => TypeInv'
<1> SUFFICES ASSUME TypeInv, [Next]_vars PROVE TypeInv'
    OBVIOUS
<1>1. CASE Next
    BY <1>1, PreparingType, StartingType, RunningType, EndingType, InterruptingType
    DEF Next, Working
<1>2. CASE UNCHANGED vars
    BY <1>2 DEF vars, TypeInv, TypeOK, Requested
<1> QED  BY <1>1, <1>2

\* The variables keep their types, for any servers, requests and bounds.
THEOREM TypeCorrect == Spec => []TypeOK
<1>1. TypeInv => TypeOK  BY DEF TypeInv
<1> QED  BY <1>1, InitType, TypeStep, PTL DEF Spec

-----------------------------------------------------------------------------
(***************************************************************************)
(* The books, one action at a time.                                        *)
(***************************************************************************)

\* What a transition may do to the record of its operation, and to no other.
LEMMA TransitionEffect ==
    ASSUME TypeInv, NEW op \in Ops, NEW status \in Statuses, NEW ok \in BOOLEAN,
           Transition(op, status, ok)
    PROVE  /\ \A o \in Ops : o # op => record'[o] = record[o] /\ deferred'[o] = deferred[o]
           /\ \/ /\ record[op] \in Terminal /\ ok = (record[op] = status)
                 /\ record'[op] = record[op] /\ deferred'[op] = deferred[op]
              \/ /\ record[op] \in Unfinished /\ ok
                 /\ record'[op] = status /\ deferred'[op] = "none"
              \/ /\ record[op] \in Unfinished /\ ok = (record[op] = status)
                 /\ record'[op] = record[op] /\ deferred'[op] = status
<1>1. op # NoOp  BY LifecycleAssumption
<1> QED  BY <1>1 DEF Transition, TypeInv, TypeOK, books, Fault

LEMMA NoTransition ==
    ASSUME NEW status, NEW ok, Transition(NoOp, status, ok)
    PROVE  UNCHANGED <<record, deferred>>
BY DEF Transition, books

LEMMA SetJobEffect ==
    ASSUME TypeInv, NEW op \in Ops \cup {NoOp}, NEW status, SetJob(op, status)
    PROVE  /\ \A o \in Ops : o # op => job'[o] = job[o]
           /\ op \in Ops => job'[op] = status
           /\ op = NoOp => job' = job
BY LifecycleAssumption DEF SetJob, TypeInv, TypeOK

LEMMA StatusesApart ==
    \A s : /\ s \in Terminal => s \notin Unfinished /\ s # "none"
           /\ s \in Unfinished => s # "none"
           /\ s \in Statuses => s \in Unfinished \/ s \in Terminal \/ s = "none"
BY DEF Terminal, Unfinished, Statuses

\* A program that has a record to make still has it to make after another step.
LEMMA NextRecordsFirst ==
    ASSUME TypeInv, Running, RecordsFirst(work),
           (Advance /\ ~Records(Step)) \/ Fail
    PROVE  RecordsFirst(work')
<1>1. /\ work.at \in 1..Len(work.prog) /\ Len(work.prog) \in Nat
      /\ work'.prog = work.prog
      /\ work'.at = work.at + 1 \/ (work'.at = Len(work.prog) + 1 /\ work'.err)
      /\ work'.err \/ (work'.at = work.at + 1 /\ work'.err = work.err)
    BY StepType, WorkType, NextStep DEF Running
<1>2. CASE work'.at = Len(work.prog) + 1 /\ work'.err
    BY <1>1, <1>2 DEF RecordsFirst
<1>3. CASE work'.at = work.at + 1 /\ ~Records(Step)
    <2>1. \A i \in work'.at..Len(work'.prog) : i \in work.at..Len(work.prog)
        BY <1>1, <1>3
    <2>2. \A i \in work.at..Len(work.prog) : \A k \in work.at..i :
              Records(work.prog[k]) => k \in work'.at..i
        BY <1>1, <1>3 DEF Step
    <2>3. ~work'.err => ~work.err
        BY <1>1
    <2>4. ASSUME NEW i \in work'.at..Len(work'.prog)
          PROVE  /\ work'.prog[i] \notin {"createEnv", "journal"}
                 /\ work'.prog[i] = "clear" =>
                      \E k \in work'.at..i : Records(work'.prog[k])
        BY <1>1, <2>1, <2>2, <2>4 DEF RecordsFirst
    <2>5. ~work'.err => \E k \in work'.at..Len(work'.prog) : Records(work'.prog[k])
        BY <1>1, <2>2, <2>3 DEF RecordsFirst
    <2> QED  BY <2>4, <2>5 DEF RecordsFirst
<1>4. CASE Fail /\ Records(Step)
    <2>1. work'.at = Len(work.prog) + 1 /\ work'.err
        BY <1>4, WorkType DEF Fail, Records, Mutation, Running
    <2> QED  BY <1>2, <2>1
<1> QED  BY <1>1, <1>2, <1>3, <1>4

LEMMA WorkerRecordsNothing ==
    \A p \in {CreateProgram, CloseProgram, ResetProgram} :
        \A i \in 1..Len(p) : ~Records(p[i])
BY DEF CreateProgram, CloseProgram, ResetProgram, Records

\* A step of a program, or what it does to the journal, that records nothing.
LEMMA ProgramStepBooks ==
    ASSUME TypeInv, BooksInv, Running, Advance \/ Fail, ~Records(Step),
           UNCHANGED <<pinned, record, deferred, job, prep>>,
           journal' # NoJournal => journal'.op = work.call.op,
           work.who = "repair" /\ work.call.op # NoOp => journal' # NoJournal
    PROVE  BooksInv'
<1> USE DEF BooksInv
<1>1. /\ work # NoWork /\ work' # NoWork /\ work.phase = "run"
      /\ work'.who = work.who /\ work'.call = work.call /\ work'.phase = "run"
      /\ work'.prog = work.prog
    BY NextStep DEF Running
<1>2. Owned'  BY <1>1 DEF Owned
<1>3. Fresh'  BY <1>1 DEF Fresh, Journalled
<1>4. Prepared'  BY <1>1 DEF Prepared, Journalled
<1>5. Worked'
    <2>1. work.who = "repair" /\ work.call.op # NoOp => RecordsFirst(work')
        BY <1>1, NextRecordsFirst DEF Worked
    <2> QED  BY <1>1, <2>1 DEF Worked
<1>6. Claims'
    <2>1. \A op \in Ops : journal' # NoJournal /\ journal'.op = op =>
              op # NoOp /\ op = work.call.op
        BY LifecycleAssumption
    <2>2. \A op \in Ops : Journalled(op)' /\ job[op] = "cancelled" =>
              record[op] \in Terminal \/ Journalled(op)
        <3>1. work.who \in {"worker", "caller", "repair", "settler"}
            BY <1>1, WorkType DEF Mutation
        <3> QED  BY <1>1, <2>1, <3>1 DEF Worked, Owned, Journalled
    <2> QED  BY <2>2 DEF Claims, ClaimsOf
<1>7. NoOrphan'
    <2>1. \A op \in Ops : journal # NoJournal /\ journal.op = op => work.call.op = op
        BY <1>1 DEF Owned
    <2> QED  BY <1>1, <2>1 DEF NoOrphan
<1> QED  BY <1>2, <1>3, <1>4, <1>5, <1>6, <1>7

LEMMA RunningBooks ==
    ASSUME TypeInv, BooksInv,
           \/ StepDone \/ StepRefused \/ StepFails \/ CreateEnvFails
           \/ \E ok \in BOOLEAN : WriteJournal(ok) \/ AdvanceJournal(ok) \/ ClearStep(ok)
    PROVE  BooksInv'
<1>1. /\ Running /\ (Advance \/ Fail) /\ UNCHANGED <<pinned, record, deferred, job, prep>>
      /\ Step \notin {"succeed", "cancel"}
    BY DEF StepDone, StepRefused, StepFails, CreateEnvFails, WriteJournal, AdvanceJournal,
           ClearStep, OwnSteps, gate, books
<1>2. work # NoWork /\ work.at \in work.at..Len(work.prog) /\ work.at \in Nat
    BY <1>1, StepType, WorkType DEF Running
<1>3. journal # NoJournal => journal.op = work.call.op
    BY <1>2 DEF BooksInv, Owned
<1>4. work.who = "repair" /\ work.call.op # NoOp =>
          /\ journal # NoJournal /\ Step \notin {"createEnv", "journal"}
          /\ Step = "clear" => \E k \in work.at..work.at : Records(work.prog[k])
    BY <1>2 DEF BooksInv, Worked, RecordsFirst, Step
<1>5. work.who = "repair" /\ work.call.op # NoOp => Step # "clear"
    BY <1>1, <1>2, <1>4 DEF Step, Records
<1>6. CASE UNCHANGED journal
    BY <1>1, <1>3, <1>4, <1>6, ProgramStepBooks DEF Records
<1>7. CASE journal' = NoJournal /\ Step \in {"createEnv", "clear"}
    BY <1>1, <1>4, <1>5, <1>7, ProgramStepBooks DEF Records
<1>8. ASSUME NEW ok \in BOOLEAN, WriteJournal(ok) PROVE BooksInv'
    <2>1. journal' # NoJournal => journal'.op = work.call.op
        BY <1>8 DEF WriteJournal
    <2>2. ~(work.who = "repair" /\ work.call.op # NoOp)
        BY <1>4, <1>8 DEF WriteJournal
    <2> QED  BY <1>1, <2>1, <2>2, ProgramStepBooks DEF Records
<1>9. ASSUME NEW ok \in BOOLEAN, AdvanceJournal(ok) PROVE BooksInv'
    <2>1. journal # NoJournal /\ journal \in Journal
        BY <1>9 DEF AdvanceJournal, TypeInv, TypeOK
    <2>2. [journal EXCEPT !.stage = StageOf(Step)] \in Journal
        BY <1>9, <2>1 DEF AdvanceJournal, Journal, StageOf
    <2>3. [journal EXCEPT !.stage = StageOf(Step)].op = journal.op
        BY <2>1 DEF Journal
    <2>4. journal' \in {journal, [journal EXCEPT !.stage = StageOf(Step)]}
        BY <1>9 DEF AdvanceJournal
    <2>5. journal'.op = work.call.op /\ journal' # NoJournal
        BY <1>3, <2>1, <2>2, <2>3, <2>4, LifecycleAssumption
    <2> QED  BY <1>1, <2>5, ProgramStepBooks DEF Records
<1> QED
    BY <1>6, <1>7, <1>8, <1>9
    DEF StepDone, StepRefused, StepFails, CreateEnvFails, ClearStep, Clear

LEMMA RecordRepairBooks ==
    ASSUME TypeInv, BooksInv, NEW ok \in BOOLEAN, RecordRepair(ok)
    PROVE  BooksInv'
<1> USE DEF BooksInv
<1> DEFINE op == work.call.op
           status == IF Step = "succeed" THEN "succeeded" ELSE "cancelled"
<1>1. /\ work # NoWork /\ work.phase = "run" /\ work.at \in 1..Len(work.prog)
      /\ work \in Mutation /\ op \in Ops \cup {NoOp} /\ Running /\ Records(Step)
      /\ work.who \in {"worker", "caller", "repair", "settler"} /\ work.at \in Nat \ {0}
    BY WorkType, StepType DEF RecordRepair, Running, Records, Mutation
<1>2. UNCHANGED <<journal, pinned, job, prep>> /\ Transition(op, status, ok)
      /\ status \in {"succeeded", "cancelled"}
    BY DEF RecordRepair, gate
<1>3. /\ work' # NoWork /\ work'.call = work.call /\ work'.phase = "run"
      /\ work'.prog = work.prog
      /\ IF ok THEN work'.who = "settler" ELSE work'.who = work.who /\ Fail
    <2>1. CASE ok
        <3>1. work' = [work EXCEPT !.who = "settler", !.at = work.at + 1]
            BY <2>1 DEF RecordRepair
        <3>2. work.at + 1 \in Nat \ {0}  BY <1>1
        <3>3. work' \in Mutation  BY <1>1, <3>1, <3>2 DEF Mutation
        <3> QED  BY <1>1, <2>1, <3>1, <3>3, NoWorkIsNoWork DEF Mutation
    <2>2. CASE ~ok
        <3>1. Fail  BY <2>2 DEF RecordRepair
        <3> QED  BY <1>1, <2>2, <3>1, NextStep
    <2> QED  BY <2>1, <2>2
<1>4. Owned'  BY <1>1, <1>2, <1>3 DEF Owned
<1> HIDE DEF status
<1>5. CASE op = NoOp
    <2>1. UNCHANGED <<record, deferred>>  BY <1>2, <1>5, NoTransition
    <2>2. Fresh' /\ Prepared'  BY <1>1, <1>2, <1>3, <2>1 DEF Fresh, Prepared, Journalled
    <2>3. Worked'  BY <1>3, <1>5 DEF Worked
    <2>4. Claims'  BY <1>2, <2>1 DEF Claims, ClaimsOf, Journalled
    <2>5. NoOrphan'  BY <1>1, <1>2, <1>3, <2>1 DEF NoOrphan
    <2> QED  BY <1>4, <2>2, <2>3, <2>4, <2>5
<1>6. CASE op # NoOp
    <2>1. op \in Ops /\ status \in Statuses
        BY <1>1, <1>2, <1>6 DEF Statuses, Terminal
    <2>2. work.who \in {"repair", "settler"}
        <3>1. work.who = "caller" => FALSE  BY <1>1, <1>6 DEF Owned
        <3>2. work.who = "worker" => FALSE
            BY <1>1, <1>6, WorkerRecordsNothing DEF Worked, Step
        <3> QED  BY <1>1, <3>1, <3>2
    <2> HIDE DEF op
    <2>3. /\ \A o \in Ops : o # op => record'[o] = record[o] /\ deferred'[o] = deferred[o]
          /\ \/ /\ record[op] \in Terminal /\ ok = (record[op] = status)
                /\ record'[op] = record[op] /\ deferred'[op] = deferred[op]
             \/ /\ record[op] \in Unfinished /\ ok
                /\ record'[op] = status /\ deferred'[op] = "none"
             \/ /\ record[op] \in Unfinished /\ ok = (record[op] = status)
                /\ record'[op] = record[op] /\ deferred'[op] = status
        BY <1>2, <2>1, TransitionEffect
    <2>4. Fresh'
        BY <1>1, <1>2, <1>3, <2>1, <2>3, StatusesApart DEF Fresh, Journalled, op, Terminal
    <2>5. Prepared'
        <3>1. ASSUME prep # NoWork, prep.call.op # NoOp
              PROVE  /\ prep.call.op \in Ops /\ prep.call.op # op
                     /\ record'[prep.call.op] = record[prep.call.op]
                     /\ deferred'[prep.call.op] = deferred[prep.call.op]
            BY <1>1, <2>3, <3>1, PrepType DEF Prepared, op
        <3> QED  BY <1>1, <1>2, <1>3, <3>1 DEF Prepared, Journalled
    <2>6. Worked'
        <3>1. ok => record'[op] \in Terminal
            BY <1>2, <2>3 DEF Terminal, Unfinished
        <3>2. work.who = "repair" => RecordsFirst(work) /\ journal # NoJournal
            BY <1>1, <1>6 DEF Worked, op
        <3>3. ~ok /\ work.who = "repair" => RecordsFirst(work')
            BY <1>1, <1>3, <3>2, NextRecordsFirst
        <3>4. ~ok /\ work.who = "settler" => record'[op] \in Terminal
            BY <1>1, <1>6, <2>3, StatusesApart DEF Worked, op
        <3> QED  BY <1>1, <1>2, <1>3, <2>2, <3>1, <3>2, <3>3, <3>4 DEF Worked, op
    <2>7. Claims'
        <3>1. ASSUME NEW o \in Ops, o # op
              PROVE  /\ record'[o] = record[o] /\ deferred'[o] = deferred[o]
                     /\ job'[o] = job[o] /\ pinned' = pinned
                     /\ Journalled(o)' = Journalled(o)
            BY <1>2, <2>3, <3>1 DEF Journalled
        <3>2. record[op] \in Terminal \/ Journalled(op)
            BY <1>1, <1>6, <2>2 DEF Worked, Owned, Journalled, op
        <3>3. job[op] = "succeeded" => record'[op] = "succeeded"
            BY <2>1, <2>3, StatusesApart DEF Claims, ClaimsOf, Terminal
        <3>4. job[op] = "recovery_required" =>
                /\ record'[op] \in {"recovery_required", "succeeded", "cancelled"}
                /\ deferred'[op] \in {"none", "recovery_required", "succeeded", "cancelled"}
            BY <1>2, <2>1, <2>3 DEF Claims, ClaimsOf
        <3>5. job[op] = "cancelled" => pinned \/ record'[op] \in Terminal
            BY <2>1, <2>3, <3>2, StatusesApart DEF Claims, ClaimsOf
        <3> QED  BY <1>2, <3>1, <3>3, <3>4, <3>5 DEF Claims, ClaimsOf
    <2>8. NoOrphan'
        BY <1>1, <1>2, <1>3, <2>1, <2>3 DEF NoOrphan, op
    <2> QED  BY <1>4, <2>4, <2>5, <2>6, <2>7, <2>8
<1> QED  BY <1>5, <1>6

\* What the books say of the operation of a preparation.
LEMMA PreparedOp ==
    ASSUME TypeInv, BooksInv, prep # NoWork
    PROVE  /\ prep \in Preparation /\ prep.call.op \in Ops \cup {NoOp}
           /\ prep.phase = "record" => prep.call.op \in Ops
           /\ prep.call.op \in Ops =>
                /\ prep.call.op # NoOp
                /\ record[prep.call.op] =
                     IF prep.phase = "record" THEN "none" ELSE "pending"
                /\ deferred[prep.call.op] = "none"
                /\ job[prep.call.op] \in IF prep.phase = "promote"
                                           THEN {"pending", "cancelled"} ELSE {"none"}
                /\ work # NoWork => work.call.op # prep.call.op
                /\ ~Journalled(prep.call.op)
BY PrepType, LifecycleAssumption DEF BooksInv, Prepared

LEMMA PrepareBooks ==
    ASSUME TypeInv, BooksInv, NEW c \in Calls, Prepare(c)
    PROVE  BooksInv'
<1> USE DEF BooksInv
<1>1. /\ prep = NoWork /\ prep' # NoWork /\ prep'.call = c
      /\ prep'.phase = IF c.op = NoOp THEN "job" ELSE "record"
      /\ c.op \in Ops \cup {NoOp}
    <2>1. prep' \in Preparation  BY DEF Prepare, Preparation
    <2>2. prep' # NoWork  BY <2>1, NoWorkIsNoWork
    <2>3. c.op \in Ops \cup {NoOp}  BY CallType
    <2> QED  BY <2>2, <2>3 DEF Prepare
<1>2. c.op # NoOp => record[c.op] = "none"  BY DEF Prepare
<1>3. UNCHANGED <<journal, latched, pinned, record, deferred, job, work>>
    BY DEF Prepare, gate, books
<1>4. Owned' /\ Fresh' /\ Worked' /\ Claims'
    BY <1>3 DEF Owned, Fresh, Worked, Settled, Claims, ClaimsOf, Journalled
<1>5. Prepared'  BY <1>1, <1>2, <1>3 DEF Prepared, Fresh, Journalled
<1>6. NoOrphan'  BY <1>1, <1>3 DEF NoOrphan
<1> QED  BY <1>4, <1>5, <1>6

LEMMA ReserveRecordBooks ==
    ASSUME TypeInv, BooksInv, NEW ok \in BOOLEAN, ReserveRecord(ok)
    PROVE  BooksInv'
<1> USE DEF BooksInv
<1> DEFINE op == prep.call.op
<1>1. /\ prep # NoWork /\ prep.phase = "record" /\ op \in Ops /\ prep \in Preparation
      /\ record[op] = "none" /\ deferred[op] = "none" /\ job[op] = "none"
      /\ work # NoWork => work.call.op # op
      /\ ~Journalled(op)
    <2>1. prep # NoWork /\ prep.phase = "record"  BY DEF ReserveRecord
    <2> QED  BY <2>1, PreparedOp
<1>2. UNCHANGED <<journal, pinned, deferred, job, work>>  BY DEF ReserveRecord, gate
<1>3. IF ok THEN /\ prep' # NoWork /\ prep'.call = prep.call /\ prep'.phase = "job"
                 /\ record' = [record EXCEPT ![op] = "pending"]
            ELSE prep' = NoWork /\ record' = record
    <2>1. CASE ok
        <3>1. prep' = [prep EXCEPT !.phase = "job"]  BY <2>1 DEF ReserveRecord
        <3>2. prep' \in Preparation  BY <1>1, <3>1 DEF Preparation
        <3> QED  BY <1>1, <2>1, <3>1, <3>2, NoWorkIsNoWork DEF ReserveRecord, Preparation
    <2>2. CASE ~ok  BY <2>2 DEF ReserveRecord
    <2> QED  BY <2>1, <2>2
<1>4. /\ \A o \in Ops : o # op => record'[o] = record[o]
      /\ record'[op] = IF ok THEN "pending" ELSE "none"
    BY <1>1, <1>3 DEF TypeInv, TypeOK
<1> HIDE DEF op
<1>5. Owned' /\ Fresh'  BY <1>1, <1>2, <1>4 DEF Owned, Fresh, Journalled
<1>6. Prepared'
    BY <1>1, <1>2, <1>3, <1>4, LifecycleAssumption DEF Prepared, Journalled, op
<1>7. Worked'
    <2>1. work # NoWork /\ work.call.op # NoOp =>
              work.call.op \in Ops /\ record'[work.call.op] = record[work.call.op]
        BY <1>1, <1>4, WorkType
    <2> QED  BY <1>2, <2>1 DEF Worked, Settled
<1>8. Claims'  BY <1>1, <1>2, <1>4 DEF Claims, ClaimsOf, Journalled
<1>9. NoOrphan'  BY <1>1, <1>2, <1>3, <1>4 DEF NoOrphan, op, Unfinished
<1> QED  BY <1>5, <1>6, <1>7, <1>8, <1>9

LEMMA ReserveJobBooks ==
    ASSUME TypeInv, BooksInv, ReserveJob
    PROVE  BooksInv'
<1> USE DEF BooksInv
<1> DEFINE op == prep.call.op
<1>1. /\ prep # NoWork /\ prep.phase = "job" /\ op \in Ops \cup {NoOp}
      /\ prep \in Preparation
      /\ op \in Ops => /\ record[op] = "pending" /\ deferred[op] = "none"
                       /\ work # NoWork => work.call.op # op
                       /\ ~Journalled(op)
    <2>1. prep # NoWork /\ prep.phase = "job"  BY DEF ReserveJob
    <2> QED  BY <2>1, PreparedOp
<1>2. UNCHANGED <<journal, pinned, record, deferred, work>>
    BY DEF ReserveJob, gate, books
<1>3. prep' # NoWork /\ prep'.call = prep.call /\ prep'.phase = "promote"
    <2>1. prep' = [prep EXCEPT !.phase = "promote"]  BY DEF ReserveJob
    <2>2. prep' \in Preparation  BY <1>1, <2>1 DEF Preparation
    <2> QED  BY <1>1, <2>1, <2>2, NoWorkIsNoWork DEF Preparation
<1>4. /\ \A o \in Ops : o # op => job'[o] = job[o]
      /\ op \in Ops => job'[op] = "pending"
    BY <1>1, SetJobEffect DEF ReserveJob
<1> HIDE DEF op
<1>5. Owned' /\ Fresh'  BY <1>1, <1>2, <1>4 DEF Owned, Fresh, Journalled
<1>6. Prepared'
    BY <1>1, <1>2, <1>3, <1>4, LifecycleAssumption DEF Prepared, Journalled, op
<1>7. Worked'
    <2>1. work # NoWork /\ work.call.op # NoOp => job'[work.call.op] = job[work.call.op]
        BY <1>1, <1>4, WorkType
    <2> QED  BY <1>2, <2>1 DEF Worked, Settled
<1>8. Claims'  BY <1>1, <1>2, <1>4 DEF Claims, ClaimsOf, Journalled
<1>9. NoOrphan'  BY <1>1, <1>2, <1>3 DEF NoOrphan
<1> QED  BY <1>5, <1>6, <1>7, <1>8, <1>9

LEMMA PromoteBooks ==
    ASSUME TypeInv, BooksInv, Promote
    PROVE  BooksInv'
<1> USE DEF BooksInv
<1> DEFINE op == prep.call.op
<1>1. /\ prep # NoWork /\ prep.phase = "promote" /\ op \in Ops \cup {NoOp}
      /\ prep \in Preparation
      /\ op \in Ops => /\ record[op] = "pending" /\ deferred[op] = "none"
                       /\ ~Journalled(op)
    <2>1. prep # NoWork /\ prep.phase = "promote"  BY DEF Promote
    <2> QED  BY <2>1, PreparedOp
<1>2. work = NoWork /\ journal = NoJournal  BY DEF Promote, JournalCloses
<1>3. UNCHANGED <<journal, pinned, record, deferred>> /\ prep' = NoWork
    BY DEF Promote, gate, books
<1>4. /\ work'.call = prep.call /\ work'.phase = "start" /\ work'.who = "worker"
      /\ work'.call.op = op
    BY DEF Promote
<1>5. /\ \A o \in Ops : o # op => job'[o] = job[o]
      /\ op \in Ops => job'[op] = "running"
    BY <1>1, SetJobEffect DEF Promote
<1>6. \A o \in Ops : o # op => job[o] # "pending"  BY <1>1 DEF Prepared
<1> HIDE DEF op
<1>7. Owned'  BY <1>2, <1>3, <1>4 DEF Owned
<1>8. Fresh'
    BY <1>1, <1>3, <1>4, <1>5 DEF Fresh, Journalled
<1>9. Prepared'  BY <1>1, <1>3, <1>5, <1>6 DEF Prepared
<1>10. Worked'  BY <1>1, <1>3, <1>4, <1>5 DEF Worked
<1>11. Claims'  BY <1>1, <1>3, <1>5 DEF Claims, ClaimsOf, Journalled
<1>12. NoOrphan'
    <2>1. work' # NoWork
        <3>1. work' = [who |-> "worker", call |-> prep.call, phase |-> "start",
                       prog |-> <<>>, at |-> 1, cancelled |-> FALSE, err |-> FALSE,
                       result |-> "none"]
            BY DEF Promote
        <3>2. <<>> \in Seq(Steps)  OBVIOUS
        <3>3. work' \in Mutation
            BY <1>1, <3>1, <3>2 DEF Mutation, Preparation, Statuses
        <3> QED  BY <3>3, NoWorkIsNoWork
    <2> QED  BY <1>1, <1>2, <1>3, <1>4, <2>1 DEF NoOrphan, op
<1> QED  BY <1>7, <1>8, <1>9, <1>10, <1>11, <1>12

\* A preparation given up leaves its operation settled, or admission closed.
LEMMA GiveUpBooks ==
    ASSUME TypeInv, BooksInv, prep # NoWork, prep.phase # "record", prep' = NoWork,
           UNCHANGED <<journal, work>>, pinned => pinned',
           \A o \in Ops : o # prep.call.op =>
               record'[o] = record[o] /\ deferred'[o] = deferred[o] /\ job'[o] = job[o],
           prep.call.op \in Ops =>
               /\ job'[prep.call.op] \in {"none", "cancelled"}
               /\ record'[prep.call.op] # "none"
               /\ record'[prep.call.op] \in Terminal \/ pinned'
    PROVE  BooksInv'
<1> USE DEF BooksInv
<1> DEFINE op == prep.call.op
<1>1. /\ op \in Ops \cup {NoOp}
      /\ op \in Ops => (work # NoWork => work.call.op # op) /\ ~Journalled(op)
    BY PreparedOp
<1>2. work # NoWork => work.call.op \in Ops \cup {NoOp}  BY WorkType
<1>3. \A o \in Ops : o # op =>
          record'[o] = record[o] /\ deferred'[o] = deferred[o] /\ job'[o] = job[o]
    OBVIOUS
<1>4. op \in Ops => /\ job'[op] \in {"none", "cancelled"} /\ record'[op] # "none"
                    /\ record'[op] \in Terminal \/ pinned'
    OBVIOUS
<1>5. \A o \in Ops : o # op => job[o] # "pending"  BY DEF Prepared
<1>6. prep # NoWork /\ prep.call.op = op  OBVIOUS
<1> HIDE DEF op
<1>7. Owned' /\ Fresh'  BY <1>1, <1>3, <1>4 DEF Owned, Fresh, Journalled
<1>8. Prepared'  BY <1>3, <1>4, <1>5 DEF Prepared
<1>9. Worked'
    <2>1. ASSUME work # NoWork, work.call.op # NoOp
          PROVE  LET o == work.call.op
                 IN record'[o] = record[o] /\ deferred'[o] = deferred[o] /\ job'[o] = job[o]
        BY <1>1, <1>2, <1>3, <2>1
    <2> QED  BY <2>1 DEF Worked, Settled
<1>10. Claims'  BY <1>1, <1>3, <1>4 DEF Claims, ClaimsOf, Journalled
<1>11. NoOrphan'  BY <1>1, <1>3, <1>4, <1>6, StatusesApart DEF NoOrphan
<1> QED  BY <1>7, <1>8, <1>9, <1>10, <1>11

LEMMA RejectBooks ==
    ASSUME TypeInv, BooksInv, NEW ok \in BOOLEAN, Reject(ok)
    PROVE  BooksInv'
<1> DEFINE op == prep.call.op
<1>1. /\ prep # NoWork /\ prep.phase = "job" /\ op \in Ops \cup {NoOp}
      /\ op \in Ops => record[op] = "pending" /\ job[op] = "none"
    <2>1. prep # NoWork /\ prep.phase = "job"  BY DEF Reject
    <2> QED  BY <2>1, PreparedOp
<1>2. /\ Transition(op, "failed", ok) /\ prep' = NoWork /\ pinned' = (pinned \/ ~ok)
      /\ UNCHANGED <<journal, job, work>>
    BY DEF Reject
<1> HIDE DEF op
<1>3. CASE op = NoOp
    <2>1. UNCHANGED <<record, deferred>> /\ op \notin Ops
        BY <1>2, <1>3, NoTransition, LifecycleAssumption
    <2> QED  BY <1>1, <1>2, <2>1, GiveUpBooks DEF op
<1>4. CASE op \in Ops
    <2>1. /\ \A o \in Ops : o # op => record'[o] = record[o] /\ deferred'[o] = deferred[o]
          /\ record'[op] # "none" /\ (record'[op] = "failed" \/ ~ok)
        BY <1>1, <1>2, <1>4, TransitionEffect DEF Statuses, Terminal, Unfinished
    <2> QED  BY <1>1, <1>2, <1>4, <2>1, GiveUpBooks DEF op, Terminal
<1> QED  BY <1>1, <1>3, <1>4

LEMMA PromoteRefusedBooks ==
    ASSUME TypeInv, BooksInv, NEW ok \in BOOLEAN, PromoteRefused(ok)
    PROVE  BooksInv'
<1> DEFINE op == prep.call.op
<1>1. /\ prep # NoWork /\ prep.phase = "promote" /\ op \in Ops \cup {NoOp}
      /\ op \in Ops => record[op] = "pending" /\ op # NoOp
    <2>1. prep # NoWork /\ prep.phase = "promote"  BY DEF PromoteRefused
    <2> QED  BY <2>1, PreparedOp
<1>2. /\ prep' = NoWork /\ pinned' = (pinned \/ ~ok) /\ UNCHANGED <<journal, work>>
      /\ \E status \in {"cancelled", "none"} : SetJob(op, status)
      /\ \/ Transition(op, "cancelled", ok)
         \/ /\ ~ok /\ op # NoOp
            /\ record' = [record EXCEPT ![op] = "failed"]
            /\ deferred' = [deferred EXCEPT ![op] = "none"]
    BY DEF PromoteRefused
<1> HIDE DEF op
<1>3. /\ \A o \in Ops : o # op => job'[o] = job[o]
      /\ op \in Ops => job'[op] \in {"cancelled", "none"}
    BY <1>1, <1>2, SetJobEffect
<1>4. CASE op = NoOp
    <2>1. UNCHANGED <<record, deferred>> /\ op \notin Ops
        BY <1>2, <1>4, NoTransition, LifecycleAssumption
    <2> QED  BY <1>1, <1>2, <1>3, <2>1, GiveUpBooks DEF op
<1>5. CASE op \in Ops
    <2>1. /\ \A o \in Ops : o # op => record'[o] = record[o] /\ deferred'[o] = deferred[o]
          /\ record'[op] # "none" /\ (record'[op] \in {"cancelled", "failed"} \/ ~ok)
        <3>1. CASE Transition(op, "cancelled", ok)
            BY <1>1, <1>5, <3>1, TransitionEffect DEF Statuses, Terminal, Unfinished
        <3>2. CASE ~Transition(op, "cancelled", ok)
            BY <1>2, <1>5, <3>2 DEF TypeInv, TypeOK
        <3> QED  BY <3>1, <3>2
    <2> QED  BY <1>1, <1>2, <1>3, <1>5, <2>1, GiveUpBooks DEF op, Terminal
<1> QED  BY <1>1, <1>4, <1>5

\* A piece of work that ends leaves its operation settled, journalled for a
\* repair, or admission closed.
LEMMA EndWorkBooks ==
    ASSUME TypeInv, BooksInv, work # NoWork, work' = NoWork,
           UNCHANGED <<journal, prep>>, pinned => pinned',
           NEW op, op = work.call.op,
           \A o \in Ops : o # op =>
               record'[o] = record[o] /\ deferred'[o] = deferred[o] /\ job'[o] = job[o],
           op \in Ops =>
               /\ job'[op] # "pending" /\ record'[op] # "none" /\ ClaimsOf(op)'
               /\ record'[op] \in Terminal \/ Journalled(op) \/ pinned'
    PROVE  BooksInv'
<1> USE DEF BooksInv
<1>1. op \in Ops \cup {NoOp} /\ op = work.call.op /\ work # NoWork
    BY WorkType
<1>2. \A o \in Ops : o # op =>
          record'[o] = record[o] /\ deferred'[o] = deferred[o] /\ job'[o] = job[o]
    OBVIOUS
<1>3. op \in Ops => /\ job'[op] # "pending" /\ record'[op] # "none" /\ ClaimsOf(op)'
                    /\ record'[op] \in Terminal \/ Journalled(op) \/ pinned'
    OBVIOUS
<1>4. Owned' /\ Worked'  BY DEF Owned, Worked
<1>5. Fresh'  BY <1>1, <1>2, <1>3 DEF Fresh, Journalled
<1>6. Prepared'
    <2>1. ASSUME prep # NoWork, prep.call.op # NoOp
          PROVE  LET o == prep.call.op
                 IN /\ o \in Ops /\ o # op /\ record'[o] = record[o]
                    /\ deferred'[o] = deferred[o] /\ job'[o] = job[o]
        BY <1>1, <1>2, <2>1, PrepType DEF Prepared
    <2>2. \A o \in Ops : job'[o] = "pending" => job[o] = "pending"
        BY <1>2, <1>3
    <2> QED  BY <2>1, <2>2 DEF Prepared, Journalled
<1>7. Claims'
    <2>1. ASSUME NEW o \in Ops, o # op PROVE ClaimsOf(o)'
        BY <1>2, <2>1 DEF Claims, ClaimsOf, Journalled
    <2>2. op \in Ops => ClaimsOf(op)'  BY <1>3
    <2>3. \A o \in Ops : ClaimsOf(o)'  BY <2>1, <2>2
    <2> QED  BY <2>3 DEF Claims
<1>8. NoOrphan'  BY <1>1, <1>2, <1>3, StatusesApart DEF NoOrphan, Journalled
<1> QED  BY <1>4, <1>5, <1>6, <1>7, <1>8

\* What the books say of the operation being worked on.
LEMMA WorkedOp ==
    ASSUME TypeInv, BooksInv, work # NoWork
    PROVE  /\ work \in Mutation /\ work.call \in Calls
           /\ work.call.op \in Ops \cup {NoOp}
           /\ work.call.op \in Ops => work.call.op # NoOp /\ record[work.call.op] # "none"
           /\ journal # NoJournal => journal.op = work.call.op
BY WorkType, LifecycleAssumption DEF BooksInv, Owned, Fresh

LEMMA RejectStartedBooks ==
    ASSUME TypeInv, BooksInv, NEW ok \in BOOLEAN, RejectStarted(ok)
    PROVE  BooksInv'
<1> PICK op : op = work.call.op
    OBVIOUS
<1>1. /\ work # NoWork /\ work.phase = "reject" /\ op \in Ops \cup {NoOp}
      /\ op \in Ops => record[op] \in {"pending", "running"} /\ job[op] # "pending"
                       /\ ClaimsOf(op)
    <2>1. work # NoWork /\ work.phase = "reject"  BY DEF RejectStarted
    <2> QED  BY <2>1, WorkedOp DEF BooksInv, Worked, Prepared, Claims
<1>2. /\ Transition(op, "failed", ok) /\ work' = NoWork /\ pinned' = (pinned \/ ~ok)
      /\ UNCHANGED <<journal, job, prep>>
    BY DEF RejectStarted
<1>3. CASE op = NoOp
    <2>1. UNCHANGED <<record, deferred>> /\ op \notin Ops
        BY <1>2, <1>3, NoTransition, LifecycleAssumption
    <2> QED  BY <1>1, <1>2, <2>1, EndWorkBooks
<1>4. CASE op \in Ops
    <2>1. /\ \A o \in Ops : o # op => record'[o] = record[o] /\ deferred'[o] = deferred[o]
          /\ record'[op] # "none" /\ (record'[op] = "failed" \/ ~ok)
        BY <1>1, <1>2, <1>4, TransitionEffect DEF Statuses, Terminal, Unfinished
    <2>2. ClaimsOf(op)'
        BY <1>1, <1>2, <1>4, <2>1 DEF ClaimsOf, Terminal
    <2> QED  BY <1>1, <1>2, <1>4, <2>1, <2>2, EndWorkBooks DEF Terminal
<1> QED  BY <1>1, <1>3, <1>4

LEMMA FinishJobBooks ==
    ASSUME TypeInv, BooksInv, FinishJob
    PROVE  BooksInv'
<1> PICK op : op = work.call.op
    OBVIOUS
<1> DEFINE status == FinishedJob(work.result, work.cancelled)
<1>1. /\ work # NoWork /\ work.phase = "finish" /\ op \in Ops \cup {NoOp}
      /\ op \in Ops => Settled(work.result, op) /\ record[op] # "none"
      /\ journal # NoJournal => journal.op = op
    <2>1. work # NoWork /\ work.phase = "finish"  BY DEF FinishJob
    <2> QED  BY <2>1, WorkedOp DEF BooksInv, Worked
<1>2. /\ SetJob(op, status) /\ work' = NoWork
      /\ UNCHANGED <<journal, pinned, record, deferred, prep>>
    BY DEF FinishJob, gate, books
<1>3. /\ work.result = "recovery_required" => status = "recovery_required"
      /\ status \in {work.result, "cancelled"}
    BY DEF FinishedJob
<1> HIDE DEF status
<1>4. /\ \A o \in Ops : o # op => job'[o] = job[o]
      /\ op \in Ops => job'[op] = status
    BY <1>1, <1>2, SetJobEffect
<1>5. ASSUME op \in Ops
      PROVE  /\ job'[op] # "pending" /\ ClaimsOf(op)'
             /\ record'[op] \in Terminal \/ Journalled(op) \/ pinned'
    BY <1>1, <1>2, <1>3, <1>4, <1>5 DEF Settled, ClaimsOf, Journalled, Terminal
<1> QED  BY <1>1, <1>2, <1>4, <1>5, EndWorkBooks

LEMMA ReturnBooks ==
    ASSUME TypeInv, BooksInv, Return
    PROVE  BooksInv'
<1> PICK op : op = work.call.op
    OBVIOUS
<1>1. /\ work # NoWork /\ work.phase = "run" /\ op \in Ops \cup {NoOp}
      /\ work.at > Len(work.prog) /\ work.at \in Nat /\ Len(work.prog) \in Nat
    BY WorkedOp, WorkType DEF Return, Ended
<1>2. work' = NoWork /\ UNCHANGED <<journal, pinned, record, deferred, job, prep>>
    BY DEF Return, gate, books
<1>3. ASSUME op \in Ops
      PROVE  /\ record[op] \in Terminal /\ record[op] # "none" /\ job[op] # "pending"
             /\ ClaimsOf(op)
    <2>1. op # NoOp /\ record[op] # "none" /\ job[op] # "pending" /\ ClaimsOf(op)
        BY <1>1, <1>3, WorkedOp DEF BooksInv, Prepared, Claims
    <2>2. work.who = "caller" => FALSE  BY <1>1, <2>1 DEF BooksInv, Owned
    <2>3. work.who = "repair" => work.err
        BY <1>1, <2>1 DEF BooksInv, Worked, RecordsFirst
    <2>4. work.who = "settler"  BY <2>1, <2>2, <2>3 DEF Return
    <2> QED  BY <1>1, <2>1, <2>4 DEF BooksInv, Worked
<1>4. op \in Ops => ClaimsOf(op)'
    BY <1>2, <1>3 DEF ClaimsOf, Journalled
<1> QED  BY <1>1, <1>2, <1>3, <1>4, EndWorkBooks

LEMMA RepairFailsBooks ==
    ASSUME TypeInv, BooksInv, NEW ok \in BOOLEAN, RepairFails(ok)
    PROVE  BooksInv'
<1> PICK op : op = work.call.op
    OBVIOUS
<1>1. /\ work # NoWork /\ op \in Ops /\ op # NoOp /\ record[op] # "none"
      /\ Journalled(op) /\ job[op] # "pending" /\ ClaimsOf(op)
    <2>1. work # NoWork /\ work.who = "repair" /\ op # NoOp
        BY DEF RepairFails, Ended
    <2>2. op \in Ops /\ record[op] # "none" /\ journal # NoJournal /\ journal.op = op
        BY <2>1, WorkedOp DEF BooksInv, Worked
    <2> QED  BY <2>1, <2>2 DEF BooksInv, Prepared, Claims, Journalled
<1>2. /\ Transition(op, "recovery_required", ok) /\ work' = NoWork
      /\ UNCHANGED <<journal, pinned, job, prep>>
    BY DEF RepairFails, gate
<1>3. /\ \A o \in Ops : o # op => record'[o] = record[o] /\ deferred'[o] = deferred[o]
      /\ record'[op] # "none" /\ ClaimsOf(op)'
    <2>1. "recovery_required" \in Statuses  BY DEF Statuses, Unfinished
    <2>2. /\ \A o \in Ops : o # op => record'[o] = record[o] /\ deferred'[o] = deferred[o]
          /\ \/ /\ record[op] \in Terminal
                /\ record'[op] = record[op] /\ deferred'[op] = deferred[op]
             \/ /\ record[op] \in Unfinished
                /\ record'[op] = "recovery_required" /\ deferred'[op] = "none"
             \/ /\ record[op] \in Unfinished
                /\ record'[op] = record[op] /\ deferred'[op] = "recovery_required"
        BY <1>1, <1>2, <2>1, TransitionEffect
    <2>3. record'[op] # "none"  BY <1>1, <2>2
    <2>4. ClaimsOf(op)'
        BY <1>1, <1>2, <2>2 DEF ClaimsOf, Terminal, Unfinished
    <2> QED  BY <2>2, <2>3, <2>4
<1> QED  BY <1>1, <1>2, <1>3, EndWorkBooks

LEMMA BeginBooks ==
    ASSUME TypeInv, BooksInv, NEW c \in Calls, Begin(c)
    PROVE  BooksInv'
<1> USE DEF BooksInv
<1>1. /\ work = NoWork /\ prep = NoWork /\ journal = NoJournal
      /\ UNCHANGED <<journal, pinned, record, deferred, job, prep>>
    BY DEF Begin, JournalCloses, gate, books
<1>2. c.op = NoOp  BY CallType DEF Begin, LinkedKinds
<1>3. work'.who = "caller" /\ work'.phase = "run" /\ work'.call.op = NoOp
    BY <1>2 DEF Begin
<1>4. Owned' /\ Worked'  BY <1>1, <1>3 DEF Owned, Worked
<1>5. Fresh' /\ Prepared'
    BY <1>1, <1>3, LifecycleAssumption DEF Fresh, Prepared, Journalled
<1>6. Claims' /\ NoOrphan'  BY <1>1 DEF Claims, ClaimsOf, Journalled, NoOrphan
<1> QED  BY <1>4, <1>5, <1>6

LEMMA StartBooks ==
    ASSUME TypeInv, BooksInv, NEW ok \in BOOLEAN, Start(ok)
    PROVE  BooksInv'
<1> USE DEF BooksInv
<1> PICK op : op = work.call.op
    OBVIOUS
<1> DEFINE stale == Stale(work.call)
<1>1. /\ work # NoWork /\ work \in Mutation /\ work.phase = "start"
      /\ work.who = "worker" /\ work.call \in Calls /\ op \in Ops \cup {NoOp}
      /\ journal = NoJournal
      /\ op \in Ops => op # NoOp /\ record[op] = "pending" /\ deferred[op] = "none"
                       /\ job[op] = "running"
    <2>1. work # NoWork /\ work.phase = "start"  BY DEF Start
    <2> QED  BY <2>1, WorkedOp DEF Owned, Worked
<1>2. UNCHANGED <<journal, pinned, prep>>  BY DEF Start, gate
<1>3. /\ \A o \in Ops : o # op =>
            record'[o] = record[o] /\ deferred'[o] = deferred[o] /\ job'[o] = job[o]
      /\ op \in Ops /\ ok /\ ~stale =>
            record'[op] = "running" /\ deferred'[op] = "none" /\ job'[op] = "running"
      /\ op \in Ops /\ ~(ok /\ ~stale) =>
            /\ record'[op] = "pending" /\ deferred'[op] \in {"none", "running"}
            /\ job'[op] \in {"none", "failed", "cancelled"}
    <2>1. CASE stale
        <3>1. SetJob(op, "none") /\ UNCHANGED <<record, deferred>>
            BY <2>1 DEF Start, books
        <3> QED  BY <1>1, <2>1, <3>1, SetJobEffect
    <2>2. CASE ~stale
        <3>1. Transition(op, "running", ok)
              /\ IF ok THEN job' = job ELSE SetJob(op, FinishedJob("failed", work.cancelled))
            BY <2>2 DEF Start
        <3>2. CASE op = NoOp
            <4>1. UNCHANGED <<record, deferred>> /\ op \notin Ops
                BY <3>1, <3>2, NoTransition, LifecycleAssumption
            <4>2. \A o \in Ops : o # op => job'[o] = job[o]
                BY <1>1, <3>1, SetJobEffect
            <4> QED  BY <3>2, <4>1, <4>2
        <3>3. CASE op \in Ops
            <4>1. /\ \A o \in Ops : o # op =>
                        record'[o] = record[o] /\ deferred'[o] = deferred[o]
                  /\ IF ok THEN record'[op] = "running" /\ deferred'[op] = "none"
                           ELSE record'[op] = "pending" /\ deferred'[op] = "running"
                BY <1>1, <3>1, <3>3, TransitionEffect DEF Statuses, Terminal, Unfinished
            <4>2. /\ \A o \in Ops : o # op => job'[o] = job[o]
                  /\ IF ok THEN job'[op] = "running" ELSE job'[op] \in {"failed", "cancelled"}
                BY <1>1, <3>1, <3>3, SetJobEffect DEF FinishedJob
            <4> QED  BY <2>2, <4>1, <4>2
        <3> QED  BY <1>1, <3>2, <3>3
    <2> QED  BY <2>1, <2>2
<1>4. /\ work' # NoWork /\ work'.call = work.call /\ work'.who = "worker"
      /\ IF ok /\ ~stale
           THEN work'.phase = "run" /\ work'.prog = Program(work.call.kind, work.call.target)
           ELSE work'.phase = "reject"
    <2>1. work' = IF ok /\ ~stale
                    THEN [work EXCEPT !.phase = "run",
                            !.prog = Program(work.call.kind, work.call.target)]
                    ELSE [work EXCEPT !.phase = "reject"]
        BY DEF Start
    <2>2. work' # NoWork
        <3>1. work.call.kind \in Kinds  BY <1>1, CallType
        <3>2. Program(work.call.kind, work.call.target) \in Seq(Steps)
            BY <3>1, ProgramType
        <3>3. work' \in Mutation  BY <1>1, <2>1, <3>2 DEF Mutation
        <3> QED  BY <3>3, NoWorkIsNoWork
    <2> QED  BY <1>1, <2>1, <2>2 DEF Mutation
<1> HIDE DEF stale
<1>5. Owned'  BY <1>1, <1>2, <1>4 DEF Owned
<1>6. Fresh'  BY <1>1, <1>2, <1>3, <1>4 DEF Fresh, Journalled
<1>7. Prepared'
    <2>1. ASSUME prep # NoWork, prep.call.op # NoOp
          PROVE  LET o == prep.call.op
                 IN /\ o \in Ops /\ o # op /\ record'[o] = record[o]
                    /\ deferred'[o] = deferred[o] /\ job'[o] = job[o]
        BY <1>1, <1>3, <2>1, PrepType DEF Prepared
    <2>2. \A o \in Ops : job'[o] = "pending" => job[o] = "pending"
        BY <1>3
    <2> QED  BY <1>2, <1>4, <2>1, <2>2 DEF Prepared, Journalled
<1>8. Worked'
    <2>1. op \in Ops => Program(work.call.kind, work.call.target)
                          \in {CreateProgram, CloseProgram, ResetProgram}
        BY <1>1, CallType DEF Program, LinkedKinds
    <2> QED  BY <1>1, <1>3, <1>4, <2>1 DEF Worked
<1>9. Claims'
    <2>1. ASSUME NEW o \in Ops, o # op PROVE ClaimsOf(o)'
        BY <1>2, <1>3, <2>1 DEF Claims, ClaimsOf, Journalled
    <2>2. op \in Ops => ClaimsOf(op)'
        BY <1>1, <1>2, <1>3 DEF ClaimsOf, Journalled
    <2>3. \A o \in Ops : ClaimsOf(o)'  BY <2>1, <2>2
    <2> QED  BY <2>3 DEF Claims
<1>10. NoOrphan'  BY <1>1, <1>2, <1>3, <1>4 DEF NoOrphan
<1> QED  BY <1>5, <1>6, <1>7, <1>8, <1>9, <1>10

LEMMA BeginRepairBooks ==
    ASSUME TypeInv, BooksInv, BeginRepair
    PROVE  BooksInv'
<1> USE DEF BooksInv
<1>1. /\ work = NoWork /\ prep = NoWork /\ journal # NoJournal
      /\ UNCHANGED <<journal, pinned, record, deferred, job, prep>>
    BY DEF BeginRepair, gate, books
<1>2. /\ work'.call.op = journal.op /\ work'.phase = "run" /\ work'.at = 1
      /\ work'.prog = RepairProgram /\ ~work'.err
      /\ work'.who = IF journal.op # NoOp /\ record[journal.op] = "succeeded"
                       THEN "settler" ELSE "repair"
    BY DEF BeginRepair
<1>3. Owned'  BY <1>1, <1>2 DEF Owned
<1>4. Fresh' /\ Prepared'
    BY <1>1, <1>2 DEF Fresh, Prepared, Journalled
<1>5. Worked'
    <2>1. ASSUME journal.op # NoOp, record[journal.op] # "succeeded"
          PROVE  RecordsFirst(work')
        <3>1. IntentOf(journal) \in Calls /\ IntentOf(journal).op = journal.op
              /\ IntentOf(journal).kind = journal.kind
            BY <1>1 DEF TypeInv, Requested, IntentOf
        <3>2. journal.kind \in LinkedKinds /\ journal.kind \in Kinds
            BY <2>1, <3>1, CallType
        <3>3. RepairProgram = RedoProgram(journal.kind)  BY <2>1 DEF RepairProgram
        <3>4. RecordsThenClears(work'.prog) /\ work'.at = 1
            BY <1>2, <3>2, <3>3, RedoProgramType
        <3> QED  BY <3>4 DEF RecordsFirst, RecordsThenClears
    <2> QED  BY <1>1, <1>2, <2>1 DEF Worked, Terminal
<1>6. Claims' /\ NoOrphan'  BY <1>1 DEF Claims, ClaimsOf, Journalled, NoOrphan
<1> QED  BY <1>3, <1>4, <1>5, <1>6

LEMMA RecordResultBooks ==
    ASSUME TypeInv, BooksInv, NEW ok \in BOOLEAN, RecordResult(ok)
    PROVE  BooksInv'
<1> USE DEF BooksInv
<1> PICK op : op = work.call.op
    OBVIOUS
<1> PICK outcome : outcome = Outcome
    OBVIOUS
<1>1. /\ work # NoWork /\ work \in Mutation /\ work.phase = "run"
      /\ work.who = "worker" /\ op \in Ops \cup {NoOp}
      /\ op \in Ops => op # NoOp /\ record[op] = "running" /\ deferred[op] = "none"
                       /\ job[op] = "running"
    <2>1. work # NoWork /\ work.phase = "run" /\ work.who = "worker"
        BY DEF RecordResult, Ended
    <2> QED  BY <2>1, WorkedOp DEF Worked
<1>2. /\ outcome \in {"succeeded", "recovery_required", "cancelled", "failed"}
      /\ outcome = "recovery_required" => journal # NoJournal
    BY DEF Outcome
<1>3. /\ UNCHANGED <<journal, job, prep>> /\ pinned' = (pinned \/ ~ok)
      /\ Transition(op, outcome, ok)
    BY DEF RecordResult
<1>4. /\ \A o \in Ops : o # op => record'[o] = record[o] /\ deferred'[o] = deferred[o]
      /\ op \in Ops => IF ok THEN record'[op] = outcome /\ deferred'[op] = "none"
                             ELSE record'[op] = "running"
    <2>1. CASE op = NoOp
        BY <1>3, <2>1, NoTransition, LifecycleAssumption
    <2>2. CASE op \in Ops
        <3>1. outcome \in Statuses  BY <1>2 DEF Statuses, Terminal, Unfinished
        <3> QED  BY <1>1, <1>2, <1>3, <2>2, <3>1, TransitionEffect DEF Terminal, Unfinished
    <2> QED  BY <1>1, <2>1, <2>2
<1>5. /\ work' # NoWork /\ work'.call = work.call /\ work'.who = "worker"
      /\ work'.result = IF ok THEN outcome ELSE "failed"
      /\ work'.phase = IF ok /\ outcome = "succeeded" THEN "settle" ELSE "finish"
    <2>1. work' = [work EXCEPT !.result = IF ok THEN outcome ELSE "failed",
                     !.phase = IF ok /\ outcome = "succeeded" THEN "settle" ELSE "finish"]
        BY DEF RecordResult
    <2>2. work' \in Mutation
        BY <1>1, <1>2, <2>1 DEF Mutation, Statuses, Terminal, Unfinished
    <2> QED  BY <1>1, <2>1, <2>2, NoWorkIsNoWork DEF Mutation
<1>6. Owned'  BY <1>1, <1>3, <1>5 DEF Owned
<1>7. Fresh'  BY <1>1, <1>2, <1>3, <1>4, <1>5 DEF Fresh, Journalled
<1>8. Prepared'
    <2>1. ASSUME prep # NoWork, prep.call.op # NoOp
          PROVE  LET o == prep.call.op
                 IN /\ o \in Ops /\ o # op /\ record'[o] = record[o]
                    /\ deferred'[o] = deferred[o]
        BY <1>1, <1>4, <2>1, PrepType DEF Prepared
    <2> QED  BY <1>1, <1>3, <1>5, <2>1 DEF Prepared, Journalled
<1>9. Worked'
    BY <1>1, <1>2, <1>3, <1>4, <1>5 DEF Worked, Settled, Terminal
<1>10. Claims'
    <2>1. ASSUME NEW o \in Ops, o # op PROVE ClaimsOf(o)'
        BY <1>3, <1>4, <2>1 DEF Claims, ClaimsOf, Journalled
    <2>2. op \in Ops => ClaimsOf(op)'
        BY <1>1, <1>3 DEF ClaimsOf
    <2>3. \A o \in Ops : ClaimsOf(o)'  BY <2>1, <2>2
    <2> QED  BY <2>3 DEF Claims
<1>11. NoOrphan'  BY <1>1, <1>3, <1>4, <1>5 DEF NoOrphan
<1> QED  BY <1>6, <1>7, <1>8, <1>9, <1>10, <1>11

LEMMA SettleJournalBooks ==
    ASSUME TypeInv, BooksInv, NEW ok \in BOOLEAN, SettleJournal(ok)
    PROVE  BooksInv'
<1> USE DEF BooksInv
<1>1. /\ work # NoWork /\ work \in Mutation /\ work.phase = "settle"
      /\ work.who = "worker"
    <2>1. work # NoWork /\ work.phase = "settle"  BY DEF SettleJournal
    <2> QED  BY <2>1, WorkedOp DEF Owned
<1>2. /\ journal' \in {journal, NoJournal} /\ pinned' = (pinned \/ ~ok)
      /\ UNCHANGED <<record, deferred, job, prep>>
    BY ClearType DEF SettleJournal, books
<1>3. /\ work' # NoWork /\ work'.call = work.call /\ work'.who = "worker"
      /\ work'.phase = "finish" /\ work'.result = work.result
    <2>1. work' = [work EXCEPT !.phase = "finish"]  BY DEF SettleJournal
    <2>2. work' \in Mutation  BY <1>1, <2>1 DEF Mutation
    <2> QED  BY <1>1, <2>1, <2>2, NoWorkIsNoWork DEF Mutation
<1>4. Owned'  BY <1>1, <1>2, <1>3 DEF Owned
<1>5. Fresh' /\ Prepared'  BY <1>1, <1>2, <1>3 DEF Fresh, Prepared, Journalled
<1>6. Worked'  BY <1>1, <1>2, <1>3 DEF Worked, Settled, Terminal
<1>7. Claims'  BY <1>2 DEF Claims, ClaimsOf, Journalled
<1>8. NoOrphan'
    <2>1. \A op \in Ops : journal # NoJournal /\ journal.op = op => work.call.op = op
        BY <1>1 DEF Owned
    <2> QED  BY <1>1, <1>2, <1>3, <2>1 DEF NoOrphan
<1> QED  BY <1>4, <1>5, <1>6, <1>7, <1>8

LEMMA RetryBooks ==
    ASSUME TypeInv, BooksInv, NEW op \in Ops, NEW ok \in BOOLEAN, Retry(op, ok)
    PROVE  BooksInv'
<1> USE DEF BooksInv
<1>1. /\ deferred[op] # "none" /\ record[op] \in Unfinished /\ record[op] # "none"
      /\ UNCHANGED <<journal, pinned, job, prep, work>>
    BY StatusesApart DEF Retry, gate
<1>2. /\ \A o \in Ops : o # op => record'[o] = record[o] /\ deferred'[o] = deferred[o]
      /\ IF ok THEN record'[op] = deferred[op] /\ deferred'[op] = "none"
               ELSE record'[op] = record[op] /\ deferred'[op] = deferred[op]
    BY DEF Retry, books, TypeInv, TypeOK
<1>3. Owned' /\ Fresh'  BY <1>1, <1>2 DEF Owned, Fresh, Journalled
<1>4. Prepared'
    <2>1. ASSUME prep # NoWork, prep.call.op # NoOp
          PROVE  LET o == prep.call.op
                 IN /\ o \in Ops /\ o # op /\ record'[o] = record[o]
                    /\ deferred'[o] = deferred[o]
        BY <1>1, <1>2, <2>1, PrepType DEF Prepared
    <2> QED  BY <1>1, <2>1 DEF Prepared, Journalled
<1>5. Worked'
    <2>1. CASE work = NoWork \/ work.call.op # op
        <3>1. ASSUME work # NoWork, work.call.op # NoOp
              PROVE  LET o == work.call.op
                     IN record'[o] = record[o] /\ deferred'[o] = deferred[o]
            BY <1>2, <2>1, <3>1, WorkType
        <3> QED  BY <1>1, <3>1 DEF Worked, Settled
    <2>2. CASE work # NoWork /\ work.call.op = op
        <3>1. /\ work.phase \notin {"start", "settle"}
              /\ work.phase = "reject" =>
                    record[op] \in {"pending", "running"} /\ deferred[op] = "running"
              /\ ~(work.phase = "run" /\ work.who = "worker")
              /\ work.phase = "finish" => pinned /\ work.result = "failed"
              /\ work.who = "repair" => journal # NoJournal /\ RecordsFirst(work)
              /\ work.who # "settler"
            BY <1>1, <2>2, LifecycleAssumption DEF Worked, Settled, Terminal, Unfinished
        <3> QED  BY <1>1, <1>2, <2>2, <3>1 DEF Worked, Settled
    <2> QED  BY <2>1, <2>2
<1>6. Claims'
    <2>1. ASSUME NEW o \in Ops, o # op PROVE ClaimsOf(o)'
        BY <1>1, <1>2, <2>1 DEF Claims, ClaimsOf, Journalled
    <2>2. ClaimsOf(op)'
        BY <1>1, <1>2 DEF Claims, ClaimsOf, Journalled, Unfinished, Terminal
    <2>3. \A o \in Ops : ClaimsOf(o)'  BY <2>1, <2>2
    <2> QED  BY <2>3 DEF Claims
<1>7. NoOrphan'  BY <1>1, <1>2 DEF NoOrphan
<1> QED  BY <1>3, <1>4, <1>5, <1>6, <1>7

\* Cancellation only marks the preparation and the work.
LEMMA CancelledFields ==
    /\ \A w \in Mutation :
         LET c == Cancelled(w)
         IN /\ c # NoWork /\ c.who = w.who /\ c.call = w.call /\ c.phase = w.phase
            /\ c.prog = w.prog /\ c.at = w.at /\ c.err = w.err /\ c.result = w.result
    /\ \A p \in Preparation :
         Cancelled(p) # NoWork /\ Cancelled(p).call = p.call /\ Cancelled(p).phase = p.phase
    /\ Cancelled(NoWork) = NoWork
<1>1. ASSUME NEW w \in Mutation
      PROVE  LET c == Cancelled(w)
             IN /\ c # NoWork /\ c.who = w.who /\ c.call = w.call /\ c.phase = w.phase
                /\ c.prog = w.prog /\ c.at = w.at /\ c.err = w.err /\ c.result = w.result
    <2>1. Cancelled(w) = [w EXCEPT !.cancelled = TRUE]  BY NoWorkIsNoWork DEF Cancelled
    <2>2. Cancelled(w) \in Mutation  BY CancelledType
    <2> QED  BY <2>1, <2>2, NoWorkIsNoWork DEF Mutation
<1>2. ASSUME NEW p \in Preparation
      PROVE  Cancelled(p) # NoWork /\ Cancelled(p).call = p.call
             /\ Cancelled(p).phase = p.phase
    <2>1. Cancelled(p) = [p EXCEPT !.cancelled = TRUE]  BY NoWorkIsNoWork DEF Cancelled
    <2>2. Cancelled(p) \in Preparation  BY CancelledType
    <2> QED  BY <2>1, <2>2, NoWorkIsNoWork DEF Preparation
<1> QED  BY <1>1, <1>2, CancelledType

LEMMA MarkedBooks ==
    ASSUME TypeInv, BooksInv, work' \in {work, Cancelled(work)},
           prep' \in {prep, Cancelled(prep)},
           UNCHANGED <<journal, pinned, record, deferred, job>>
    PROVE  BooksInv'
<1> USE DEF BooksInv
<1>1. /\ (work' = NoWork) = (work = NoWork)
      /\ work # NoWork =>
           /\ work'.who = work.who /\ work'.call = work.call /\ work'.phase = work.phase
           /\ work'.prog = work.prog /\ work'.at = work.at /\ work'.err = work.err
           /\ work'.result = work.result
    BY WorkType, CancelledFields
<1>2. /\ (prep' = NoWork) = (prep = NoWork)
      /\ prep # NoWork => prep'.call = prep.call /\ prep'.phase = prep.phase
    BY PrepType, CancelledFields
<1>3. Owned' /\ Fresh'  BY <1>1 DEF Owned, Fresh, Journalled
<1>4. Prepared'  BY <1>1, <1>2 DEF Prepared, Journalled
<1>5. Worked'
    <2>1. work # NoWork /\ RecordsFirst(work) => RecordsFirst(work')
        BY <1>1 DEF RecordsFirst
    <2> QED  BY <1>1, <2>1 DEF Worked, Settled
<1>6. Claims' /\ NoOrphan'
    BY <1>1, <1>2 DEF Claims, ClaimsOf, Journalled, NoOrphan
<1> QED  BY <1>3, <1>4, <1>5, <1>6

LEMMA CancelJobBooks ==
    ASSUME TypeInv, BooksInv, NEW op \in Ops, CancelJob(op)
    PROVE  BooksInv'
<1> USE DEF BooksInv
<1>1. UNCHANGED <<journal, pinned, record, deferred, prep>>
    BY DEF CancelJob, gate, books
<1>2. CASE job' = job
    BY <1>1, <1>2, MarkedBooks DEF CancelJob
<1>3. CASE job[op] = "pending" /\ job' = [job EXCEPT ![op] = "cancelled"] /\ work' = work
    <2>1. /\ prep # NoWork /\ prep.call.op = op /\ prep.phase = "promote"
          /\ record[op] = "pending" /\ deferred[op] = "none" /\ ~Journalled(op)
          /\ work # NoWork => work.call.op # op
        <3>1. prep # NoWork /\ prep.call.op = op /\ prep.phase = "promote"
            BY <1>3 DEF Prepared
        <3> QED  BY <3>1, PreparedOp
    <2>2. /\ \A o \in Ops : o # op => job'[o] = job[o]
          /\ job'[op] = "cancelled"
        BY <1>3 DEF TypeInv, TypeOK
    <2>3. Owned' /\ Fresh'  BY <1>1, <1>3, <2>1, <2>2 DEF Owned, Fresh, Journalled
    <2>4. Prepared'  BY <1>1, <1>3, <2>1, <2>2 DEF Prepared, Journalled
    <2>5. Worked'
        <3>1. work # NoWork /\ work.call.op # NoOp =>
                  job'[work.call.op] = job[work.call.op]
            BY <2>1, <2>2, WorkType
        <3> QED  BY <1>1, <1>3, <3>1 DEF Worked, Settled
    <2>6. Claims'
        <3>1. ASSUME NEW o \in Ops, o # op PROVE ClaimsOf(o)'
            BY <1>1, <2>2, <3>1 DEF Claims, ClaimsOf, Journalled
        <3>2. ClaimsOf(op)'  BY <1>1, <2>1, <2>2 DEF ClaimsOf, Journalled
        <3>3. \A o \in Ops : ClaimsOf(o)'  BY <3>1, <3>2
        <3> QED  BY <3>3 DEF Claims
    <2>7. NoOrphan'  BY <1>1, <1>3 DEF NoOrphan
    <2> QED  BY <2>3, <2>4, <2>5, <2>6, <2>7
<1> QED  BY <1>2, <1>3 DEF CancelJob

LEMMA InterruptBooks == ASSUME TypeInv, BooksInv, Interrupt PROVE BooksInv'
BY MarkedBooks DEF Interrupt, gate, books

LEMMA CrashBooks ==
    ASSUME TypeInv, BooksInv, Crash
    PROVE  BooksInv'
<1> USE DEF BooksInv
<1>1. /\ work' = NoWork /\ prep' = NoWork /\ UNCHANGED journal
      /\ \A op \in Ops : /\ record'[op] = Recovered(op)
                         /\ deferred'[op] = "none" /\ job'[op] = "none"
    BY DEF Crash
<1>2. \A op \in Ops :
        /\ record'[op] = "none" => record[op] = "none"
        /\ record'[op] \in Unfinished => Journalled(op)
    BY <1>1, StatusesApart DEF Recovered, Terminal, Unfinished, Journalled
<1>3. Owned' /\ Prepared' /\ Worked' /\ Claims'
    BY <1>1 DEF Owned, Prepared, Worked, Claims, ClaimsOf
<1>4. Fresh'  BY <1>1, <1>2 DEF Fresh, Journalled
<1>5. NoOrphan'  BY <1>1, <1>2 DEF NoOrphan, Journalled
<1> QED  BY <1>3, <1>4, <1>5

LEMMA InitBooks == Init => BooksInv
BY DEF Init, BooksInv, Owned, Fresh, Prepared, Worked, Claims, ClaimsOf, NoOrphan,
       Journalled, Unfinished

LEMMA BooksStep == TypeInv /\ BooksInv /\ [Next]_vars => BooksInv'
<1> SUFFICES ASSUME TypeInv, BooksInv, [Next]_vars PROVE BooksInv'
    OBVIOUS
<1>1. ASSUME NEW c \in Calls, Prepare(c) \/ Begin(c) PROVE BooksInv'
    BY <1>1, PrepareBooks, BeginBooks
<1>2. ASSUME Preparing PROVE BooksInv'
    BY <1>2, ReserveRecordBooks, RejectBooks, PromoteRefusedBooks, ReserveJobBooks,
       PromoteBooks DEF Preparing
<1>3. ASSUME Working PROVE BooksInv'
    BY <1>3, StartBooks, RejectStartedBooks, RunningBooks, RecordRepairBooks,
       RecordResultBooks, SettleJournalBooks, RepairFailsBooks, FinishJobBooks, ReturnBooks
    DEF Working
<1>4. ASSUME NEW op \in Ops, CancelJob(op) \/ \E ok \in BOOLEAN : Retry(op, ok)
      PROVE  BooksInv'
    BY <1>4, CancelJobBooks, RetryBooks
<1>5. CASE UNCHANGED vars
    <2>1. UNCHANGED <<journal, pinned, record, deferred, job, prep, work>>
        BY <1>5 DEF vars
    <2> QED  BY <2>1, MarkedBooks
<1> QED
    BY <1>1, <1>2, <1>3, <1>4, <1>5, BeginRepairBooks, InterruptBooks, CrashBooks DEF Next

LEMMA BooksHold == Spec => [](TypeInv /\ BooksInv)
BY InitType, TypeStep, InitBooks, BooksStep, PTL DEF Spec

\* No unfinished operation is left without anybody who will settle it.
THEOREM NoOrphanHolds == Spec => []NoOrphan
<1>1. TypeInv /\ BooksInv => NoOrphan  BY DEF BooksInv
<1> QED  BY <1>1, BooksHold, PTL

\* What clients see of a job never claims more than the durable record.
THEOREM JobsHold == Spec => []JobNeverOverclaims
<1>1. TypeInv /\ BooksInv => JobNeverOverclaims
    BY DEF BooksInv, Claims, ClaimsOf, JobNeverOverclaims, Terminal
<1> QED  BY <1>1, BooksHold, PTL

-----------------------------------------------------------------------------
(***************************************************************************)
(* A completed operation is not replayed.  Only the teardown of the stack  *)
(* removes data, and it is in no program once the outcome is on record.    *)
(***************************************************************************)
NoTeardown(w) ==
    w.call.op # NoOp =>
        /\ w.who = "settler" => \A i \in w.at..Len(w.prog) : w.prog[i] # "down"
        /\ w.who = "repair" =>
              \A k, i \in 1..Len(w.prog) :
                  k < i /\ Records(w.prog[k]) => w.prog[i] # "down"
TeardownOver == work # NoWork => NoTeardown(work)

LEMMA VerifyTearsNothingDown ==
    ASSUME NEW kind \in LinkedKinds
    PROVE  \A i \in 1..Len(VerifyProgram(kind)) : VerifyProgram(kind)[i] # "down"
<1>1. CASE kind = "create"  BY <1>1 DEF VerifyProgram
<1>2. CASE kind = "close"   BY <1>2 DEF VerifyProgram
<1>3. CASE kind = "reset"   BY <1>3 DEF VerifyProgram
<1> QED  BY <1>1, <1>2, <1>3 DEF LinkedKinds

LEMMA NextTeardownOver ==
    ASSUME TypeInv, TeardownOver, Running, Advance \/ Fail
    PROVE  TeardownOver'
<1>1. /\ work # NoWork /\ work.at \in 1..Len(work.prog) /\ Len(work.prog) \in Nat
      /\ work'.who = work.who /\ work'.call = work.call /\ work'.prog = work.prog
      /\ work'.at \in {work.at + 1, Len(work.prog) + 1}
    BY StepType, WorkType, NextStep DEF Running
<1>2. \A i \in work'.at..Len(work'.prog) : i \in work.at..Len(work.prog)  BY <1>1
<1> QED  BY <1>1, <1>2 DEF TeardownOver, NoTeardown

LEMMA TeardownStep ==
    ASSUME TypeInv, BooksInv, TeardownOver, [Next]_vars
    PROVE  TeardownOver'
<1>1. ASSUME work' \in {work, NoWork, Cancelled(work)} PROVE TeardownOver'
    <2>1. work' # NoWork =>
            /\ work # NoWork /\ work'.who = work.who /\ work'.call = work.call
            /\ work'.prog = work.prog /\ work'.at = work.at
        BY <1>1, WorkType, CancelledFields
    <2> QED  BY <2>1 DEF TeardownOver, NoTeardown
<1>2. ASSUME work' # NoWork => work'.who \in {"worker", "caller"} PROVE TeardownOver'
    BY <1>2 DEF TeardownOver, NoTeardown
<1>3. CASE UNCHANGED vars  BY <1>1, <1>3 DEF vars
<1>4. ASSUME NEW c \in Calls, Prepare(c) \/ Begin(c) PROVE TeardownOver'
    BY <1>1, <1>2, <1>4 DEF Prepare, Begin
<1>5. ASSUME Preparing PROVE TeardownOver'
    BY <1>1, <1>2, <1>5
    DEF Preparing, ReserveRecord, ReserveJob, Reject, Promote, PromoteRefused
<1>6. ASSUME NEW ok \in BOOLEAN, RecordRepair(ok) PROVE TeardownOver'
    <2>1. Running /\ Records(Step)  BY <1>6 DEF RecordRepair, Records
    <2>2. CASE ~ok
        <3>1. Fail  BY <1>6, <2>2 DEF RecordRepair
        <3> QED  BY <2>1, <3>1, NextTeardownOver
    <2>3. CASE ok
        <3>1. work # NoWork /\ work \in Mutation /\ work.at \in 1..Len(work.prog)
              /\ work.at \in Nat /\ Len(work.prog) \in Nat
            BY <2>1, StepType, WorkType DEF Running
        <3>2. work' = [work EXCEPT !.who = "settler", !.at = work.at + 1]
            BY <1>6, <2>3 DEF RecordRepair
        <3>3. /\ work'.who = "settler" /\ work'.call = work.call
              /\ work'.prog = work.prog /\ work'.at = work.at + 1
            BY <3>1, <3>2 DEF Mutation
        <3>4. ASSUME work.call.op # NoOp, NEW i \in work.at + 1..Len(work.prog)
              PROVE  work.prog[i] # "down"
            <4>1. work.who \in {"repair", "settler"}
                <5>1. work.who = "worker" => FALSE
                    BY <2>1, <3>1, <3>4, WorkerRecordsNothing
                    DEF BooksInv, Worked, Step, Running
                <5>2. work.who = "caller" => FALSE
                    BY <3>1, <3>4 DEF BooksInv, Owned
                <5> QED  BY <3>1, <5>1, <5>2 DEF Mutation
            <4>2. i \in work.at..Len(work.prog) /\ i \in 1..Len(work.prog) /\ work.at < i
                BY <3>1
            <4> QED
                BY <2>1, <3>1, <3>4, <4>1, <4>2 DEF TeardownOver, NoTeardown, Step
        <3> QED  BY <3>3, <3>4 DEF TeardownOver, NoTeardown
    <2> QED  BY <2>2, <2>3
<1>7. ASSUME NEW ok \in BOOLEAN, Start(ok) \/ RecordResult(ok) \/ SettleJournal(ok)
      PROVE  TeardownOver'
    <2>1. work # NoWork /\ work \in Mutation /\ work.who = "worker"
        BY <1>7, WorkType DEF Start, RecordResult, SettleJournal, Ended, BooksInv, Owned
    <2>2. work'.who = "worker"
        BY <1>7, <2>1 DEF Start, RecordResult, SettleJournal, Mutation
    <2> QED  BY <1>2, <2>2
<1>8. ASSUME Working PROVE TeardownOver'
    BY <1>1, <1>6, <1>7, <1>8, NextTeardownOver
    DEF Working, RejectStarted, WriteJournal, AdvanceJournal, ClearStep, RepairFails,
        StepDone, StepRefused, StepFails, CreateEnvFails, FinishJob, Return
<1>9. ASSUME BeginRepair PROVE TeardownOver'
    <2>1. /\ work'.who = IF journal.op # NoOp /\ record[journal.op] = "succeeded"
                           THEN "settler" ELSE "repair"
          /\ work'.call.op = journal.op /\ work'.prog = RepairProgram /\ work'.at = 1
          /\ journal # NoJournal
        BY <1>9 DEF BeginRepair
    <2>2. journal.op # NoOp => journal.kind \in LinkedKinds /\ journal.kind \in Kinds
        <3>1. /\ IntentOf(journal) \in Calls /\ IntentOf(journal).op = journal.op
              /\ IntentOf(journal).kind = journal.kind
            BY <2>1 DEF TypeInv, Requested, IntentOf
        <3> QED  BY <3>1, CallType
    <2>3. CASE journal.op # NoOp /\ record[journal.op] = "succeeded"
        BY <2>1, <2>2, <2>3, VerifyTearsNothingDown
        DEF RepairProgram, TeardownOver, NoTeardown
    <2>4. CASE ~(journal.op # NoOp /\ record[journal.op] = "succeeded")
        <3>1. RepairProgram = RedoProgram(journal.kind)  BY <2>4 DEF RepairProgram
        <3>2. journal.op # NoOp => RecordsThenClears(RepairProgram)
            BY <2>2, <3>1, RedoProgramType
        <3> QED  BY <2>1, <2>4, <3>2 DEF TeardownOver, NoTeardown, RecordsThenClears
    <2> QED  BY <2>3, <2>4
<1> QED
    BY <1>1, <1>3, <1>4, <1>5, <1>8, <1>9
    DEF Next, CancelJob, Retry, Interrupt, Crash

LEMMA MarkedKeepsData ==
    ASSUME NEW w \in World
    PROVE  Marked(w).data = w.data
BY DEF Marked, SetRepair, World

LEMMA OnlyDownRemoves ==
    ASSUME NEW w \in World, NEW step, NEW target, w.data # None, step # "down",
           NEW v \in Leaves(step, target, w) \cup {After(step, target, w)}
    PROVE  v.data = w.data
<1>1. After(step, target, w).data = w.data
    <2>1. CASE step \in {"createEnv", "writeEnv", "removeEnv", "removeEntry", "reload",
                         "upsertEntry", "upStateless"}
        BY <2>1 DEF After, World
    <2>2. CASE step \in {"sync", "reconcile", "requireRepair", "clearRepair"}
        BY <2>2 DEF After, World, Synced, SetRepair
    <2>3. CASE step \in {"up", "upAnyway"}  BY <2>3 DEF After, World
    <2>4. CASE step \notin {"createEnv", "writeEnv", "removeEnv", "removeEntry", "reload",
                            "upsertEntry", "upStateless", "sync", "reconcile",
                            "requireRepair", "clearRepair", "up", "upAnyway"}
        BY <2>4 DEF After
    <2> QED  BY <2>1, <2>2, <2>3, <2>4
<1>2. [w EXCEPT !.stack = w.env].data = w.data  BY DEF World
<1>3. v \in {w, [w EXCEPT !.stack = w.env], After(step, target, w)}
    BY DEF Leaves
<1> QED  BY <1>1, <1>2, <1>3

\* Data goes away in a step of a program that is a teardown.
LEMMA RemovedByDown ==
    ASSUME TypeInv, Next, world.data # None, world'.data = None
    PROVE  Running /\ Step = "down"
<1>1. world \in World  BY DEF TypeInv, TypeOK
<1>2. world' # world  OBVIOUS
<1>3. CASE StepDone  BY <1>1, <1>3, OnlyDownRemoves DEF StepDone
<1>4. CASE StepRefused  BY <1>1, <1>4, MarkedKeepsData DEF StepRefused
<1>5. CASE StepFails
    <2>1. PICK w \in Leaves(Step, work.call.target, world) : world' \in {w, Marked(w)}
        BY <1>5 DEF StepFails
    <2>2. Running /\ Accepts(Step, work.call.target, world)  BY <1>5 DEF StepFails
    <2>3. w \in World
        BY <1>1, <2>2, WorkType, StepType, LeavesType DEF Running, Step
    <2>4. world'.data = w.data  BY <2>1, <2>3, MarkedKeepsData
    <2> QED  BY <1>1, <2>2, <2>4, OnlyDownRemoves
<1>6. ASSUME NEW ok \in BOOLEAN, AdvanceJournal(ok) PROVE FALSE
    BY <1>1, <1>6, MarkedKeepsData DEF AdvanceJournal
<1>7. CASE Crash  BY <1>1, <1>7, OnlyDownRemoves DEF Crash, CrashLeaves
<1> QED
    BY <1>2, <1>3, <1>4, <1>5, <1>6, <1>7
    DEF Next, Preparing, Working, Prepare, Begin, ReserveRecord, ReserveJob, Reject, Promote,
        PromoteRefused, Start, RejectStarted, WriteJournal, ClearStep, RecordRepair,
        RecordResult, SettleJournal, RepairFails, CreateEnvFails, FinishJob, Return,
        BeginRepair, CancelJob, Retry, Interrupt

LEMMA TeardownHolds == Spec => [](TypeInv /\ BooksInv /\ TeardownOver)
<1>1. Init => TeardownOver  BY DEF Init, TeardownOver
<1> QED  BY <1>1, InitType, TypeStep, InitBooks, BooksStep, TeardownStep, PTL DEF Spec

\* Once success is on record, an operation removes a server's data only through
\* a repair that began before.
THEOREM NotReplayed == Spec => CompletedNotReplayed
<1>1. ASSUME TypeInv, BooksInv, TeardownOver, [Next]_vars, DataRemoved,
             record[work.call.op] = "succeeded"
      PROVE  Redoing(work.call.op)
    <2>1. /\ Next /\ world.data # None /\ world'.data = None /\ work.call.op # NoOp
        BY <1>1 DEF DataRemoved, vars
    <2>2. Running /\ Step = "down"  BY <1>1, <2>1, RemovedByDown
    <2>3. /\ work # NoWork /\ work.phase = "run" /\ work \in Mutation
          /\ work.at \in work.at..Len(work.prog) /\ work.prog[work.at] = "down"
        BY <1>1, <2>2, WorkType, StepType DEF Running, Step
    <2>4. work.who = "worker" => FALSE  BY <1>1, <2>1, <2>3 DEF BooksInv, Worked
    <2>5. work.who = "caller" => FALSE  BY <1>1, <2>1, <2>3 DEF BooksInv, Owned
    <2>6. work.who = "settler" => FALSE
        BY <1>1, <2>1, <2>3 DEF TeardownOver, NoTeardown
    <2> QED  BY <2>3, <2>4, <2>5, <2>6 DEF Mutation, Redoing
<1> QED  BY <1>1, TeardownHolds, PTL DEF Spec, CompletedNotReplayed

-----------------------------------------------------------------------------
(***************************************************************************)
(* A refused operation has changed nothing.  An operation changes the      *)
(* server only under its journal, the journal stays until success is on    *)
(* record, and a create is only withdrawn while there is nothing of it.    *)
(***************************************************************************)
Refused == {"failed", "cancelled"}
Changing == {"createEnv", "writeEnv", "removeEnv", "upsertEntry", "sync", "reconcile",
             "removeEntry", "requireRepair", "clearRepair", "down", "up", "upAnyway",
             "upStateless", "reload"}
Withdraw == <<"cancel", "clear">>
Nothing == world.env = None /\ world.entry = None

\* Who has changed the server has succeeded, or has a journal to repair from.
TouchedIsKept ==
    \A op \in touched :
        /\ record[op] \in {"running", "recovery_required", "succeeded"}
        /\ record[op] \in Unfinished => Journalled(op) /\ deferred[op] \notin Refused

Deferring ==
    \A op \in Ops :
        /\ deferred[op] # "pending"
        /\ record[op] \in Terminal => deferred[op] = "none"
        /\ Journalled(op) => record[op] # "pending"

\* A refusal is recorded under a journal only to withdraw a create.
Withdrawn ==
    \A op \in Ops : Journalled(op) /\ (record[op] \in Refused \/ deferred[op] \in Refused) =>
        /\ journal.kind = "create" /\ Nothing
        /\ work # NoWork => work.prog = Withdraw

\* A worker without a journal has not come to the step that writes it.
BeforeJournal ==
    /\ work # NoWork /\ work.phase = "start" => work.at = 1
    /\ Running /\ work.who = "worker" /\ work.call.op # NoOp =>
         /\ journal = NoJournal => \A i \in 1..work.at - 1 : work.prog[i] # "journal"
         /\ Step = "createEnv" => work.call.op \notin touched

Withdrawing ==
    work # NoWork /\ work.call.op # NoOp =>
        /\ work.who \in {"repair", "settler"}
             /\ (\E i \in 1..Len(work.prog) : work.prog[i] = "cancel") =>
                /\ work.prog = Withdraw /\ work.call.kind = "create"
                /\ work.call.op \notin touched /\ Nothing
        /\ work.who = "settler" =>
             /\ record[work.call.op] = "succeeded" \/ work.prog = Withdraw
             /\ \A i \in work.at..Len(work.prog) : work.prog[i] # "journal"

\* A create that has changed the server has an env file, and keeps it.
Founds(step) == step \in {"createEnv", "validate"}
Founded(p) ==
    \A i \in 1..Len(p) :
        /\ p[i] # "removeEnv"
        /\ p[i] \in Changing => p[i] = "createEnv" \/ \E k \in 1..i - 1 : Founds(p[k])
CreateStands ==
    /\ \A op \in touched : Journalled(op) /\ journal.kind = "create" => world.env # None
    /\ Running /\ work.call.op # NoOp /\ work.call.kind = "create" =>
         /\ Founded(work.prog)
         /\ (\E i \in 1..work.at - 1 : Founds(work.prog[i])) => world.env # None

Clean == /\ TouchedIsKept /\ Deferring /\ Withdrawn
         /\ BeforeJournal /\ Withdrawing /\ CreateStands

\* The programs, as far as the argument needs them.
JournalsFirst(p) ==
    \A i \in 1..Len(p) :
        /\ p[i] # "clear" /\ ~Records(p[i])
        /\ p[i] \in Changing => \E k \in 1..i - 1 : p[k] = "journal"
        /\ p[i] = "createEnv" => i - 1 \in 1..Len(p) /\ p[i - 1] = "journal"

LEMMA WorkerPrograms ==
    JournalsFirst(CreateProgram) /\ JournalsFirst(CloseProgram) /\ JournalsFirst(ResetProgram)
<1>1. ASSUME NEW p \in Seq(Steps), NEW j \in 1..Len(p), p[j] = "journal",
             \A i \in 1..Len(p) : /\ p[i] # "clear" /\ ~Records(p[i])
                                  /\ p[i] \in Changing => i > j
                                  /\ p[i] = "createEnv" => i = j + 1
      PROVE  JournalsFirst(p)
    <2>1. \A i \in 1..Len(p) : i > j => j \in 1..i - 1  BY <1>1
    <2>2. \A i \in 1..Len(p) : i = j + 1 => i - 1 = j  BY <1>1
    <2> QED  BY <1>1, <2>1, <2>2 DEF JournalsFirst
<1>2. /\ CreateProgram \in Seq(Steps) /\ CloseProgram \in Seq(Steps)
      /\ ResetProgram \in Seq(Steps)
    BY DEF CreateProgram, CloseProgram, ResetProgram, Steps, OwnSteps
<1>3. JournalsFirst(CreateProgram)
    <2>1. \A i \in 1..Len(CreateProgram) :
            /\ CreateProgram[i] # "clear" /\ ~Records(CreateProgram[i])
            /\ CreateProgram[i] \in Changing => i > 4
            /\ CreateProgram[i] = "createEnv" => i = 4 + 1
        BY DEF CreateProgram, Records, Changing
    <2>2. CreateProgram[4] = "journal" /\ 4 \in 1..Len(CreateProgram)
        BY DEF CreateProgram
    <2> QED  BY <1>1, <1>2, <2>1, <2>2
<1>4. JournalsFirst(CloseProgram)
    <2>1. \A i \in 1..Len(CloseProgram) :
            /\ CloseProgram[i] # "clear" /\ ~Records(CloseProgram[i])
            /\ CloseProgram[i] \in Changing => i > 1
            /\ CloseProgram[i] = "createEnv" => i = 1 + 1
        BY DEF CloseProgram, Records, Changing
    <2>2. CloseProgram[1] = "journal" /\ 1 \in 1..Len(CloseProgram)
        BY DEF CloseProgram
    <2> QED  BY <1>1, <1>2, <2>1, <2>2
<1>5. JournalsFirst(ResetProgram)
    <2>1. \A i \in 1..Len(ResetProgram) :
            /\ ResetProgram[i] # "clear" /\ ~Records(ResetProgram[i])
            /\ ResetProgram[i] \in Changing => i > 4
            /\ ResetProgram[i] = "createEnv" => i = 4 + 1
        BY DEF ResetProgram, Records, Changing
    <2>2. ResetProgram[4] = "journal" /\ 4 \in 1..Len(ResetProgram)
        BY DEF ResetProgram
    <2> QED  BY <1>1, <1>2, <2>1, <2>2
<1> QED  BY <1>3, <1>4, <1>5

LEMMA WithdrawSteps ==
    /\ Len(Withdraw) = 2
    /\ \A i \in 1..2 : Withdraw[i] \in {"cancel", "clear"} /\ Withdraw[i] \notin Changing
BY DEF Withdraw, Changing

LEMMA CreateIsFounded ==
    Founded(CreateProgram) /\ Founded(VerifyProgram("create")) /\ Founded(RedoCreate)
<1>1. Founded(CreateProgram)
    <2>1. \A i \in 1..Len(CreateProgram) :
            /\ CreateProgram[i] # "removeEnv"
            /\ CreateProgram[i] \in Changing => i >= 5
        BY DEF CreateProgram, Changing
    <2>2. CreateProgram[5] = "createEnv" /\ Len(CreateProgram) = 9  BY DEF CreateProgram
    <2>3. \A i \in 1..Len(CreateProgram) : i >= 5 => i = 5 \/ 5 \in 1..i - 1
        BY <2>2
    <2> QED  BY <2>1, <2>2, <2>3 DEF Founded, Founds
<1>2. Founded(VerifyProgram("create"))  BY DEF Founded, VerifyProgram, Changing
<1>3. Founded(RedoCreate)
    <2> DEFINE tail == <<"up", "reload", "succeed", "clear">>
    <2>1. Founded(Withdraw)  BY WithdrawSteps DEF Founded, Withdraw
    <2>2. ASSUME NEW p \in Seq(Steps), p # <<>>, p[1] = "validate",
                 \A i \in 1..Len(p) : p[i] # "removeEnv"
          PROVE  Founded(p)
        <3>1. Len(p) \in Nat  BY <2>2
        <3>2. \A i \in 1..Len(p) : p[i] \in Changing => 1 \in 1..i - 1
            BY <2>2, <3>1 DEF Changing
        <3> QED  BY <2>2, <3>2 DEF Founded, Founds
    <2>3. /\ <<"validate">> \in Seq(Steps) /\ <<"validate", "sync">> \in Seq(Steps)
          /\ tail \in Seq(Steps)
        BY DEF Steps, OwnSteps
    <2>4. \A i \in 1..Len(tail) : tail[i] # "removeEnv"  OBVIOUS
    <2> HIDE DEF tail
    <2>5. ASSUME NEW p \in Seq(Steps), Len(p) \in {1, 2}, p[1] = "validate",
                 \A i \in 1..Len(p) : p[i] # "removeEnv"
          PROVE  Founded(p \o tail)
        <3>1. /\ p \o tail \in Seq(Steps) /\ Len(p \o tail) = Len(p) + Len(tail)
              /\ \A i \in 1..Len(p) : (p \o tail)[i] = p[i]
              /\ \A i \in Len(p) + 1..Len(p) + Len(tail) : (p \o tail)[i] = tail[i - Len(p)]
            BY <2>3, <2>5, AppendedProgram
        <3>2. Len(tail) \in Nat /\ Len(p) \in Nat  BY <2>3, <2>5
        <3>3. (p \o tail)[1] = "validate"  BY <2>5, <3>1, <3>2
        <3>4. \A i \in 1..Len(p \o tail) : (p \o tail)[i] # "removeEnv"
            <4>1. \A i \in 1..Len(p \o tail) : i \in 1..Len(p)
                    \/ (i \in Len(p) + 1..Len(p) + Len(tail) /\ i - Len(p) \in 1..Len(tail))
                BY <3>1, <3>2
            <4> QED  BY <2>4, <2>5, <3>1, <4>1
        <3>5. p \o tail # <<>>  BY <2>5, <3>1, <3>2
        <3> QED  BY <2>2, <3>1, <3>3, <3>4, <3>5
    <2>6. Founded(<<"validate">> \o tail)
        <3>1. /\ Len(<<"validate">>) = 1 /\ <<"validate">>[1] = "validate"
              /\ \A i \in 1..Len(<<"validate">>) : <<"validate">>[i] # "removeEnv"
            OBVIOUS
        <3> QED  BY <2>3, <2>5, <3>1
    <2>7. Founded(<<"validate", "sync">> \o tail)
        <3>1. /\ Len(<<"validate", "sync">>) = 2 /\ <<"validate", "sync">>[1] = "validate"
              /\ \A i \in 1..Len(<<"validate", "sync">>) :
                    <<"validate", "sync">>[i] # "removeEnv"
            OBVIOUS
        <3> QED  BY <2>3, <2>5, <3>1
    <2>8. RedoCreate \in {Withdraw, <<"validate">> \o tail, <<"validate", "sync">> \o tail}
        BY DEF RedoCreate, Withdraw, tail
    <2> QED  BY <2>1, <2>6, <2>7, <2>8
<1> QED  BY <1>1, <1>2, <1>3

NoCancel(p) == \A i \in 1..Len(p) : p[i] # "cancel"

LEMMA AppendedNoCancel ==
    ASSUME NEW p \in Seq(Steps), NEW q \in Seq(Steps), NoCancel(p), NoCancel(q)
    PROVE  p \o q \in Seq(Steps) /\ NoCancel(p \o q)
<1>1. /\ p \o q \in Seq(Steps) /\ Len(p \o q) = Len(p) + Len(q)
      /\ \A i \in 1..Len(p) : (p \o q)[i] = p[i]
      /\ \A i \in Len(p) + 1..Len(p) + Len(q) : (p \o q)[i] = q[i - Len(p)]
    BY AppendedProgram
<1>2. \A i \in 1..Len(p \o q) : i \in 1..Len(p)
          \/ (i \in Len(p) + 1..Len(p) + Len(q) /\ i - Len(p) \in 1..Len(q))
    BY <1>1
<1> QED  BY <1>1, <1>2 DEF NoCancel

\* A repair withdraws a create of which there is nothing, and nothing else.
LEMMA RepairWithdraws ==
    ASSUME NEW kind \in LinkedKinds
    PROVE  /\ NoCancel(VerifyProgram(kind))
           /\ \A i \in 1..Len(VerifyProgram(kind)) : VerifyProgram(kind)[i] # "journal"
           /\ IF kind = "create" /\ Nothing THEN RedoProgram(kind) = Withdraw
                                            ELSE NoCancel(RedoProgram(kind))
<1>1. /\ NoCancel(VerifyProgram(kind))
      /\ \A i \in 1..Len(VerifyProgram(kind)) : VerifyProgram(kind)[i] # "journal"
    <2>1. CASE kind = "create"  BY <2>1 DEF VerifyProgram, NoCancel
    <2>2. CASE kind = "close"   BY <2>2 DEF VerifyProgram, NoCancel
    <2>3. CASE kind = "reset"   BY <2>3 DEF VerifyProgram, NoCancel
    <2> QED  BY <2>1, <2>2, <2>3 DEF LinkedKinds
<1>2. CASE kind = "create" /\ Nothing
    BY <1>1, <1>2 DEF RedoProgram, RedoCreate, Nothing, Withdraw
<1>3. CASE kind = "create" /\ ~Nothing
    <2> DEFINE tail == <<"up", "reload", "succeed", "clear">>
    <2>1. tail \in Seq(Steps) /\ NoCancel(tail)  BY DEF NoCancel, Steps, OwnSteps
    <2>2. <<"validate">> \in Seq(Steps) /\ NoCancel(<<"validate">>)
        BY DEF NoCancel, Steps, OwnSteps
    <2>3. <<"validate", "sync">> \in Seq(Steps) /\ NoCancel(<<"validate", "sync">>)
        BY DEF NoCancel, Steps, OwnSteps
    <2> HIDE DEF tail
    <2>4. RedoProgram(kind) \in {<<"validate">> \o tail, <<"validate", "sync">> \o tail}
        BY <1>3 DEF RedoProgram, RedoCreate, Nothing, tail
    <2> QED  BY <1>1, <1>3, <2>1, <2>2, <2>3, <2>4, AppendedNoCancel
<1>4. CASE kind = "close"
    <2> DEFINE tail == <<"removeEntry", "reload", "succeed", "clear">>
               front == <<"validate", "down", "removeEnv">>
    <2>1. tail \in Seq(Steps) /\ NoCancel(tail)  BY DEF NoCancel, Steps, OwnSteps
    <2>2. front \in Seq(Steps) /\ NoCancel(front)  BY DEF NoCancel, Steps, OwnSteps
    <2>3. <<>> \in Seq(Steps) /\ NoCancel(<<>>)  BY DEF NoCancel
    <2> HIDE DEF tail, front
    <2>4. RedoProgram(kind) \in {<<>> \o tail, front \o tail}
        BY <1>4 DEF RedoProgram, RedoClose, tail, front
    <2> QED  BY <1>1, <1>4, <2>1, <2>2, <2>3, <2>4, AppendedNoCancel
<1>5. CASE kind = "reset"
    <2> DEFINE tail == <<"reconcile", "requireRepair", "stageDown", "down", "up",
                         "verifyRuntime", "reconcile", "clearRepair", "reload",
                         "verifyShared", "succeed", "clear">>
               front == <<"validate", "pull", "writeEnv">>
    <2>1. tail \in Seq(Steps) /\ NoCancel(tail)  BY DEF NoCancel, Steps, OwnSteps
    <2>2. front \in Seq(Steps) /\ NoCancel(front)  BY DEF NoCancel, Steps, OwnSteps
    <2>3. <<"stageEnv">> \in Seq(Steps) /\ NoCancel(<<"stageEnv">>)
        BY DEF NoCancel, Steps, OwnSteps
    <2>4. <<"validate">> \in Seq(Steps) /\ NoCancel(<<"validate">>)
        BY DEF NoCancel, Steps, OwnSteps
    <2> HIDE DEF tail, front
    <2>5. \A mid \in Seq(Steps) : NoCancel(mid) => NoCancel(front \o mid \o tail)
        BY <2>1, <2>2, AppendedNoCancel
    <2>6. RedoProgram(kind) \in {front \o <<"stageEnv">> \o tail,
                                 front \o <<"validate">> \o tail}
        BY <1>5 DEF RedoProgram, RedoReset, tail, front
    <2> QED  BY <1>1, <1>5, <2>3, <2>4, <2>5, <2>6
<1> QED  BY <1>2, <1>3, <1>4, <1>5 DEF LinkedKinds

\* What a step leaves of the env file.
LEMMA EnvAfter ==
    ASSUME NEW w \in World, NEW step, NEW target \in Envs, step # "removeEnv",
           NEW v \in Leaves(step, target, w) \cup {After(step, target, w)}
    PROVE  /\ v # w => step \in Changing
           /\ w.env # None => v.env # None
           /\ step = "createEnv" => v = w \/ v.env # None
<1>1. target # None  BY LifecycleAssumption
<1>2. /\ After(step, target, w) # w => step \in Changing
      /\ w.env # None => After(step, target, w).env # None
      /\ step = "createEnv" => After(step, target, w).env # None
    <2>1. CASE step \in {"createEnv", "writeEnv"}
        BY <1>1, <2>1 DEF After, World, Changing
    <2>2. CASE step \in {"removeEntry", "reload", "upsertEntry", "upStateless", "down"}
        BY <2>2 DEF After, World, Changing
    <2>3. CASE step \in {"sync", "reconcile", "requireRepair", "clearRepair"}
        BY <2>3 DEF After, World, Synced, SetRepair, Changing
    <2>4. CASE step \in {"up", "upAnyway"}  BY <2>4 DEF After, World, Changing
    <2>5. CASE step \notin {"createEnv", "writeEnv", "removeEntry", "reload", "upsertEntry",
                            "upStateless", "down", "sync", "reconcile", "requireRepair",
                            "clearRepair", "up", "upAnyway"}
        BY <2>5 DEF After
    <2> QED  BY <2>1, <2>2, <2>3, <2>4, <2>5
<1>3. /\ [w EXCEPT !.stack = w.env].env = w.env
      /\ [w EXCEPT !.stack = None].env = w.env
    BY DEF World
<1>4. CASE v = After(step, target, w)  BY <1>2, <1>4
<1>5. CASE v \in Leaves(step, target, w) /\ step = "createEnv"
    <2>1. v = w  BY <1>5 DEF Leaves
    <2> QED  BY <2>1
<1>6. CASE v \in Leaves(step, target, w) /\ step # "createEnv"
    <2>1. /\ v \in {w, [w EXCEPT !.stack = None], [w EXCEPT !.stack = w.env],
                    After(step, target, w)}
          /\ v # w => v = After(step, target, w) \/ step \in Changing
        BY <1>6 DEF Leaves, Changing
    <2> QED  BY <1>2, <1>3, <1>6, <2>1
<1> QED  BY <1>4, <1>5, <1>6

LEMMA StepsThatChange ==
    ASSUME NEW w, NEW step, NEW target,
           NEW v \in Leaves(step, target, w) \cup {After(step, target, w)}
    PROVE  v # w => step \in Changing
BY DEF Leaves, After, Changing

\* The journal on file names the request that is being worked on.
LEMMA SameCall ==
    ASSUME TypeInv, BooksInv, work # NoWork, work.call.op # NoOp, journal # NoJournal
    PROVE  journal.op = work.call.op /\ journal.kind = work.call.kind
<1>1. /\ IntentOf(journal) \in Calls /\ IntentOf(journal).op = journal.op
      /\ IntentOf(journal).kind = journal.kind
    BY DEF TypeInv, Requested, IntentOf
<1>2. journal.op = work.call.op  BY DEF BooksInv, Owned
<1>3. IntentOf(journal) = work.call
    BY <1>1, <1>2, WorkType, LifecycleAssumption
<1> QED  BY <1>1, <1>2, <1>3

\* Whoever is about to change the server has a journal, or has succeeded.
LEMMA ChangeIsJournalled ==
    ASSUME TypeInv, BooksInv, Clean, Running, NEW op \in Ops, op = work.call.op,
           Step \in Changing \/ PastBoundary
    PROVE  /\ work.prog # Withdraw
           /\ record[op] \in {"running", "recovery_required", "succeeded"}
           /\ record[op] \in Unfinished => Journalled(op) /\ deferred[op] \notin Refused
<1>1. /\ work # NoWork /\ work.phase = "run" /\ op # NoOp /\ work.call.op # NoOp
      /\ work.at \in 1..Len(work.prog) /\ work.at \in Nat /\ Len(work.prog) \in Nat
      /\ work.who \in {"worker", "caller", "repair", "settler"}
      /\ record[op] \in Statuses /\ record[op] # "none"
      /\ journal # NoJournal => Journalled(op)
    BY WorkType, WorkedOp, StepType, LifecycleAssumption
    DEF Running, Mutation, TypeInv, TypeOK, Journalled
<1>2. work.prog # Withdraw
    <2>1. ASSUME work.prog = Withdraw PROVE FALSE
        <3>1. Step \notin Changing  BY <1>1, <2>1, WithdrawSteps DEF Step
        <3>2. ~PastBoundary  BY <1>1, <2>1, WithdrawSteps DEF PastBoundary
        <3> QED  BY <3>1, <3>2
    <2> QED  BY <2>1
<1>3. CASE work.who = "worker"
    <2>1. /\ record[op] = "running" /\ deferred[op] = "none"
          /\ work.prog \in {CreateProgram, CloseProgram, ResetProgram}
        BY <1>1, <1>3 DEF BooksInv, Worked
    <2>2. JournalsFirst(work.prog)  BY <2>1, WorkerPrograms
    <2>3. \E i \in 1..work.at : work.prog[i] \in Changing
        BY <1>1, <1>3 DEF PastBoundary, Step, Changing
    <2>4. \E k \in 1..work.at - 1 : work.prog[k] = "journal"
        <3>1. PICK i \in 1..work.at : work.prog[i] \in Changing  BY <2>3
        <3>2. \E k \in 1..i - 1 : work.prog[k] = "journal"
            BY <1>1, <2>2, <3>1 DEF JournalsFirst
        <3> QED  BY <1>1, <3>1, <3>2
    <2>5. journal # NoJournal
        BY <1>1, <1>3, <2>4 DEF Clean, BeforeJournal
    <2> QED  BY <1>1, <1>2, <2>1, <2>5 DEF Refused
<1>4. CASE work.who = "caller"  BY <1>1, <1>4 DEF BooksInv, Owned
<1>5. CASE work.who = "repair"
    <2>1. Journalled(op)  BY <1>1, <1>5 DEF BooksInv, Worked
    <2>2. record[op] # "pending"  BY <2>1 DEF Clean, Deferring
    <2>3. record[op] \notin Refused /\ deferred[op] \notin Refused
        BY <1>1, <1>2, <2>1 DEF Clean, Withdrawn
    <2> QED  BY <1>1, <1>2, <2>1, <2>2, <2>3 DEF Statuses, Unfinished, Terminal, Refused
<1>6. CASE work.who = "settler"
    BY <1>1, <1>2, <1>6 DEF Clean, Withdrawing, Unfinished
<1> QED  BY <1>1, <1>3, <1>4, <1>5, <1>6

\* What a step, finished or not, does to the server and to who has changed it.
LEMMA StepChanges ==
    ASSUME TypeInv, BooksInv, Clean, Running,
           NEW w \in Leaves(Step, work.call.target, world)
                     \cup {After(Step, work.call.target, world)},
           world' \in {w, Marked(w)}, Touch, NEW op, op = work.call.op
    PROVE  /\ \A o \in touched' :
                /\ record[o] \in {"running", "recovery_required", "succeeded"}
                /\ record[o] \in Unfinished =>
                      Journalled(o) /\ deferred[o] \notin Refused
           /\ op \in Ops /\ work.prog = Withdraw => world' = world
           /\ op \in Ops /\ work.call.kind = "create" /\ Founded(work.prog)
                /\ (world.env # None \/ world' # world) => world'.env # None
           /\ \A o \in touched' : Journalled(o) /\ journal.kind = "create" =>
                world'.env # None
<1>1. /\ work # NoWork /\ op \in Ops \cup {NoOp} /\ work.call.op = op /\ world \in World
      /\ work.at \in 1..Len(work.prog) /\ work.at \in Nat /\ Len(work.prog) \in Nat
    BY WorkType, StepType DEF Running, TypeInv, TypeOK
<1>2. world' # world => Step \in Changing \/ PastBoundary
    BY StepsThatChange DEF Marked
<1>3. op \in Ops /\ world' # world =>
          /\ work.prog # Withdraw
          /\ record[op] \in {"running", "recovery_required", "succeeded"}
          /\ record[op] \in Unfinished => Journalled(op) /\ deferred[op] \notin Refused
    BY <1>1, <1>2, ChangeIsJournalled
<1>4. \A o \in touched' : o \in touched \/ (o = op /\ op \in Ops /\ world' # world)
    BY <1>1 DEF Touch
<1>5. \A o \in touched' :
          /\ record[o] \in {"running", "recovery_required", "succeeded"}
          /\ record[o] \in Unfinished => Journalled(o) /\ deferred[o] \notin Refused
    BY <1>3, <1>4 DEF Clean, TouchedIsKept
<1>6. ASSUME op \in Ops, work.call.kind = "create", Founded(work.prog),
             world.env # None \/ world' # world
      PROVE  world'.env # None
    <2>1. work.call.target \in Envs  BY <1>1, <1>6, WorkType, CallType
    <2>2. world' = w  BY <1>6 DEF Marked, PastBoundary
    <2>3. Step # "removeEnv"  BY <1>1, <1>6 DEF Founded, Step
    <2>4. /\ w # world => Step \in Changing
          /\ world.env # None => w.env # None
          /\ Step = "createEnv" => w = world \/ w.env # None
        BY <1>1, <2>1, <2>3, EnvAfter
    <2>5. Step \in Changing => Step = "createEnv" \/ world.env # None
        <3>1. Step \in Changing =>
                  Step = "createEnv" \/ \E k \in 1..work.at - 1 : Founds(work.prog[k])
            BY <1>1, <1>6 DEF Founded, Step
        <3>2. work.call.op # NoOp  BY <1>1, <1>6, LifecycleAssumption
        <3> QED  BY <1>6, <3>1, <3>2 DEF Clean, CreateStands
    <2> QED  BY <1>6, <2>2, <2>4, <2>5
<1>7. ASSUME NEW o \in touched', Journalled(o), journal.kind = "create"
      PROVE  world'.env # None
    <2>1. o \in Ops  BY <1>1, <1>4 DEF TypeInv, TypeOK
    <2>2. o = op /\ work.call.op # NoOp /\ work.call.kind = "create"
        BY <1>1, <1>7, <2>1, SameCall, LifecycleAssumption
        DEF Journalled, BooksInv, Owned
    <2>3. o \in touched => world.env # None  BY <1>7 DEF Clean, CreateStands
    <2>4. Founded(work.prog)  BY <2>2 DEF Clean, CreateStands
    <2> QED  BY <1>4, <1>6, <2>1, <2>2, <2>3, <2>4
<1> QED  BY <1>3, <1>5, <1>6, <1>7

\* A step on the server, or one that moves the journal on.
LEMMA StepClean ==
    ASSUME TypeInv, BooksInv, Clean, Running, Advance \/ Fail,
           Step \notin {"journal", "clear", "succeed", "cancel"},
           Step = "createEnv" => Advance,
           UNCHANGED <<record, deferred>>,
           journal' = NoJournal <=> journal = NoJournal,
           journal # NoJournal => journal'.op = journal.op /\ journal'.kind = journal.kind,
           NEW w \in Leaves(Step, work.call.target, world)
                     \cup {After(Step, work.call.target, world)},
           world' \in {w, Marked(w)}, Touch,
           Founds(Step) /\ work.call.kind = "create" => Fail \/ world'.env # None
    PROVE  Clean'
<1> PICK op : op = work.call.op
    OBVIOUS
<1>1. /\ work # NoWork /\ work.phase = "run" /\ op \in Ops \cup {NoOp}
      /\ op \in Ops <=> op # NoOp
      /\ work.at \in 1..Len(work.prog) /\ work.at \in Nat /\ Len(work.prog) \in Nat
      /\ work' # NoWork /\ work'.phase = "run" /\ work'.call = work.call
      /\ work'.who = work.who /\ work'.prog = work.prog /\ op = work.call.op
      /\ \/ work'.at = work.at + 1
         \/ work'.at = Len(work.prog) + 1
      /\ journal # NoJournal => journal.op = op
    BY WorkType, WorkedOp, StepType, NextStep, LifecycleAssumption DEF Running
<1>2. /\ \A o \in touched' :
           /\ record[o] \in {"running", "recovery_required", "succeeded"}
           /\ record[o] \in Unfinished => Journalled(o) /\ deferred[o] \notin Refused
      /\ op \in Ops /\ work.call.kind = "create" /\ Founded(work.prog)
           /\ (world.env # None \/ world' # world) => world'.env # None
      /\ \A o \in touched' : Journalled(o) /\ journal.kind = "create" => world'.env # None
    BY <1>1, StepChanges
<1>3. \A o : Journalled(o)' = Journalled(o)  BY DEF Journalled
<1>4. op \in Ops => work.prog # Withdraw
    BY <1>1, WithdrawSteps DEF Step
<1>5. TouchedIsKept' /\ Deferring'
    BY <1>2, <1>3 DEF Clean, TouchedIsKept, Deferring
<1>6. Withdrawn'
    <2>1. \A o \in Ops : Journalled(o) => record[o] \notin Refused /\ deferred[o] \notin Refused
        BY <1>1, <1>4, LifecycleAssumption DEF Clean, Withdrawn, Journalled
    <2> QED  BY <1>3, <2>1 DEF Withdrawn
<1>7. BeforeJournal'
    <2>1. ASSUME Running', work.who = "worker", op # NoOp
          PROVE  /\ journal = NoJournal => \A i \in 1..work'.at - 1 : work.prog[i] # "journal"
                 /\ work.prog[work'.at] # "createEnv"
        <3>1. work'.at = work.at + 1 /\ work'.at \in 1..Len(work.prog)
            BY <1>1, <2>1 DEF Running
        <3>2. \A i \in 1..work'.at - 1 : i \in 1..work.at - 1 \/ i = work.at
            BY <1>1, <3>1
        <3>3. journal = NoJournal => \A i \in 1..work.at - 1 : work.prog[i] # "journal"
            BY <1>1, <2>1 DEF Clean, BeforeJournal
        <3>4. JournalsFirst(work.prog)
            BY <1>1, <2>1, WorkerPrograms DEF BooksInv, Worked
        <3>5. work'.at - 1 = work.at  BY <1>1, <3>1
        <3> QED  BY <3>1, <3>2, <3>3, <3>4, <3>5 DEF JournalsFirst, Step
    <2> QED  BY <1>1, <2>1 DEF BeforeJournal, Step
<1>8. Withdrawing'
    <2>1. work'.at..Len(work.prog) \subseteq work.at..Len(work.prog)  BY <1>1
    <2>2. ASSUME op # NoOp, work.who \in {"repair", "settler"}
          PROVE  \A i \in 1..Len(work.prog) : work.prog[i] # "cancel"
        BY <1>1, <1>4, <2>2 DEF Clean, Withdrawing
    <2>3. ASSUME op # NoOp, work.who = "settler"
          PROVE  /\ record[op] = "succeeded"
                 /\ \A i \in work'.at..Len(work.prog) : work.prog[i] # "journal"
        BY <1>1, <1>4, <2>1, <2>3 DEF Clean, Withdrawing
    <2> QED  BY <1>1, <2>2, <2>3 DEF Withdrawing
<1>9. CreateStands'
    <2>1. ASSUME Running', op # NoOp, work.call.kind = "create"
          PROVE  /\ Founded(work.prog)
                 /\ (\E i \in 1..work'.at - 1 : Founds(work.prog[i])) => world'.env # None
        <3>1. Founded(work.prog) /\ op \in Ops
            BY <1>1, <2>1 DEF Clean, CreateStands
        <3>2. work'.at = work.at + 1 /\ work'.at \in 1..Len(work.prog)
            BY <1>1, <2>1 DEF Running
        <3>3. \A i \in 1..work'.at - 1 : i \in 1..work.at - 1 \/ i = work.at
            BY <1>1, <3>2
        <3>4. (\E i \in 1..work.at - 1 : Founds(work.prog[i])) => world.env # None
            BY <1>1, <2>1 DEF Clean, CreateStands
        <3>5. Founds(Step) => world'.env # None
            <4>1. Founds(Step) /\ Fail => work'.at = Len(work.prog) + 1
                BY <1>1, WorkType DEF Fail, Founds, Mutation
            <4> QED  BY <1>1, <2>1, <3>2, <4>1
        <3> QED  BY <1>2, <2>1, <3>1, <3>3, <3>4, <3>5 DEF Step
    <2>2. \A o \in touched' : Journalled(o)' /\ journal'.kind = "create" => world'.env # None
        BY <1>2, <1>3 DEF Journalled
    <2> QED  BY <1>1, <2>1, <2>2 DEF CreateStands
<1> QED  BY <1>5, <1>6, <1>7, <1>8, <1>9 DEF Clean

LEMMA WorldStepClean ==
    ASSUME TypeInv, BooksInv, Clean,
           StepDone \/ StepRefused \/ StepFails \/ \E ok \in BOOLEAN : AdvanceJournal(ok)
    PROVE  Clean'
<1>1. /\ Running /\ work # NoWork /\ UNCHANGED <<record, deferred>> /\ Touch
      /\ Step \notin {"journal", "clear", "succeed", "cancel"}
    BY DEF StepDone, StepRefused, StepFails, AdvanceJournal, Running, OwnSteps, books
<1>2. Founds(Step) => Step \notin {"stageEnv", "stageRegistry", "stageDown", "upAnyway"}
    BY DEF Founds
<1>3. world \in Leaves(Step, work.call.target, world)  BY DEF Leaves
<1>4. CASE StepDone
    <2>1. /\ Advance /\ UNCHANGED journal
          /\ world' = After(Step, work.call.target, world)
          /\ Accepts(Step, work.call.target, world)
        BY <1>4 DEF StepDone
    <2>2. Founds(Step) /\ work.call.kind = "create" => Fail \/ world'.env # None
        <3>1. CASE Step = "createEnv" /\ work.call.kind = "create"
            <4>1. work.call.target \in Envs /\ world \in World
                BY <1>1, <3>1, WorkType, CallType DEF TypeInv, TypeOK
            <4>2. world'.env = work.call.target
                BY <2>1, <3>1, <4>1 DEF After, World
            <4> QED  BY <4>1, <4>2, LifecycleAssumption
        <3>2. CASE Step = "validate"
            <4>1. world' = world /\ world.env # None
                BY <2>1, <3>2 DEF After, Accepts
            <4> QED  BY <4>1
        <3> QED  BY <3>1, <3>2 DEF Founds
    <2> QED  BY <1>1, <2>1, <2>2, StepClean
<1>5. CASE StepRefused
    <2>1. Fail /\ UNCHANGED journal /\ world' \in {world, Marked(world)}
        BY <1>5 DEF StepRefused
    <2>2. Step # "createEnv"
        BY <1>5 DEF StepRefused, Interrupted, Cancellable, Accepts
    <2> QED  BY <1>1, <1>3, <2>1, <2>2, StepClean
<1>6. CASE StepFails
    <2>1. /\ Fail /\ UNCHANGED journal /\ Step # "createEnv"
          /\ \E w \in Leaves(Step, work.call.target, world) : world' \in {w, Marked(w)}
        BY <1>6 DEF StepFails
    <2>2. PICK w \in Leaves(Step, work.call.target, world) : world' \in {w, Marked(w)}
        BY <2>1
    <2> QED  BY <1>1, <2>1, <2>2, StepClean
<1>7. ASSUME NEW ok \in BOOLEAN, AdvanceJournal(ok) PROVE Clean'
    <2> DEFINE new == [journal EXCEPT !.stage = StageOf(Step)]
    <2>1. /\ journal # NoJournal /\ journal \in Journal
          /\ Step \in {"stageEnv", "stageRegistry", "stageDown"}
          /\ journal' \in {journal, new} /\ (Advance \/ Fail)
          /\ world' \in {world, Marked(world)}
        BY <1>7 DEF AdvanceJournal, TypeInv, TypeOK
    <2>2. new \in Journal /\ new.op = journal.op /\ new.kind = journal.kind
        BY <2>1 DEF Journal, StageOf
    <2> HIDE DEF new
    <2>3. /\ journal' # NoJournal
          /\ journal'.op = journal.op /\ journal'.kind = journal.kind
        BY <2>1, <2>2, LifecycleAssumption
    <2> QED  BY <1>1, <1>2, <1>3, <2>1, <2>3, StepClean
<1> QED  BY <1>4, <1>5, <1>6, <1>7

\* Without a journal left, or with that of somebody who has changed nothing yet.
LEMMA JournalStepClean ==
    ASSUME TypeInv, BooksInv, Clean, Running, Advance \/ Fail,
           Step \in {"journal", "clear", "createEnv"}, Step = "createEnv" => Fail,
           UNCHANGED <<world, record, deferred, touched>>, NEW op, op = work.call.op,
           op \in Ops => op \notin touched \/ record[op] \notin Unfinished,
           \/ journal' = NoJournal /\ (Step = "journal" => Fail)
           \/ journal' = journal /\ Step # "journal"
           \/ /\ journal' # NoJournal /\ journal'.op = op /\ Step = "journal"
              /\ journal'.kind = work.call.kind
              /\ op \in Ops => /\ record[op] = "running" /\ deferred[op] = "none"
                               /\ op \notin touched
    PROVE  Clean'
<1>1. /\ work # NoWork /\ work.phase = "run" /\ op \in Ops \cup {NoOp}
      /\ op \in Ops <=> op # NoOp
      /\ work.at \in 1..Len(work.prog) /\ work.at \in Nat /\ Len(work.prog) \in Nat
      /\ work' # NoWork /\ work'.phase = "run" /\ work'.call = work.call
      /\ work'.who = work.who /\ work'.prog = work.prog /\ op = work.call.op
      /\ \/ work'.at = work.at + 1 /\ ~Fail
         \/ work'.at = Len(work.prog) + 1
      /\ journal # NoJournal => journal.op = op
    <2>1. Fail => work'.at = Len(work.prog) + 1
        BY WorkType DEF Fail, Mutation, Running
    <2> QED
        BY <2>1, WorkType, WorkedOp, StepType, NextStep, LifecycleAssumption DEF Running
<1>2. \A o \in Ops : o # op => ~Journalled(o) /\ ~Journalled(o)'
    BY <1>1 DEF Journalled
<1>3. TouchedIsKept'
    <2>1. ASSUME NEW o \in touched, o # op PROVE o \in Ops /\ record[o] \notin Unfinished
        BY <1>2, <2>1 DEF Clean, TouchedIsKept, TypeInv, TypeOK
    <2>2. op \in touched => record[op] \notin Unfinished
        BY DEF TypeInv, TypeOK
    <2> QED  BY <2>1, <2>2 DEF Clean, TouchedIsKept
<1>4. Deferring'
    <2>1. ASSUME op \in Ops, Journalled(op)' PROVE record[op] # "pending"
        BY <1>1, <2>1 DEF Clean, Deferring, Journalled
    <2> QED  BY <1>2, <2>1 DEF Clean, Deferring
<1>5. Withdrawn'
    <2>1. ASSUME op \in Ops, Journalled(op)', record[op] \in Refused \/ deferred[op] \in Refused
          PROVE  journal'.kind = "create" /\ Nothing /\ work.prog = Withdraw
        <3>1. journal' = journal
            BY <2>1 DEF Journalled, Refused
        <3> QED  BY <1>1, <2>1, <3>1 DEF Clean, Withdrawn, Journalled
    <2> QED  BY <1>1, <1>2, <2>1 DEF Withdrawn, Nothing
<1>6. BeforeJournal'
    <2>1. ASSUME Running', work.who = "worker", op # NoOp
          PROVE  journal' # NoJournal /\ op \notin touched
        <3>1. work'.at = work.at + 1 /\ ~Fail  BY <1>1, <2>1 DEF Running
        <3>2. JournalsFirst(work.prog)
            BY <1>1, <2>1, WorkerPrograms DEF BooksInv, Worked
        <3>3. Step = "journal"  BY <1>1, <3>1, <3>2 DEF JournalsFirst, Step
        <3> QED  BY <1>1, <2>1, <3>1, <3>3
    <2> QED  BY <1>1, <2>1 DEF BeforeJournal
<1>7. Withdrawing'
    <2>1. work'.at..Len(work.prog) \subseteq work.at..Len(work.prog)  BY <1>1
    <2>2. ASSUME op # NoOp, work.who \in {"repair", "settler"},
                 \E i \in 1..Len(work.prog) : work.prog[i] = "cancel"
          PROVE  /\ work.prog = Withdraw /\ work.call.kind = "create"
                 /\ op \notin touched /\ Nothing
        BY <1>1, <2>2 DEF Clean, Withdrawing
    <2>3. ASSUME op # NoOp, work.who = "settler"
          PROVE  /\ record[op] = "succeeded" \/ work.prog = Withdraw
                 /\ \A i \in work'.at..Len(work.prog) : work.prog[i] # "journal"
        BY <1>1, <2>1, <2>3 DEF Clean, Withdrawing
    <2> QED  BY <1>1, <2>2, <2>3 DEF Withdrawing, Nothing
<1>8. CreateStands'
    <2>1. ASSUME Running', op # NoOp, work.call.kind = "create"
          PROVE  /\ Founded(work.prog)
                 /\ (\E i \in 1..work'.at - 1 : Founds(work.prog[i])) => world.env # None
        <3>1. /\ Founded(work.prog)
              /\ (\E i \in 1..work.at - 1 : Founds(work.prog[i])) => world.env # None
            BY <1>1, <2>1 DEF Clean, CreateStands
        <3>2. work'.at = work.at + 1 /\ ~Fail  BY <1>1, <2>1 DEF Running
        <3>3. \A i \in 1..work'.at - 1 : i \in 1..work.at - 1 \/ i = work.at
            BY <1>1, <3>2
        <3>4. ~Founds(Step)  BY <3>2 DEF Founds
        <3> QED  BY <3>1, <3>3, <3>4 DEF Step
    <2>2. ASSUME NEW o \in touched, Journalled(o)', journal'.kind = "create"
          PROVE  world.env # None
        <3>1. o \in Ops /\ o = op  BY <1>2, <2>2 DEF TypeInv, TypeOK
        <3>2. journal' = journal  BY <2>2, <3>1 DEF Journalled
        <3> QED  BY <2>2, <3>2 DEF Clean, CreateStands, Journalled
    <2> QED  BY <1>1, <2>1, <2>2 DEF CreateStands
<1> QED  BY <1>3, <1>4, <1>5, <1>6, <1>7, <1>8 DEF Clean

LEMMA JournalClean ==
    ASSUME TypeInv, BooksInv, Clean,
           CreateEnvFails \/ \E ok \in BOOLEAN : WriteJournal(ok) \/ ClearStep(ok)
    PROVE  Clean'
<1> PICK op : op = work.call.op
    OBVIOUS
<1>1. /\ Running /\ work # NoWork /\ work.phase = "run" /\ op \in Ops \cup {NoOp}
      /\ op \in Ops <=> op # NoOp
      /\ UNCHANGED <<world, record, deferred, touched>>
      /\ work.at \in 1..Len(work.prog) /\ work.at \in work.at..Len(work.prog)
      /\ work.who \in {"worker", "caller", "repair", "settler"} /\ op = work.call.op
    <2>1. Running /\ UNCHANGED <<world, record, deferred, touched>>
        BY DEF CreateEnvFails, WriteJournal, ClearStep, books
    <2>2. work # NoWork  BY <2>1 DEF Running
    <2> QED
        BY <2>1, <2>2, WorkType, StepType, WorkedOp, LifecycleAssumption
        DEF Running, Mutation
<1>2. op \in Ops => work.who \in {"worker", "repair", "settler"}
    BY <1>1 DEF BooksInv, Owned
<1>3. op \in Ops /\ work.who = "settler" => record[op] \notin Unfinished /\ Step # "journal"
    BY <1>1, StatusesApart DEF BooksInv, Worked, Clean, Withdrawing, Step
<1>4. op \in Ops /\ work.who = "repair" => Step \notin {"createEnv", "journal", "clear"}
    <2>1. ASSUME op \in Ops, work.who = "repair" PROVE Step \notin {"createEnv", "journal", "clear"}
        <3>1. RecordsFirst(work)  BY <1>1, <2>1 DEF BooksInv, Worked
        <3>2. Step = "clear" => \E k \in work.at..work.at : Records(work.prog[k])
            BY <1>1, <3>1 DEF RecordsFirst, Step
        <3>3. \A k \in work.at..work.at : work.prog[k] = Step
            BY <1>1, WorkType DEF Step
        <3> QED  BY <1>1, <3>1, <3>2, <3>3 DEF RecordsFirst, Step, Records
    <2> QED  BY <2>1
<1>5. op \in Ops /\ work.who = "worker" => Step # "clear"
    <2>1. op \in Ops /\ work.who = "worker" => JournalsFirst(work.prog)
        BY <1>1, WorkerPrograms DEF BooksInv, Worked
    <2> QED  BY <1>1, <2>1 DEF JournalsFirst, Step
<1>6. op \in Ops /\ work.who = "worker" /\ Step = "createEnv" => op \notin touched
    BY <1>1 DEF Clean, BeforeJournal
<1>7. CASE CreateEnvFails
    <2>1. Step = "createEnv" /\ Fail /\ journal' \in {journal, NoJournal}
        BY <1>7 DEF CreateEnvFails, Clear
    <2>2. op \in Ops => op \notin touched \/ record[op] \notin Unfinished
        BY <1>2, <1>3, <1>4, <1>6, <2>1
    <2> QED  BY <1>1, <2>1, <2>2, JournalStepClean
<1>8. ASSUME NEW ok \in BOOLEAN, ClearStep(ok) PROVE Clean'
    <2>1. /\ Step = "clear" /\ (Advance \/ Fail) /\ journal' \in {journal, NoJournal}
        BY <1>8 DEF ClearStep, Clear
    <2>2. op \in Ops => op \notin touched \/ record[op] \notin Unfinished
        BY <1>2, <1>3, <1>4, <1>5, <2>1
    <2> QED  BY <1>1, <2>1, <2>2, JournalStepClean
<1>9. ASSUME NEW ok \in BOOLEAN, WriteJournal(ok) PROVE Clean'
    <2> DEFINE new == [op |-> work.call.op, kind |-> work.call.kind,
                       target |-> work.call.target, stage |-> "prepared"]
    <2>1. /\ Step = "journal" /\ journal = NoJournal
          /\ IF ok THEN journal' = new /\ Advance
                   ELSE journal' \in {NoJournal, new} /\ Fail
        BY <1>9 DEF WriteJournal
    <2>2. new \in Journal /\ new.op = op /\ new.kind = work.call.kind
        BY <1>1, WorkType DEF Journal
    <2>3. new # NoJournal  BY <2>2, LifecycleAssumption
    <2>4. op \in Ops => work.who = "worker"  BY <1>2, <1>3, <1>4, <2>1
    <2>5. op \in Ops => record[op] = "running" /\ deferred[op] = "none"
        BY <1>1, <2>4 DEF BooksInv, Worked
    <2>6. op \in Ops => op \notin touched
        BY <2>1, <2>5 DEF Clean, TouchedIsKept, Journalled, Unfinished
    <2> HIDE DEF new
    <2>7. \/ journal' = NoJournal /\ Fail
          \/ /\ journal' # NoJournal /\ journal'.op = op
             /\ journal'.kind = work.call.kind
        BY <2>1, <2>2, <2>3
    <2> QED  BY <1>1, <2>1, <2>5, <2>6, <2>7, JournalStepClean
<1> QED  BY <1>7, <1>8, <1>9

\* A repair that records its outcome.
LEMMA RecordRepairClean ==
    ASSUME TypeInv, BooksInv, Clean, NEW ok \in BOOLEAN, RecordRepair(ok)
    PROVE  Clean'
<1> PICK op : op = work.call.op
    OBVIOUS
<1> PICK status : status = IF Step = "succeed" THEN "succeeded" ELSE "cancelled"
    OBVIOUS
<1>1. /\ Running /\ work # NoWork /\ work \in Mutation /\ work.phase = "run"
      /\ work.at \in 1..Len(work.prog) /\ work.at \in Nat \ {0} /\ Len(work.prog) \in Nat
      /\ Step \in {"succeed", "cancel"} /\ op \in Ops \cup {NoOp} /\ op = work.call.op
      /\ op \in Ops <=> op # NoOp
      /\ journal # NoJournal => journal.op = op
    <2>1. Running /\ work # NoWork  BY DEF RecordRepair, Running
    <2> QED
        BY <2>1, WorkType, WorkedOp, StepType, LifecycleAssumption
        DEF RecordRepair, Running, Mutation
<1>2. UNCHANGED <<world, journal, touched>> /\ Transition(op, status, ok)
    BY DEF RecordRepair, history
<1>3. /\ work' # NoWork /\ work'.call = work.call /\ work'.phase = "run"
      /\ work'.prog = work.prog
      /\ IF ok THEN work'.who = "settler" /\ work'.at = work.at + 1
               ELSE work'.who = work.who /\ work'.at = Len(work.prog) + 1
    <2>1. CASE ok
        <3>1. work' = [work EXCEPT !.who = "settler", !.at = work.at + 1]
            BY <2>1 DEF RecordRepair
        <3>2. work.at + 1 \in Nat \ {0}  BY <1>1
        <3>3. work' \in Mutation  BY <1>1, <3>1, <3>2 DEF Mutation
        <3> QED  BY <1>1, <2>1, <3>1, <3>3, NoWorkIsNoWork DEF Mutation
    <2>2. CASE ~ok
        <3>1. Fail  BY <2>2 DEF RecordRepair
        <3>2. work'.at = Len(work.prog) + 1  BY <1>1, <3>1 DEF Fail, Mutation
        <3> QED  BY <1>1, <2>2, <3>1, <3>2, NextStep
    <2> QED  BY <2>1, <2>2
<1>4. \A o \in Ops : o # op => ~Journalled(o)
    BY <1>1 DEF Journalled
<1>5. CASE op = NoOp
    <2>1. UNCHANGED <<record, deferred>>  BY <1>2, <1>5, NoTransition
    <2>2. TouchedIsKept' /\ Deferring'
        BY <1>2, <2>1 DEF Clean, TouchedIsKept, Deferring, Journalled
    <2>3. Withdrawn'  BY <1>1, <1>2, <1>4, <1>5 DEF Withdrawn, Journalled
    <2>4. BeforeJournal' /\ Withdrawing'
        BY <1>1, <1>3, <1>5 DEF BeforeJournal, Withdrawing
    <2>5. CreateStands'
        BY <1>1, <1>2, <1>3, <1>5 DEF Clean, CreateStands, Journalled
    <2> QED  BY <2>2, <2>3, <2>4, <2>5 DEF Clean
<1>6. CASE op \in Ops
    <2>1. status \in Statuses /\ status \in {"succeeded", "cancelled"}
        BY <1>1 DEF Statuses, Terminal
    <2>2. /\ \A o \in Ops : o # op => record'[o] = record[o] /\ deferred'[o] = deferred[o]
          /\ \/ /\ record[op] \in Terminal /\ ok = (record[op] = status)
                /\ record'[op] = record[op] /\ deferred'[op] = deferred[op]
             \/ /\ record[op] \in Unfinished /\ ok
                /\ record'[op] = status /\ deferred'[op] = "none"
             \/ /\ record[op] \in Unfinished /\ ~ok
                /\ record'[op] = record[op] /\ deferred'[op] = status
        BY <1>2, <1>6, <2>1, TransitionEffect DEF Unfinished
    <2>3. work.who \in {"repair", "settler"}
        <3>1. work.who = "caller" => FALSE
            BY <1>1, <1>6 DEF BooksInv, Owned
        <3>2. work.who = "worker" => FALSE
            BY <1>1, <1>6, WorkerRecordsNothing DEF BooksInv, Worked, Step, Records
        <3> QED  BY <1>1, <3>1, <3>2 DEF Mutation
    <2>4. status = "cancelled" =>
              /\ work.prog = Withdraw /\ work.call.kind = "create" /\ op \notin touched
              /\ Nothing
        BY <1>1, <1>6, <2>3 DEF Clean, Withdrawing, Step
    <2>5. TouchedIsKept'
        <3>1. ASSUME NEW o \in touched, o # op
              PROVE  /\ record'[o] \in {"running", "recovery_required", "succeeded"}
                     /\ record'[o] \in Unfinished =>
                           Journalled(o)' /\ deferred'[o] \notin Refused
            BY <1>2, <2>2, <3>1 DEF Clean, TouchedIsKept, Journalled, TypeInv, TypeOK
        <3>2. ASSUME op \in touched
              PROVE  /\ record'[op] \in {"running", "recovery_required", "succeeded"}
                     /\ record'[op] \in Unfinished =>
                           Journalled(op)' /\ deferred'[op] \notin Refused
            BY <1>2, <2>1, <2>2, <2>4, <3>2, StatusesApart
            DEF Clean, TouchedIsKept, Journalled, Refused
        <3> QED  BY <1>2, <3>1, <3>2 DEF TouchedIsKept
    <2>6. Deferring'
        <3>1. ASSUME NEW o \in Ops, o # op
              PROVE  /\ deferred'[o] # "pending"
                     /\ record'[o] \in Terminal => deferred'[o] = "none"
                     /\ Journalled(o)' => record'[o] # "pending"
            BY <1>2, <2>2, <3>1 DEF Clean, Deferring, Journalled
        <3>2. /\ deferred'[op] # "pending"
              /\ record'[op] \in Terminal => deferred'[op] = "none"
              /\ Journalled(op)' => record'[op] # "pending"
            BY <1>2, <1>6, <2>1, <2>2, StatusesApart DEF Clean, Deferring, Journalled
        <3> QED  BY <3>1, <3>2 DEF Deferring
    <2>7. Withdrawn'
        <3>1. ASSUME Journalled(op)', record'[op] \in Refused \/ deferred'[op] \in Refused
              PROVE  journal'.kind = "create" /\ Nothing' /\ work.prog = Withdraw
            <4>1. CASE status = "cancelled"
                BY <1>1, <1>2, <1>6, <2>4, <3>1, <4>1, SameCall DEF Journalled, Nothing
            <4>2. CASE status = "succeeded"
                <5>1. Journalled(op) /\ (record[op] \in Refused \/ deferred[op] \in Refused)
                    BY <1>2, <2>2, <3>1, <4>2 DEF Journalled, Refused
                <5> QED  BY <1>1, <1>2, <1>6, <5>1 DEF Clean, Withdrawn, Nothing
            <4> QED  BY <2>1, <4>1, <4>2
        <3>2. \A o \in Ops : o # op => ~Journalled(o)'
            BY <1>2, <1>4 DEF Journalled
        <3> QED  BY <1>3, <3>1, <3>2 DEF Withdrawn
    <2>8. BeforeJournal'  BY <1>3, <2>3 DEF BeforeJournal
    <2>9. Withdrawing'
        <3>1. work'.at..Len(work.prog) \subseteq work.at..Len(work.prog)  BY <1>1, <1>3
        <3>2. \A i \in work.at..Len(work.prog) : work.prog[i] # "journal"
            BY <1>1, <1>6, <2>3 DEF BooksInv, Worked, RecordsFirst, Clean, Withdrawing
        <3>3. (\E i \in 1..Len(work.prog) : work.prog[i] = "cancel") =>
                /\ work.prog = Withdraw /\ work.call.kind = "create"
                /\ op \notin touched /\ Nothing
            BY <1>1, <1>6, <2>3 DEF Clean, Withdrawing
        <3>4. ok => record'[op] = status
            BY <2>2
        <3>5. ok \/ work.who = "settler" =>
                  record'[op] = "succeeded" \/ work.prog = Withdraw
            BY <1>1, <1>6, <2>1, <2>2, <2>4, <3>4, StatusesApart
            DEF Clean, Withdrawing, Terminal
        <3> QED  BY <1>1, <1>2, <1>3, <3>1, <3>2, <3>3, <3>5 DEF Withdrawing, Nothing
    <2>10. CreateStands'
        <3>1. \A i \in 1..work.at : Founds(work.prog[i]) => i \in 1..work.at - 1
            BY <1>1 DEF Founds, Step
        <3>2. \A o \in touched : Journalled(o) /\ journal.kind = "create" => world.env # None
            BY DEF Clean, CreateStands
        <3>3. ASSUME Running', work.call.kind = "create"
              PROVE  /\ Founded(work.prog)
                     /\ (\E i \in 1..work'.at - 1 : Founds(work.prog[i])) => world.env # None
            <4>1. work'.at - 1 = work.at  BY <1>1, <1>3, <3>3 DEF Running
            <4> QED  BY <1>1, <1>6, <3>1, <3>3, <4>1 DEF Clean, CreateStands
        <3> QED  BY <1>2, <1>3, <3>2, <3>3 DEF CreateStands, Journalled
    <2> QED  BY <2>5, <2>6, <2>7, <2>8, <2>9, <2>10 DEF Clean
<1> QED  BY <1>1, <1>5, <1>6

\* What ends the work at hand, or its program.
LEMMA EndClean ==
    ASSUME TypeInv, BooksInv, Clean, work # NoWork, NEW op, op = work.call.op,
           \/ work' = NoWork
           \/ /\ work' # NoWork /\ work'.phase \notin {"run", "start"}
              /\ work'.who = "worker" /\ work'.call = work.call,
           UNCHANGED <<world, touched>>, journal' \in {journal, NoJournal},
           \A o \in Ops : o # op => record'[o] = record[o] /\ deferred'[o] = deferred[o],
           op \in Ops =>
               /\ deferred'[op] # "pending"
               /\ record'[op] \in Terminal => deferred'[op] = "none"
               /\ journal' # NoJournal => record'[op] # "pending"
               /\ op \in touched =>
                    /\ record'[op] \in {"running", "recovery_required", "succeeded"}
                    /\ record'[op] \in Unfinished =>
                          journal' # NoJournal /\ deferred'[op] \notin Refused
               /\ journal' # NoJournal /\ (record'[op] \in Refused \/ deferred'[op] \in Refused) =>
                    /\ work' = NoWork
                    /\ record[op] \in Refused \/ deferred[op] \in Refused
    PROVE  Clean'
<1>1. \A o \in Ops : Journalled(o) => o = op /\ journal # NoJournal
    BY DEF BooksInv, Owned, Journalled
<1>2. op \in Ops /\ journal # NoJournal => Journalled(op)
    BY DEF BooksInv, Owned, Journalled
<1>3. \A o \in Ops : Journalled(o)' => o = op /\ journal' = journal
    BY <1>1 DEF Journalled
<1>4. TouchedIsKept'
    <2>1. ASSUME NEW o \in touched, o # op
          PROVE  record'[o] = "succeeded"
        <3>1. o \in Ops /\ ~Journalled(o)  BY <1>1, <2>1 DEF TypeInv, TypeOK
        <3> QED  BY <2>1, <3>1 DEF Clean, TouchedIsKept, Unfinished
    <2>2. ASSUME op \in touched
          PROVE  /\ record'[op] \in {"running", "recovery_required", "succeeded"}
                 /\ record'[op] \in Unfinished =>
                       Journalled(op)' /\ deferred'[op] \notin Refused
        <3>1. op \in Ops  BY <2>2 DEF TypeInv, TypeOK
        <3> QED  BY <1>2, <2>2, <3>1 DEF Journalled
    <2>3. touched' = touched  OBVIOUS
    <2> QED  BY <2>1, <2>2, <2>3 DEF TouchedIsKept, Unfinished
<1>5. Deferring'
    <2>1. ASSUME NEW o \in Ops, o # op
          PROVE  /\ deferred'[o] # "pending"
                 /\ record'[o] \in Terminal => deferred'[o] = "none"
                 /\ ~Journalled(o)'
        BY <1>3, <2>1 DEF Clean, Deferring
    <2>2. op \in Ops => /\ deferred'[op] # "pending"
                        /\ record'[op] \in Terminal => deferred'[op] = "none"
                        /\ Journalled(op)' => record'[op] # "pending"
        BY DEF Journalled
    <2> QED  BY <2>1, <2>2 DEF Deferring
<1>6. Withdrawn'
    <2>1. ASSUME op \in Ops, Journalled(op)', record'[op] \in Refused \/ deferred'[op] \in Refused
          PROVE  journal'.kind = "create" /\ Nothing' /\ work' = NoWork
        <3>1. work' = NoWork /\ (record[op] \in Refused \/ deferred[op] \in Refused)
            BY <2>1 DEF Journalled
        <3>2. Journalled(op) /\ journal' = journal  BY <1>2, <1>3, <2>1 DEF Journalled
        <3> QED  BY <2>1, <3>1, <3>2 DEF Clean, Withdrawn, Nothing
    <2> QED  BY <1>3, <2>1 DEF Withdrawn
<1>7. BeforeJournal' /\ Withdrawing'  BY DEF BeforeJournal, Withdrawing, Running
<1>8. CreateStands'
    <2>1. \A o \in touched : Journalled(o)' => Journalled(o) /\ journal' = journal
        BY <1>3 DEF Journalled, TypeInv, TypeOK
    <2>2. ~Running'  BY DEF Running
    <2>3. UNCHANGED <<world, touched>>  OBVIOUS
    <2> QED  BY <2>1, <2>2, <2>3 DEF Clean, CreateStands
<1> QED  BY <1>4, <1>5, <1>6, <1>7, <1>8 DEF Clean

\* Nothing changes on the books of the operation whose work ends.
LEMMA QuietEndClean ==
    ASSUME TypeInv, BooksInv, Clean, work # NoWork, NEW op, op = work.call.op,
           \/ work' = NoWork
           \/ /\ work' # NoWork /\ work'.phase \notin {"run", "start"}
              /\ work'.who = "worker" /\ work'.call = work.call
              /\ op \in Ops => record[op] = "succeeded",
           UNCHANGED <<world, touched, record, deferred>>,
           \/ journal' = journal
           \/ journal' = NoJournal /\ (op \in Ops => record[op] = "succeeded")
    PROVE  Clean'
<1>1. op \in Ops =>
        /\ deferred[op] # "pending"
        /\ record[op] \in Terminal => deferred[op] = "none"
        /\ journal # NoJournal => Journalled(op) /\ record[op] # "pending"
    BY DEF Clean, Deferring, BooksInv, Owned, Journalled
<1>2. op \in touched =>
        /\ record[op] \in {"running", "recovery_required", "succeeded"}
        /\ record[op] \in Unfinished => journal # NoJournal /\ deferred[op] \notin Refused
    BY DEF Clean, TouchedIsKept, Journalled
<1>3. record[op] = "succeeded" =>
          record[op] \notin Unfinished /\ record[op] \notin Refused /\ record[op] \in Terminal
    BY DEF Unfinished, Refused, Terminal
<1>4. "none" \notin Refused  BY DEF Refused
<1> QED  BY <1>1, <1>2, <1>3, <1>4, EndClean

LEMMA EndingClean ==
    ASSUME TypeInv, BooksInv, Clean,
           \/ FinishJob \/ Return
           \/ \E ok \in BOOLEAN : \/ RejectStarted(ok) \/ RecordResult(ok)
                                  \/ SettleJournal(ok) \/ RepairFails(ok)
    PROVE  Clean'
<1> PICK op : op = work.call.op
    OBVIOUS
<1>1. /\ work # NoWork /\ work \in Mutation /\ op \in Ops \cup {NoOp} /\ op = work.call.op
      /\ op \in Ops <=> op # NoOp
      /\ journal # NoJournal => journal.op = op
    <2>1. work # NoWork
        BY DEF FinishJob, Return, RejectStarted, RecordResult, SettleJournal, RepairFails, Ended
    <2> QED  BY <2>1, WorkedOp, LifecycleAssumption
<1>2. CASE FinishJob \/ Return
    <2>1. work' = NoWork /\ UNCHANGED <<world, touched, record, deferred, journal>>
        BY <1>2 DEF FinishJob, Return, books, history
    <2> QED  BY <1>1, <2>1, QuietEndClean
<1>3. ASSUME NEW ok \in BOOLEAN, SettleJournal(ok) PROVE Clean'
    <2>1. work.phase = "settle" /\ work.who = "worker"
        BY <1>1, <1>3 DEF SettleJournal, BooksInv, Owned
    <2>2. op \in Ops => record[op] = "succeeded"
        BY <1>1, <2>1 DEF BooksInv, Worked
    <2>3. /\ journal' \in {journal, NoJournal} /\ UNCHANGED <<world, touched, record, deferred>>
        BY <1>3, ClearType DEF SettleJournal, books
    <2>4. /\ work' # NoWork /\ work'.call = work.call /\ work'.who = "worker"
          /\ work'.phase = "finish"
        <3>1. work' = [work EXCEPT !.phase = "finish"]  BY <1>3 DEF SettleJournal
        <3>2. work' \in Mutation  BY <1>1, <3>1 DEF Mutation
        <3> QED  BY <1>1, <2>1, <3>1, <3>2, NoWorkIsNoWork DEF Mutation
    <2> QED  BY <1>1, <2>2, <2>3, <2>4, QuietEndClean
<1>4. ASSUME NEW ok \in BOOLEAN, RejectStarted(ok) PROVE Clean'
    <2>1. /\ work' = NoWork /\ UNCHANGED <<world, touched, journal>>
          /\ Transition(op, "failed", ok) /\ work.phase = "reject"
        BY <1>4 DEF RejectStarted, history
    <2>2. journal = NoJournal  BY <1>1, <2>1 DEF BooksInv, Owned
    <2>3. CASE op = NoOp
        <3>1. UNCHANGED <<record, deferred>>  BY <2>1, <2>3, NoTransition
        <3> QED  BY <1>1, <2>1, <3>1, QuietEndClean
    <2>4. CASE op \in Ops
        <3>1. record[op] \in {"pending", "running"}
            BY <1>1, <2>1, <2>4 DEF BooksInv, Worked
        <3>2. op \notin touched
            BY <2>2, <3>1 DEF Clean, TouchedIsKept, Journalled, Unfinished
        <3>3. /\ \A o \in Ops : o # op => record'[o] = record[o] /\ deferred'[o] = deferred[o]
              /\ \/ record'[op] = "failed" /\ deferred'[op] = "none"
                 \/ record'[op] = record[op] /\ deferred'[op] = "failed"
            BY <2>1, <2>4, <3>1, TransitionEffect DEF Statuses, Terminal
        <3> QED  BY <1>1, <2>1, <2>2, <3>1, <3>2, <3>3, EndClean DEF Terminal
    <2> QED  BY <1>1, <2>3, <2>4
<1>5. ASSUME NEW ok \in BOOLEAN, RepairFails(ok) PROVE Clean'
    <2>1. /\ work' = NoWork /\ UNCHANGED <<world, touched, journal>>
          /\ Transition(op, "recovery_required", ok) /\ op \in Ops
        BY <1>1, <1>5 DEF RepairFails, history
    <2>2. /\ \A o \in Ops : o # op => record'[o] = record[o] /\ deferred'[o] = deferred[o]
          /\ \/ record'[op] = record[op] /\ deferred'[op] = deferred[op]
             \/ record'[op] = "recovery_required" /\ deferred'[op] = "none"
             \/ /\ record[op] \in Unfinished
                /\ record'[op] = record[op] /\ deferred'[op] = "recovery_required"
        <3>1. "recovery_required" \in Statuses  BY DEF Statuses, Unfinished
        <3> QED  BY <2>1, <3>1, TransitionEffect
    <2>3. /\ deferred[op] # "pending"
          /\ record[op] \in Terminal => deferred[op] = "none"
          /\ journal # NoJournal => Journalled(op) /\ record[op] # "pending"
        BY <1>1, <2>1 DEF Clean, Deferring, Journalled
    <2>4. op \in touched =>
            /\ record[op] \in {"running", "recovery_required", "succeeded"}
            /\ record[op] \in Unfinished => journal # NoJournal /\ deferred[op] \notin Refused
        BY DEF Clean, TouchedIsKept, Journalled
    <2>5. op \in touched /\ record'[op] \in Unfinished =>
              journal' # NoJournal /\ deferred'[op] \notin Refused
        <3>1. ASSUME op \in touched, record'[op] \in Unfinished, record[op] \notin Unfinished
              PROVE  FALSE
            BY <2>1, <2>2, <2>4, <3>1, TransitionEffect, StatusesApart
            DEF Statuses, Unfinished
        <3> QED  BY <2>1, <2>2, <2>4, <3>1 DEF Refused
    <2>6. record'[op] \in Terminal => deferred'[op] = "none"
        BY <2>2, <2>3, StatusesApart DEF Terminal
    <2> QED  BY <1>1, <2>1, <2>2, <2>3, <2>4, <2>5, <2>6, EndClean DEF Refused
<1>6. ASSUME NEW ok \in BOOLEAN, RecordResult(ok) PROVE Clean'
    <2> PICK outcome : outcome = Outcome
        OBVIOUS
    <2>1. /\ work.phase = "run" /\ work.who = "worker"
          /\ op \in Ops => record[op] = "running" /\ deferred[op] = "none"
        BY <1>1, <1>6 DEF RecordResult, Ended, BooksInv, Worked
    <2>2. /\ outcome \in {"succeeded", "recovery_required", "cancelled", "failed"}
          /\ journal # NoJournal => outcome \in {"succeeded", "recovery_required"}
        BY DEF Outcome
    <2>3. UNCHANGED <<world, touched, journal>> /\ Transition(op, outcome, ok)
        BY <1>6 DEF RecordResult, history
    <2>4. /\ \A o \in Ops : o # op => record'[o] = record[o] /\ deferred'[o] = deferred[o]
          /\ op \in Ops => \/ record'[op] = outcome /\ deferred'[op] = "none"
                           \/ record'[op] = "running" /\ deferred'[op] = outcome
        <3>1. CASE op = NoOp  BY <1>1, <2>3, <3>1, NoTransition
        <3>2. CASE op \in Ops
            <4>1. outcome \in Statuses  BY <2>2 DEF Statuses, Terminal, Unfinished
            <4> QED  BY <2>1, <2>3, <3>2, <4>1, TransitionEffect DEF Terminal, Unfinished
        <3> QED  BY <1>1, <3>1, <3>2
    <2>5. /\ work' # NoWork /\ work'.call = work.call /\ work'.who = "worker"
          /\ work'.phase \in {"settle", "finish"}
        <3>1. work' = [work EXCEPT !.result = IF ok THEN outcome ELSE "failed",
                         !.phase = IF ok /\ outcome = "succeeded" THEN "settle" ELSE "finish"]
            BY <1>6 DEF RecordResult
        <3>2. work' \in Mutation
            BY <1>1, <2>2, <3>1 DEF Mutation, Statuses, Terminal, Unfinished
        <3> QED  BY <1>1, <2>1, <3>1, <3>2, NoWorkIsNoWork DEF Mutation
    <2>6. op \in touched /\ op \in Ops => journal # NoJournal
        BY <2>1 DEF Clean, TouchedIsKept, Journalled, Unfinished
    <2>7. op \in Ops =>
            /\ deferred'[op] # "pending" /\ record'[op] # "pending"
            /\ record'[op] \in Terminal => deferred'[op] = "none"
            /\ journal # NoJournal =>
                 /\ record'[op] \in {"running", "recovery_required", "succeeded"}
                 /\ deferred'[op] \notin Refused
        BY <2>2, <2>4 DEF Terminal, Refused
    <2>8. \A s \in {"running", "recovery_required", "succeeded"} : s \notin Refused
        BY DEF Refused
    <2> QED  BY <1>1, <2>3, <2>4, <2>5, <2>6, <2>7, <2>8, EndClean
<1> QED  BY <1>2, <1>3, <1>4, <1>5, <1>6

\* A preparation is of an operation that has done nothing.
LEMMA PreparationClean ==
    ASSUME TypeInv, BooksInv, Clean, NEW op,
           UNCHANGED <<world, journal, work, touched>>,
           \A o \in Ops : o # op => record'[o] = record[o] /\ deferred'[o] = deferred[o],
           op \in Ops =>
               /\ record[op] \in {"none", "pending"} /\ ~Journalled(op)
               /\ work # NoWork => work.call.op # op
               /\ deferred'[op] # "pending"
               /\ record'[op] \in Terminal => deferred'[op] = "none"
    PROVE  Clean'
<1>1. op \in Ops => op \notin touched
    BY DEF Clean, TouchedIsKept
<1>2. \A o : Journalled(o)' = Journalled(o)  BY DEF Journalled
<1>3. TouchedIsKept'
    BY <1>1, <1>2 DEF Clean, TouchedIsKept, TypeInv, TypeOK
<1>4. Deferring'  BY <1>2 DEF Clean, Deferring
<1>5. Withdrawn'
    BY <1>2 DEF Clean, Withdrawn, Nothing
<1>6. Withdrawing'
    <2>1. work # NoWork /\ work.call.op # NoOp =>
              record'[work.call.op] = record[work.call.op]
        BY WorkType
    <2> QED  BY <2>1 DEF Clean, Withdrawing, Nothing
<1>7. BeforeJournal' /\ CreateStands'
    BY <1>2 DEF Clean, BeforeJournal, CreateStands, Running, Step
<1> QED  BY <1>3, <1>4, <1>5, <1>6, <1>7 DEF Clean

LEMMA PreparingClean ==
    ASSUME TypeInv, BooksInv, Clean,
           \/ (\E c \in Calls : Prepare(c)) \/ ReserveJob
           \/ \E ok \in BOOLEAN : ReserveRecord(ok) \/ Reject(ok) \/ PromoteRefused(ok)
    PROVE  Clean'
<1> PICK op : op = prep.call.op
    OBVIOUS
<1>1. CASE (\E c \in Calls : Prepare(c)) \/ ReserveJob
    <2>1. UNCHANGED <<world, journal, work, touched, record, deferred>> /\ NoOp \notin Ops
        BY <1>1, LifecycleAssumption DEF Prepare, ReserveJob, books, history
    <2> QED  BY <2>1, PreparationClean
<1>2. ASSUME NEW ok \in BOOLEAN, ReserveRecord(ok) \/ Reject(ok) \/ PromoteRefused(ok)
      PROVE  Clean'
    <2>1. /\ prep # NoWork /\ op \in Ops \cup {NoOp} /\ op = prep.call.op
          /\ op \in Ops => /\ op # NoOp /\ record[op] \in {"none", "pending"}
                           /\ deferred[op] = "none"
                           /\ work # NoWork => work.call.op # op
                           /\ ~Journalled(op)
        <3>1. prep # NoWork  BY <1>2 DEF ReserveRecord, Reject, PromoteRefused
        <3> QED  BY <3>1, PreparedOp
    <2>2. UNCHANGED <<world, journal, work, touched>>
        BY <1>2 DEF ReserveRecord, Reject, PromoteRefused, history
    <2>3. CASE ReserveRecord(ok)
        <3>1. prep.phase = "record"  BY <2>3 DEF ReserveRecord
        <3>2. op \in Ops  BY <2>1, <3>1, PreparedOp
        <3>3. /\ \A o \in Ops : o # op => record'[o] = record[o] /\ deferred'[o] = deferred[o]
              /\ deferred' = deferred
            BY <2>1, <2>3 DEF ReserveRecord, TypeInv, TypeOK
        <3> QED  BY <2>1, <2>2, <3>2, <3>3, PreparationClean
    <2>4. ASSUME NEW status \in {"failed", "cancelled"}, Transition(op, status, ok)
          PROVE  Clean'
        <3>1. CASE op = NoOp
            <4>1. UNCHANGED <<record, deferred>> /\ op \notin Ops
                BY <2>4, <3>1, NoTransition, LifecycleAssumption
            <4> QED  BY <2>2, <4>1, PreparationClean
        <3>2. CASE op \in Ops
            <4>1. status \in Statuses  BY DEF Statuses, Terminal
            <4>2. record[op] \notin Terminal  BY <2>1, <3>2 DEF Terminal
            <4>3. /\ \A o \in Ops : o # op =>
                        record'[o] = record[o] /\ deferred'[o] = deferred[o]
                  /\ \/ deferred'[op] = "none"
                     \/ record'[op] = record[op] /\ deferred'[op] = status
                BY <2>4, <3>2, <4>1, <4>2, TransitionEffect
            <4> QED  BY <2>1, <2>2, <3>2, <4>2, <4>3, PreparationClean
        <3> QED  BY <2>1, <3>1, <3>2
    <2>5. CASE PromoteRefused(ok) /\ ~Transition(op, "cancelled", ok)
        <3>1. /\ op \in Ops /\ record' = [record EXCEPT ![op] = "failed"]
              /\ deferred' = [deferred EXCEPT ![op] = "none"]
            BY <2>1, <2>5 DEF PromoteRefused
        <3>2. /\ \A o \in Ops : o # op => record'[o] = record[o] /\ deferred'[o] = deferred[o]
              /\ deferred'[op] = "none"
            BY <3>1 DEF TypeInv, TypeOK
        <3> QED  BY <2>1, <2>2, <3>1, <3>2, PreparationClean
    <2> QED  BY <1>2, <2>1, <2>3, <2>4, <2>5 DEF Reject
<1> QED  BY <1>1, <1>2

\* Work begins without a journal.
LEMMA BeginningClean ==
    ASSUME TypeInv, BooksInv, Clean, Promote \/ \E c \in Calls : Begin(c)
    PROVE  Clean'
<1>1. /\ journal = NoJournal /\ journal' = NoJournal
      /\ UNCHANGED <<world, record, deferred, touched>>
    BY DEF Promote, Begin, JournalCloses, books, history
<1>2. \/ work'.who = "worker" /\ work'.phase = "start" /\ work'.at = 1
      \/ work'.who = "caller" /\ work'.phase = "run" /\ work'.call.op = NoOp
    <2>1. ASSUME NEW c \in Calls, Begin(c)
          PROVE  work'.who = "caller" /\ work'.phase = "run" /\ work'.call.op = NoOp
        <3>1. c.op = NoOp  BY <2>1, CallType DEF Begin, LinkedKinds
        <3> QED  BY <2>1, <3>1 DEF Begin
    <2> QED  BY <2>1 DEF Promote
<1>3. \A o : ~Journalled(o) /\ ~Journalled(o)'  BY <1>1 DEF Journalled
<1>4. TouchedIsKept' /\ Deferring' /\ Withdrawn'
    BY <1>1, <1>3 DEF Clean, TouchedIsKept, Deferring, Withdrawn
<1>5. BeforeJournal' /\ Withdrawing'
    BY <1>2 DEF BeforeJournal, Withdrawing, Running
<1>6. CreateStands'
    BY <1>2, <1>3 DEF CreateStands, Running
<1> QED  BY <1>4, <1>5, <1>6 DEF Clean

LEMMA StartClean ==
    ASSUME TypeInv, BooksInv, Clean, NEW ok \in BOOLEAN, Start(ok)
    PROVE  Clean'
<1> PICK op : op = work.call.op
    OBVIOUS
<1> DEFINE stale == Stale(work.call)
<1>1. /\ work # NoWork /\ work \in Mutation /\ work.phase = "start" /\ work.at = 1
      /\ work.who = "worker" /\ work.call \in Calls /\ op \in Ops \cup {NoOp}
      /\ journal = NoJournal /\ op = work.call.op
      /\ op \in Ops => op # NoOp /\ record[op] = "pending" /\ deferred[op] = "none"
    <2>1. work # NoWork /\ work.phase = "start"  BY DEF Start
    <2> QED  BY <2>1, WorkedOp DEF BooksInv, Owned, Worked, Clean, BeforeJournal
<1>2. UNCHANGED <<world, journal, touched>>  BY DEF Start, history
<1>3. /\ \A o \in Ops : o # op => record'[o] = record[o] /\ deferred'[o] = deferred[o]
      /\ op \in Ops => \/ record'[op] = "running" /\ deferred'[op] = "none"
                       \/ record'[op] = "pending" /\ deferred'[op] \in {"none", "running"}
    <2>1. CASE stale  BY <1>1, <2>1 DEF Start, books
    <2>2. CASE ~stale
        <3>1. Transition(op, "running", ok)  BY <1>1, <2>2 DEF Start
        <3>2. CASE op = NoOp
            BY <3>1, <3>2, NoTransition, LifecycleAssumption
        <3>3. CASE op \in Ops
            BY <1>1, <3>1, <3>3, TransitionEffect DEF Statuses, Terminal, Unfinished
        <3> QED  BY <1>1, <3>2, <3>3
    <2> QED  BY <2>1, <2>2
<1>4. /\ work'.call = work.call /\ work'.who = "worker" /\ work'.at = 1
      /\ \/ work'.phase = "run" /\ work'.prog = Program(work.call.kind, work.call.target)
         \/ work'.phase = "reject"
    <2>1. work' = IF ok /\ ~stale
                    THEN [work EXCEPT !.phase = "run",
                            !.prog = Program(work.call.kind, work.call.target)]
                    ELSE [work EXCEPT !.phase = "reject"]
        BY DEF Start
    <2> HIDE DEF stale
    <2> QED  BY <1>1, <2>1 DEF Mutation
<1> HIDE DEF stale
<1>5. op \in Ops => op \notin touched
    BY <1>1 DEF Clean, TouchedIsKept
<1>6. \A o : ~Journalled(o) /\ ~Journalled(o)'  BY <1>1, <1>2 DEF Journalled
<1>7. TouchedIsKept'
    BY <1>2, <1>3, <1>5, <1>6 DEF Clean, TouchedIsKept, TypeInv, TypeOK
<1>8. Deferring'
    <2>1. \A o \in Ops : o # op =>
            /\ deferred'[o] # "pending"
            /\ record'[o] \in Terminal => deferred'[o] = "none"
        BY <1>3 DEF Clean, Deferring
    <2>2. op \in Ops => /\ deferred'[op] # "pending"
                        /\ record'[op] \in Terminal => deferred'[op] = "none"
        BY <1>3 DEF Terminal
    <2> QED  BY <1>6, <2>1, <2>2 DEF Deferring
<1>9. Withdrawn'  BY <1>6 DEF Withdrawn
<1>10. BeforeJournal'
    BY <1>1, <1>2, <1>4, <1>5 DEF BeforeJournal
<1>11. Withdrawing'  BY <1>4 DEF Withdrawing
<1>12. CreateStands'
    <2>1. ASSUME Running', work.call.kind = "create" PROVE Founded(work'.prog)
        BY <1>4, <2>1, CreateIsFounded DEF Running, Program
    <2> QED  BY <1>4, <1>6, <2>1 DEF CreateStands
<1> QED  BY <1>7, <1>8, <1>9, <1>10, <1>11, <1>12 DEF Clean

LEMMA BeginRepairClean ==
    ASSUME TypeInv, BooksInv, Clean, BeginRepair
    PROVE  Clean'
<1> PICK op : op = journal.op
    OBVIOUS
<1>1. /\ work = NoWork /\ journal # NoJournal /\ op = journal.op
      /\ UNCHANGED <<world, journal, touched, record, deferred>>
    BY DEF BeginRepair, books, history
<1>2. /\ work'.call.op = op /\ work'.call.kind = journal.kind
      /\ work'.phase = "run" /\ work'.at = 1 /\ work'.prog = RepairProgram
      /\ work'.who = IF op # NoOp /\ record[op] = "succeeded" THEN "settler" ELSE "repair"
    BY DEF BeginRepair
<1>3. op # NoOp => op \in Ops /\ journal.kind \in LinkedKinds /\ Journalled(op)
    <2>1. IntentOf(journal) \in Calls /\ IntentOf(journal).op = op
          /\ IntentOf(journal).kind = journal.kind
        BY <1>1 DEF TypeInv, Requested, IntentOf
    <2> QED  BY <1>1, <2>1, CallType DEF Journalled
<1>4. ASSUME op # NoOp, RepairProgram = RedoProgram(journal.kind),
             ~(journal.kind = "create" /\ Nothing)
      PROVE  NoCancel(work'.prog)
    BY <1>2, <1>3, <1>4, RepairWithdraws
<1>5. ASSUME op # NoOp, record[op] # "succeeded", journal.kind = "create", Nothing
      PROVE  work'.prog = Withdraw
    <2>1. RepairProgram = RedoProgram(journal.kind)  BY <1>5 DEF RepairProgram
    <2> QED  BY <1>2, <1>3, <1>5, <2>1, RepairWithdraws
<1>6. ASSUME op # NoOp, record[op] = "succeeded"
      PROVE  /\ NoCancel(work'.prog)
             /\ \A i \in 1..Len(work'.prog) : work'.prog[i] # "journal"
    <2>1. RepairProgram = VerifyProgram(journal.kind)  BY <1>6 DEF RepairProgram
    <2> QED  BY <1>2, <1>3, <1>6, <2>1, RepairWithdraws
<1>7. TouchedIsKept' /\ Deferring'
    BY <1>1 DEF Clean, TouchedIsKept, Deferring, Journalled
<1>8. Withdrawn'
    <2>1. ASSUME NEW o \in Ops, Journalled(o), record[o] \in Refused \/ deferred[o] \in Refused
          PROVE  journal.kind = "create" /\ Nothing /\ work'.prog = Withdraw
        <3>1. o = op /\ op # NoOp
            BY <1>1, <2>1, LifecycleAssumption DEF Journalled
        <3>2. record[op] # "succeeded"
            BY <2>1, <3>1 DEF Clean, Deferring, Refused, Terminal
        <3>3. journal.kind = "create" /\ Nothing
            BY <2>1 DEF Clean, Withdrawn
        <3> QED  BY <1>5, <3>1, <3>2, <3>3
    <2> QED  BY <1>1, <2>1 DEF Withdrawn, Journalled, Nothing
<1>9. BeforeJournal'  BY <1>2 DEF BeforeJournal
<1>10. Withdrawing'
    <2>1. ASSUME op # NoOp, NEW i \in 1..Len(work'.prog), work'.prog[i] = "cancel"
          PROVE  /\ work'.prog = Withdraw /\ journal.kind = "create"
                 /\ op \notin touched /\ Nothing
        <3>1. record[op] # "succeeded"  BY <1>6, <2>1 DEF NoCancel
        <3>2. RepairProgram = RedoProgram(journal.kind)  BY <3>1 DEF RepairProgram
        <3>3. journal.kind = "create" /\ Nothing
            BY <1>4, <2>1, <3>2 DEF NoCancel
        <3>4. op \notin touched
            BY <1>3, <2>1, <3>3 DEF Clean, CreateStands, Nothing
        <3> QED  BY <1>5, <2>1, <3>1, <3>3, <3>4
    <2>2. ASSUME op # NoOp, work'.who = "settler"
          PROVE  /\ record[op] = "succeeded"
                 /\ \A i \in 1..Len(work'.prog) : work'.prog[i] # "journal"
        BY <1>2, <1>6, <2>2
    <2> QED  BY <1>1, <1>2, <2>1, <2>2 DEF Withdrawing, Nothing
<1>11. CreateStands'
    <2>1. ASSUME op # NoOp, journal.kind = "create" PROVE Founded(work'.prog)
        BY <1>2, <2>1, CreateIsFounded DEF RepairProgram, RedoProgram
    <2> QED  BY <1>1, <1>2, <2>1 DEF Clean, CreateStands, Journalled
<1> QED  BY <1>7, <1>8, <1>9, <1>10, <1>11 DEF Clean

LEMMA RetryClean ==
    ASSUME TypeInv, BooksInv, Clean, NEW op \in Ops, NEW ok \in BOOLEAN, Retry(op, ok)
    PROVE  Clean'
<1>1. /\ deferred[op] # "none" /\ record[op] \in Unfinished /\ record[op] # "succeeded"
      /\ UNCHANGED <<world, journal, work, touched>> /\ deferred[op] \in Statuses
    BY DEF Retry, history, Unfinished, TypeInv, TypeOK
<1>2. /\ \A o \in Ops : o # op => record'[o] = record[o] /\ deferred'[o] = deferred[o]
      /\ \/ record'[op] = deferred[op] /\ deferred'[op] = "none"
         \/ record'[op] = record[op] /\ deferred'[op] = deferred[op]
    BY DEF Retry, books, TypeInv, TypeOK
<1>3. \A o : Journalled(o)' = Journalled(o)  BY <1>1 DEF Journalled
<1>4. deferred[op] # "pending"  BY DEF Clean, Deferring
<1>5. TouchedIsKept'
    <2>1. ASSUME op \in touched
          PROVE  /\ record'[op] \in {"running", "recovery_required", "succeeded"}
                 /\ Journalled(op) /\ deferred'[op] \notin Refused
        <3>1. Journalled(op) /\ deferred[op] \notin Refused
            BY <1>1, <2>1 DEF Clean, TouchedIsKept
        <3>2. deferred[op] \in {"running", "recovery_required", "succeeded"}
            BY <1>1, <1>4, <3>1 DEF Statuses, Unfinished, Terminal, Refused
        <3> QED  BY <1>2, <2>1, <3>1, <3>2 DEF Refused, Clean, TouchedIsKept
    <2>2. ASSUME NEW o \in touched, o # op
          PROVE  /\ record'[o] \in {"running", "recovery_required", "succeeded"}
                 /\ record'[o] \in Unfinished => Journalled(o) /\ deferred'[o] \notin Refused
        <3>1. o \in Ops  BY DEF TypeInv, TypeOK
        <3> QED  BY <1>2, <2>2, <3>1 DEF Clean, TouchedIsKept
    <2> QED  BY <1>1, <1>3, <2>1, <2>2 DEF TouchedIsKept
<1>6. Deferring'
    <2>1. /\ deferred'[op] # "pending"
          /\ record'[op] \in Terminal => deferred'[op] = "none"
          /\ Journalled(op) => record'[op] # "pending"
        BY <1>1, <1>2, <1>4, StatusesApart DEF Clean, Deferring
    <2>2. ASSUME NEW o \in Ops, o # op
          PROVE  /\ deferred'[o] # "pending"
                 /\ record'[o] \in Terminal => deferred'[o] = "none"
                 /\ Journalled(o) => record'[o] # "pending"
        BY <1>2, <2>2 DEF Clean, Deferring
    <2> QED  BY <1>3, <2>1, <2>2 DEF Deferring
<1>7. Withdrawn'
    <2>1. \A o \in Ops : record'[o] \in Refused \/ deferred'[o] \in Refused =>
              record[o] \in Refused \/ deferred[o] \in Refused
        BY <1>2 DEF Refused
    <2> QED  BY <1>1, <1>3, <2>1 DEF Clean, Withdrawn, Nothing
<1>8. BeforeJournal' /\ CreateStands'
    BY <1>1, <1>3 DEF Clean, BeforeJournal, CreateStands, Running, Step
<1>9. Withdrawing'
    <2>1. ASSUME work # NoWork, work.call.op # NoOp
          PROVE  record[work.call.op] = "succeeded" => record'[work.call.op] = "succeeded"
        BY <1>1, <1>2, <2>1, WorkType
    <2> QED  BY <1>1, <2>1 DEF Clean, Withdrawing, Nothing
<1> QED  BY <1>5, <1>6, <1>7, <1>8, <1>9 DEF Clean

LEMMA MarkedClean ==
    ASSUME TypeInv, Clean, work' \in {work, Cancelled(work)},
           UNCHANGED <<world, journal, record, deferred, touched>>
    PROVE  Clean'
<1>1. /\ (work' = NoWork) = (work = NoWork)
      /\ work # NoWork =>
           /\ work'.who = work.who /\ work'.call = work.call /\ work'.phase = work.phase
           /\ work'.prog = work.prog /\ work'.at = work.at
    BY WorkType, CancelledFields
<1>2. /\ Running' = Running
      /\ work # NoWork => Step' = Step
    BY <1>1 DEF Running, Step
<1>3. TouchedIsKept' /\ Deferring' /\ Withdrawn'
    BY <1>1 DEF Clean, TouchedIsKept, Deferring, Withdrawn, Journalled, Nothing
<1>4. BeforeJournal'
    BY <1>1, <1>2 DEF Clean, BeforeJournal, Running
<1>5. Withdrawing'  BY <1>1 DEF Clean, Withdrawing, Nothing
<1>6. CreateStands'
    BY <1>1, <1>2 DEF Clean, CreateStands, Journalled, Running
<1> QED  BY <1>3, <1>4, <1>5, <1>6 DEF Clean

\* What a crash cuts short has its journal, too.
LEMMA CrashClean ==
    ASSUME TypeInv, BooksInv, Clean, Crash
    PROVE  Clean'
<1>1. /\ work' = NoWork /\ UNCHANGED journal
      /\ \A o \in Ops : record'[o] = Recovered(o) /\ deferred'[o] = "none"
      /\ world' \in CrashLeaves
      /\ IF work = NoWork THEN touched' = touched ELSE Touch
    BY DEF Crash
<1>2. /\ \A o \in touched' :
           /\ o \in Ops
           /\ record[o] \in {"running", "recovery_required", "succeeded"}
           /\ record[o] \in Unfinished => Journalled(o)
      /\ \A o \in touched' : Journalled(o) /\ journal.kind = "create" => world'.env # None
      /\ \A o \in Ops : Journalled(o) /\ record[o] \in Refused => world' = world
    <2>1. CASE Running /\ Step \notin OwnSteps
                /\ Accepts(Step, work.call.target, world)
        <3> PICK op : op = work.call.op
            OBVIOUS
        <3>1. work # NoWork /\ Touch /\ world' \in Leaves(Step, work.call.target, world)
            BY <1>1, <2>1 DEF Running, CrashLeaves
        <3>2. touched' \subseteq Ops  BY <3>1, TouchType
        <3>3. /\ \A o \in touched' :
                   /\ record[o] \in {"running", "recovery_required", "succeeded"}
                   /\ record[o] \in Unfinished => Journalled(o)
              /\ op \in Ops /\ work.prog = Withdraw => world' = world
              /\ \A o \in touched' : Journalled(o) /\ journal.kind = "create" =>
                    world'.env # None
            BY <2>1, <3>1, StepChanges
        <3>4. ASSUME NEW o \in Ops, Journalled(o), record[o] \in Refused
              PROVE  world' = world
            <4>1. work.prog = Withdraw  BY <3>1, <3>4 DEF Clean, Withdrawn
            <4>2. o = op  BY <3>1, <3>4 DEF Journalled, BooksInv, Owned
            <4> QED  BY <3>3, <4>1, <4>2
        <3> QED  BY <3>2, <3>3, <3>4
    <2>2. CASE ~(Running /\ Step \notin OwnSteps
                  /\ Accepts(Step, work.call.target, world))
        <3>1. world' = world /\ touched' = touched  BY <1>1, <2>2 DEF CrashLeaves, Touch
        <3> QED  BY <3>1 DEF Clean, TouchedIsKept, CreateStands, TypeInv, TypeOK
    <2> QED  BY <2>1, <2>2
<1>3. \A o : Journalled(o)' = Journalled(o)  BY <1>1 DEF Journalled
<1>4. \A o \in Ops :
        /\ record[o] \in Unfinished /\ Journalled(o) => record'[o] = "recovery_required"
        /\ record[o] \notin Unfinished => record'[o] = record[o]
        /\ record[o] \in Unfinished /\ ~Journalled(o) => record'[o] = "cancelled"
    BY <1>1 DEF Recovered, Journalled
<1>5. TouchedIsKept'
    BY <1>1, <1>2, <1>3, <1>4 DEF TouchedIsKept, Refused
<1>6. Deferring'
    BY <1>1, <1>3, <1>4 DEF Deferring, Unfinished
<1>7. Withdrawn'
    <2>1. ASSUME NEW o \in Ops, Journalled(o), record'[o] \in Refused
          PROVE  journal.kind = "create" /\ Nothing'
        <3>1. record[o] \in Refused
            BY <1>4, <2>1 DEF Refused
        <3> QED  BY <1>2, <2>1, <3>1 DEF Clean, Withdrawn, Nothing
    <2> QED  BY <1>1, <1>3, <2>1 DEF Withdrawn, Refused
<1>8. BeforeJournal' /\ Withdrawing'
    BY <1>1 DEF BeforeJournal, Withdrawing, Running
<1>9. CreateStands'
    BY <1>1, <1>2, <1>3 DEF CreateStands, Running
<1> QED  BY <1>5, <1>6, <1>7, <1>8, <1>9 DEF Clean

LEMMA InitClean == Init => Clean
BY DEF Init, Clean, TouchedIsKept, Deferring, Withdrawn, BeforeJournal, Withdrawing,
       CreateStands, Journalled, Running, Refused, Terminal

LEMMA CleanStep == TypeInv /\ BooksInv /\ Clean /\ [Next]_vars => Clean'
<1> SUFFICES ASSUME TypeInv, BooksInv, Clean, [Next]_vars PROVE Clean'
    OBVIOUS
<1>1. ASSUME NEW c \in Calls, Prepare(c) \/ Begin(c) PROVE Clean'
    BY <1>1, PreparingClean, BeginningClean
<1>2. ASSUME Preparing PROVE Clean'
    BY <1>2, PreparingClean, BeginningClean DEF Preparing
<1>3. ASSUME Working PROVE Clean'
    BY <1>3, StartClean, WorldStepClean, JournalClean, RecordRepairClean, EndingClean
    DEF Working
<1>4. ASSUME NEW op \in Ops, CancelJob(op) \/ \E ok \in BOOLEAN : Retry(op, ok)
      PROVE  Clean'
    <2>1. ASSUME CancelJob(op) PROVE Clean'
        BY <2>1, MarkedClean DEF CancelJob, books, history
    <2> QED  BY <1>4, <2>1, RetryClean
<1>5. CASE Interrupt
    BY <1>5, MarkedClean DEF Interrupt, books, history
<1>6. CASE UNCHANGED vars
    BY <1>6, MarkedClean DEF vars
<1> QED
    BY <1>1, <1>2, <1>3, <1>4, <1>5, <1>6, BeginRepairClean, CrashClean DEF Next

\* An operation that is on record as failed or cancelled has changed nothing of
\* the server: every change comes under the operation's journal, which keeps its record
\* from being refused until a repair has settled it.
THEOREM RefusalsAreClean == Spec => []RefusalIsClean
<1>1. TypeInv /\ BooksInv /\ Clean => RefusalIsClean
    BY DEF Clean, TouchedIsKept, RefusalIsClean
<1> QED  BY <1>1, BooksHold, InitClean, CleanStep, PTL DEF Spec
-----------------------------------------------------------------------------
(***************************************************************************)
(* The course of the work: what the server is like at each point of each   *)
(* program.  A duty that is no longer ahead has been done, and nothing     *)
(* that follows undoes it; so what a program has come to when its journal  *)
(* is removed is what the journal wanted.                                  *)
(***************************************************************************)

\* What is still ahead of the work.
Rest(p, n) == {p[i] : i \in n..Len(p)}
Left == Rest(work.prog, work.at)
Entered(e) == [env |-> e, repair |-> FALSE]

\* What holds of a server under each kind of journal, whoever works on it, fails
\* or crashes; o is the server as it was when the journal was written.
StandingCreate(t, o, w) ==
    /\ o = EmptyWorld
    /\ w.env \in {None, t} /\ w.stack \in {None, t} /\ w.data \in {None, t}
    /\ w.entry \in {None, Entered(t)} /\ w.shared \in {None, Entered(t)}
    /\ w.env = None => w = EmptyWorld
StandingClose(w) ==
    /\ w.env = None => w.stack = None /\ w.data = None
    /\ w.entry # None => ~w.entry.repair
StandingDeploy(t, o, w) ==
    /\ Consistent(o) /\ o.env # None /\ w.env \in {o.env, t}
    /\ w.entry = o.entry /\ w.data = o.data /\ w.shared = o.shared
StandingPatch(t, o, w) ==
    /\ Consistent(o) /\ o.env # None /\ w.env \in {o.env, t}
    /\ w.stack = o.stack /\ w.data = o.data
    /\ w.entry # None /\ ~w.entry.repair
Standing(kind, t, o, w) ==
    /\ kind = "create" => StandingCreate(t, o, w)
    /\ kind = "close"  => StandingClose(w)
    /\ kind = "deploy" => StandingDeploy(t, o, w)
    /\ kind = "patch"  => StandingPatch(t, o, w)

\* What has been done when it is not ahead any more, and nothing has failed.
CourseCreate(t, w, left) ==
    /\ {"createEnv", "validate"} \cap left = {} => w.env # None
    /\ {"upsertEntry", "sync"} \cap left = {} => w.entry # None
    /\ {"upAnyway", "up"} \cap left = {} => w.stack = t /\ w.data # None
    /\ "reload" \notin left => w.shared = w.entry
CourseClose(w, left) ==
    /\ "down" \notin left => w.stack = None /\ w.data = None
    /\ "removeEnv" \notin left => w.env = None
    /\ "removeEntry" \notin left => w.entry = None
    /\ "reload" \notin left => w.shared = None
CourseReset(t, w, left) ==
    /\ {"writeEnv", "targetReached"} \cap left = {} => w.env = t
    /\ "verifyRuntime" \notin left => w.stack = w.env /\ w.data = w.env
    /\ "reconcile" \notin left => w.entry # None /\ w.entry.env = w.env
    /\ "clearRepair" \notin left => w.entry # None /\ ~w.entry.repair
    /\ "reload" \notin left => w.shared = Entered(t)
CourseDeploy(w, left) == "upStateless" \notin left => w.stack = w.env
CoursePatch(w, left) ==
    /\ "reconcile" \notin left => w.entry.env = w.env
    /\ "reload" \notin left => w.shared = w.entry
OnCourse(kind, t, w, left) ==
    /\ kind = "create" => CourseCreate(t, w, left)
    /\ kind = "close"  => CourseClose(w, left)
    /\ kind = "reset"  => CourseReset(t, w, left)
    /\ kind = "deploy" => CourseDeploy(w, left)
    /\ kind = "patch"  => CoursePatch(w, left)

\* What a success on record, or about to be, says of the server for good: a repair
\* may take a reset server down again, but keeps its env file and loaded entry.
Won(kind, t, w) ==
    /\ kind \in {"create", "close"} => Reached([kind |-> kind, target |-> t], None, w)
    /\ kind = "reset" => w.env = t /\ w.shared = Entered(t)

\* What has to follow a step of a program: the duties it undoes or opens.
Duties(kind) ==
    CASE kind = "create" -> {"createEnv", "upsertEntry", "upAnyway", "reload"}
      [] kind = "close"  -> {"down", "removeEnv", "removeEntry", "reload"}
      [] kind = "reset"  -> {"writeEnv", "verifyRuntime", "reconcile", "clearRepair", "reload"}
      [] kind = "deploy" -> {"upStateless"}
      [] kind = "patch"  -> {"reconcile", "reload"}
FollowsAny(s, rest) ==
    /\ s \in Changing \cup {"stageDown"} => {"journal", "createEnv"} \cap rest = {}
    /\ s = "journal" => {"absent", "validate"} \cap rest = {}
    /\ s = "clear" => rest = {}
    /\ Records(s) => rest = {"clear"}
FollowsCreate(s, rest) ==
    /\ s \in Changing => s \in {"createEnv", "upsertEntry", "upAnyway", "up", "sync", "reload"}
    /\ s = "createEnv" => "absent" \notin rest
    /\ s = "upsertEntry" => {"createEnv", "validate"} \cap rest = {}
    /\ s \in {"upsertEntry", "sync"} => "reload" \in rest
    /\ s = "upAnyway" => rest = {"reload"}
FollowsClose(s, rest) ==
    /\ s \in Changing => s \in {"down", "removeEnv", "removeEntry", "reload"}
    /\ s = "removeEnv" => "down" \notin rest
    /\ s = "reload" => "removeEntry" \notin rest
FollowsReset(s, rest) ==
    /\ s \in Changing => s \in {"writeEnv", "sync", "reconcile", "requireRepair",
                                "clearRepair", "down", "up", "reload"}
    /\ s = "writeEnv" => {"verifyRuntime", "reconcile"} \subseteq rest
    /\ s \in {"down", "up"} => "verifyRuntime" \in rest
    /\ s = "requireRepair" => "clearRepair" \in rest
    /\ s = "reload" => {"writeEnv", "targetReached", "reconcile", "clearRepair"} \cap rest = {}
FollowsDeploy(s, rest) ==
    /\ s \in Changing => s \in {"writeEnv", "upStateless"}
    /\ s = "writeEnv" => "upStateless" \in rest
FollowsPatch(s, rest) ==
    /\ s \in Changing => s \in {"writeEnv", "sync", "reconcile", "reload"}
    /\ s = "writeEnv" => "reconcile" \in rest
    /\ s \in {"sync", "reconcile"} => "reload" \in rest
Follows(kind, s, rest) ==
    /\ FollowsAny(s, rest)
    /\ s = "journal" => Duties(kind) \subseteq rest
    /\ s = "upAnyway" => kind = "create"
    /\ kind = "create" => FollowsCreate(s, rest)
    /\ kind = "close"  => FollowsClose(s, rest)
    /\ kind = "reset"  => FollowsReset(s, rest)
    /\ kind = "deploy" => FollowsDeploy(s, rest)
    /\ kind = "patch"  => FollowsPatch(s, rest)
WellMade(kind, p) == \A i \in 1..Len(p) : Follows(kind, p[i], Rest(p, i + 1))

\* A handler's request is of the kinds it serves.
Linked ==
    /\ prep # NoWork => prep.call.kind \in LinkedKinds
    /\ work # NoWork =>
         /\ work.who = "worker" => work.call.kind \in LinkedKinds
         /\ work.who = "caller" => work.call.kind \in {"deploy", "patch"}
         /\ work.phase = "start" => ~work.err

\* The journal on file and the server under it; without one, a server in order.
SucceededOn == journal.op # NoOp /\ "succeeded" \in {record[journal.op], deferred[journal.op]}
UnderJournal ==
    journal # NoJournal =>
        /\ before \in World
        /\ Standing(journal.kind, journal.target, before, world)
        /\ SucceededOn => Won(journal.kind, journal.target, world)
        /\ work # NoWork => IntentOf(journal) = work.call
Calm ==
    journal = NoJournal =>
        /\ Consistent(world)
        /\ work # NoWork /\ work.who = "caller" => world.env # None

\* A program that runs has its journal, and the server is as far as it has come.
WithoutJournal ==
    \/ work.who \in {"worker", "caller"} /\ "journal" \in Left
    \/ work.who # "worker" /\ Left = {}
AsFarAs ==
    IF journal = NoJournal THEN WithoutJournal
    ELSE IF work.prog = Withdraw THEN journal.kind = "create" /\ world.env = None
    ELSE OnCourse(journal.kind, journal.target, world, Left)
InPlaceQuiet ==
    /\ journal = NoJournal /\ work.who = "caller"
    /\ world.entry # None /\ world.entry.env = work.call.target
    /\ Running => ~work.err
    /\ ~work.err /\ work.at > 2 => world.env = work.call.target
InPlace ==
    work # NoWork /\ work.phase = "run" =>
        IF work.prog = QuietPatchProgram THEN InPlaceQuiet
        ELSE /\ WellMade(work.call.kind, work.prog)
             /\ work.who = "worker" => "clear" \notin Left /\ work.prog # Withdraw
             /\ "createEnv" \in Left /\ "absent" \notin Left => world.env = None
             /\ Running /\ work.err =>
                  journal # NoJournal /\ Left = {"reload"} /\ work.call.kind = "create"
             /\ ~work.err => AsFarAs

\* A success that is not on record yet, or whose journal is about to be removed.
Settling ==
    work # NoWork /\ work.phase = "settle" =>
        journal # NoJournal /\ Reached(journal, before, world)
Awaiting ==
    \A op \in Ops : deferred[op] = "succeeded" =>
        Journalled(op) /\ (Reached(journal, before, world) \/ Redoing(op))

Course == Linked /\ UnderJournal /\ Calm /\ InPlace /\ Settling /\ Awaiting

-----------------------------------------------------------------------------
(***************************************************************************)
(* The programs are well made.                                             *)
(***************************************************************************)

\* What is left before each step, and after the last one.
LEMMA RestStep ==
    ASSUME NEW p, Len(p) \in Nat
    PROVE  \A n \in 1..Len(p) : Rest(p, n) = {p[n]} \cup Rest(p, n + 1)
<1>1. \A n \in 1..Len(p) : \A i : i \in n..Len(p) <=> i = n \/ i \in n + 1..Len(p)
    OBVIOUS
<1> QED  BY <1>1 DEF Rest

LEMMA RestEmpty ==
    ASSUME NEW p, Len(p) \in Nat
    PROVE  Rest(p, Len(p) + 1) = {}
<1>1. \A i : i \notin Len(p) + 1..Len(p)  OBVIOUS
<1> QED  BY <1>1 DEF Rest

\* The program of a handler writes its journal; that of a repair never does, and
\* has all ahead of it that the server may be in need of.
HandlerMade(kind, p) ==
    /\ WellMade(kind, p) /\ p # QuietPatchProgram /\ p # Withdraw
    /\ "journal" \in Rest(p, 1)
    /\ "createEnv" \in Rest(p, 1) => "absent" \in Rest(p, 1)
    /\ kind \in LinkedKinds => "clear" \notin Rest(p, 1)
RepairMade(kind, p, ahead) ==
    /\ WellMade(kind, p) /\ p # QuietPatchProgram /\ ahead \subseteq Rest(p, 1)
    /\ {"journal", "createEnv"} \cap Rest(p, 1) = {}

LEMMA CreateIsMade ==
    HandlerMade("create", CreateProgram)
<1> PICK p : p = CreateProgram
    OBVIOUS
<1>1. Len(p) = 9 /\ Len(p) \in Nat  BY DEF CreateProgram
<1>2. /\ p[1] = "notCancelled" /\ p[2] = "absent" /\ p[3] = "notCancelled" /\ p[4] =
         "journal" /\ p[5] = "createEnv" /\ p[6] = "notCancelled" /\ p[7] =
         "upsertEntry" /\ p[8] = "upAnyway" /\ p[9] = "reload"
    BY DEF CreateProgram
<1>3. /\ Rest(p, 10) = {}
      /\ \A n \in 1..9 : Rest(p, n) = {p[n]} \cup Rest(p, n + 1)
    <2>1. \A n \in 1..Len(p) : Rest(p, n) = {p[n]} \cup Rest(p, n + 1)  BY <1>1, RestStep
    <2>2. Rest(p, Len(p) + 1) = {}  BY <1>1, RestEmpty
    <2> QED  BY <1>1, <2>1, <2>2
<1>4. /\ Rest(p, 9) = {"reload"}
      /\ Rest(p, 8) = {"upAnyway", "reload"}
      /\ Rest(p, 7) = {"upsertEntry", "upAnyway", "reload"}
      /\ Rest(p, 6) = {"notCancelled", "upsertEntry", "upAnyway", "reload"}
    BY <1>2, <1>3
<1>5. /\ Rest(p, 5) = {"createEnv", "notCancelled", "upsertEntry", "upAnyway", "reload"}
      /\ Rest(p, 4) = {"journal", "createEnv", "notCancelled", "upsertEntry",
         "upAnyway", "reload"}
      /\ Rest(p, 3) = {"notCancelled", "journal", "createEnv", "upsertEntry",
         "upAnyway", "reload"}
      /\ Rest(p, 2) = {"absent", "notCancelled", "journal", "createEnv", "upsertEntry",
         "upAnyway", "reload"}
    BY <1>2, <1>3, <1>4
<1>6. /\ Rest(p, 1) = {"notCancelled", "absent", "journal", "createEnv", "upsertEntry",
         "upAnyway", "reload"}
    BY <1>2, <1>3, <1>5
<1>7. ASSUME NEW i \in 1..9 PROVE Follows("create", p[i], Rest(p, i + 1))
    BY <1>1, <1>2, <1>3, <1>4, <1>5, <1>6
    DEF Follows, FollowsAny, FollowsCreate, Changing, Records, Duties
<1> QED  BY <1>1, <1>2, <1>3, <1>4, <1>5, <1>6, <1>7
        DEF WellMade, HandlerMade, LinkedKinds, QuietPatchProgram, Withdraw

LEMMA CloseIsMade ==
    HandlerMade("close", CloseProgram)
<1> PICK p : p = CloseProgram
    OBVIOUS
<1>1. Len(p) = 9 /\ Len(p) \in Nat  BY DEF CloseProgram
<1>2. /\ p[1] = "journal" /\ p[2] = "stageDown" /\ p[3] = "down" /\ p[4] =
         "notCancelled" /\ p[5] = "removeEnv" /\ p[6] = "notCancelled" /\ p[7] =
         "removeEntry" /\ p[8] = "notCancelled" /\ p[9] = "reload"
    BY DEF CloseProgram
<1>3. /\ Rest(p, 10) = {}
      /\ \A n \in 1..9 : Rest(p, n) = {p[n]} \cup Rest(p, n + 1)
    <2>1. \A n \in 1..Len(p) : Rest(p, n) = {p[n]} \cup Rest(p, n + 1)  BY <1>1, RestStep
    <2>2. Rest(p, Len(p) + 1) = {}  BY <1>1, RestEmpty
    <2> QED  BY <1>1, <2>1, <2>2
<1>4. /\ Rest(p, 9) = {"reload"}
      /\ Rest(p, 8) = {"notCancelled", "reload"}
      /\ Rest(p, 7) = {"removeEntry", "notCancelled", "reload"}
      /\ Rest(p, 6) = {"notCancelled", "removeEntry", "reload"}
    BY <1>2, <1>3
<1>5. /\ Rest(p, 5) = {"removeEnv", "notCancelled", "removeEntry", "reload"}
      /\ Rest(p, 4) = {"notCancelled", "removeEnv", "removeEntry", "reload"}
      /\ Rest(p, 3) = {"down", "notCancelled", "removeEnv", "removeEntry", "reload"}
      /\ Rest(p, 2) = {"stageDown", "down", "notCancelled", "removeEnv", "removeEntry",
         "reload"}
    BY <1>2, <1>3, <1>4
<1>6. /\ Rest(p, 1) = {"journal", "stageDown", "down", "notCancelled", "removeEnv",
         "removeEntry", "reload"}
    BY <1>2, <1>3, <1>5
<1>7. ASSUME NEW i \in 1..9 PROVE Follows("close", p[i], Rest(p, i + 1))
    BY <1>1, <1>2, <1>3, <1>4, <1>5, <1>6
    DEF Follows, FollowsAny, FollowsClose, Changing, Records, Duties
<1> QED  BY <1>1, <1>2, <1>3, <1>4, <1>5, <1>6, <1>7
        DEF WellMade, HandlerMade, LinkedKinds, QuietPatchProgram, Withdraw

LEMMA ResetIsMade ==
    HandlerMade("reset", ResetProgram)
<1> PICK p : p = ResetProgram
    OBVIOUS
<1>1. Len(p) = 19 /\ Len(p) \in Nat  BY DEF ResetProgram
<1>2. /\ p[1] = "notCancelled" /\ p[2] = "validate" /\ p[3] = "pull" /\ p[4] = "journal"
         /\ p[5] = "writeEnv" /\ p[6] = "stageEnv" /\ p[7] = "sync" /\ p[8] =
         "stageRegistry" /\ p[9] = "entryPresent" /\ p[10] = "notCancelled" /\ p[11] =
         "stageDown" /\ p[12] = "down" /\ p[13] = "notCancelled" /\ p[14] = "up" /\
         p[15] = "verifyRuntime" /\ p[16] = "reconcile" /\ p[17] = "clearRepair" /\
         p[18] = "reload" /\ p[19] = "verifyShared"
    BY DEF ResetProgram
<1>3. /\ Rest(p, 20) = {}
      /\ \A n \in 1..19 : Rest(p, n) = {p[n]} \cup Rest(p, n + 1)
    <2>1. \A n \in 1..Len(p) : Rest(p, n) = {p[n]} \cup Rest(p, n + 1)  BY <1>1, RestStep
    <2>2. Rest(p, Len(p) + 1) = {}  BY <1>1, RestEmpty
    <2> QED  BY <1>1, <2>1, <2>2
<1>4. /\ Rest(p, 19) = {"verifyShared"}
      /\ Rest(p, 18) = {"reload", "verifyShared"}
      /\ Rest(p, 17) = {"clearRepair", "reload", "verifyShared"}
      /\ Rest(p, 16) = {"reconcile", "clearRepair", "reload", "verifyShared"}
    BY <1>2, <1>3
<1>5. /\ Rest(p, 15) = {"verifyRuntime", "reconcile", "clearRepair", "reload",
         "verifyShared"}
      /\ Rest(p, 14) = {"up", "verifyRuntime", "reconcile", "clearRepair", "reload",
         "verifyShared"}
      /\ Rest(p, 13) = {"notCancelled", "up", "verifyRuntime", "reconcile",
         "clearRepair", "reload", "verifyShared"}
      /\ Rest(p, 12) = {"down", "notCancelled", "up", "verifyRuntime", "reconcile",
         "clearRepair", "reload", "verifyShared"}
    BY <1>2, <1>3, <1>4
<1>6. /\ Rest(p, 11) = {"stageDown", "down", "notCancelled", "up", "verifyRuntime",
         "reconcile", "clearRepair", "reload", "verifyShared"}
      /\ Rest(p, 10) = {"notCancelled", "stageDown", "down", "up", "verifyRuntime",
         "reconcile", "clearRepair", "reload", "verifyShared"}
      /\ Rest(p, 9) = {"entryPresent", "notCancelled", "stageDown", "down", "up",
         "verifyRuntime", "reconcile", "clearRepair", "reload", "verifyShared"}
      /\ Rest(p, 8) = {"stageRegistry", "entryPresent", "notCancelled", "stageDown",
         "down", "up", "verifyRuntime", "reconcile", "clearRepair", "reload",
         "verifyShared"}
    BY <1>2, <1>3, <1>5
<1>7. /\ Rest(p, 7) = {"sync", "stageRegistry", "entryPresent", "notCancelled",
         "stageDown", "down", "up", "verifyRuntime", "reconcile", "clearRepair",
         "reload", "verifyShared"}
      /\ Rest(p, 6) = {"stageEnv", "sync", "stageRegistry", "entryPresent",
         "notCancelled", "stageDown", "down", "up", "verifyRuntime", "reconcile",
         "clearRepair", "reload", "verifyShared"}
      /\ Rest(p, 5) = {"writeEnv", "stageEnv", "sync", "stageRegistry", "entryPresent",
         "notCancelled", "stageDown", "down", "up", "verifyRuntime", "reconcile",
         "clearRepair", "reload", "verifyShared"}
      /\ Rest(p, 4) = {"journal", "writeEnv", "stageEnv", "sync", "stageRegistry",
         "entryPresent", "notCancelled", "stageDown", "down", "up", "verifyRuntime",
         "reconcile", "clearRepair", "reload", "verifyShared"}
    BY <1>2, <1>3, <1>6
<1>8. /\ Rest(p, 3) = {"pull", "journal", "writeEnv", "stageEnv", "sync",
         "stageRegistry", "entryPresent", "notCancelled", "stageDown", "down", "up",
         "verifyRuntime", "reconcile", "clearRepair", "reload", "verifyShared"}
      /\ Rest(p, 2) = {"validate", "pull", "journal", "writeEnv", "stageEnv", "sync",
         "stageRegistry", "entryPresent", "notCancelled", "stageDown", "down", "up",
         "verifyRuntime", "reconcile", "clearRepair", "reload", "verifyShared"}
      /\ Rest(p, 1) = {"notCancelled", "validate", "pull", "journal", "writeEnv",
         "stageEnv", "sync", "stageRegistry", "entryPresent", "stageDown", "down", "up",
         "verifyRuntime", "reconcile", "clearRepair", "reload", "verifyShared"}
    BY <1>2, <1>3, <1>7
<1>9. ASSUME NEW i \in 1..19 PROVE Follows("reset", p[i], Rest(p, i + 1))
    BY <1>1, <1>2, <1>3, <1>4, <1>5, <1>6, <1>7, <1>8
    DEF Follows, FollowsAny, FollowsReset, Changing, Records, Duties
<1> QED  BY <1>1, <1>2, <1>3, <1>4, <1>5, <1>6, <1>7, <1>8, <1>9
        DEF WellMade, HandlerMade, LinkedKinds, QuietPatchProgram, Withdraw

LEMMA DeployIsMade ==
    HandlerMade("deploy", DeployProgram)
<1> PICK p : p = DeployProgram
    OBVIOUS
<1>1. Len(p) = 7 /\ Len(p) \in Nat  BY DEF DeployProgram
<1>2. /\ p[1] = "validate" /\ p[2] = "pull" /\ p[3] = "notCancelled" /\ p[4] = "journal"
         /\ p[5] = "writeEnv" /\ p[6] = "upStateless" /\ p[7] = "clear"
    BY DEF DeployProgram
<1>3. /\ Rest(p, 8) = {}
      /\ \A n \in 1..7 : Rest(p, n) = {p[n]} \cup Rest(p, n + 1)
    <2>1. \A n \in 1..Len(p) : Rest(p, n) = {p[n]} \cup Rest(p, n + 1)  BY <1>1, RestStep
    <2>2. Rest(p, Len(p) + 1) = {}  BY <1>1, RestEmpty
    <2> QED  BY <1>1, <2>1, <2>2
<1>4. /\ Rest(p, 7) = {"clear"}
      /\ Rest(p, 6) = {"upStateless", "clear"}
      /\ Rest(p, 5) = {"writeEnv", "upStateless", "clear"}
      /\ Rest(p, 4) = {"journal", "writeEnv", "upStateless", "clear"}
    BY <1>2, <1>3
<1>5. /\ Rest(p, 3) = {"notCancelled", "journal", "writeEnv", "upStateless", "clear"}
      /\ Rest(p, 2) = {"pull", "notCancelled", "journal", "writeEnv", "upStateless",
         "clear"}
      /\ Rest(p, 1) = {"validate", "pull", "notCancelled", "journal", "writeEnv",
         "upStateless", "clear"}
    BY <1>2, <1>3, <1>4
<1>6. ASSUME NEW i \in 1..7 PROVE Follows("deploy", p[i], Rest(p, i + 1))
    BY <1>1, <1>2, <1>3, <1>4, <1>5
    DEF Follows, FollowsAny, FollowsDeploy, Changing, Records, Duties
<1> QED  BY <1>1, <1>2, <1>3, <1>4, <1>5, <1>6
        DEF WellMade, HandlerMade, LinkedKinds, QuietPatchProgram, Withdraw

LEMMA PatchIsMade ==
    HandlerMade("patch", PatchProgram)
<1> PICK p : p = PatchProgram
    OBVIOUS
<1>1. Len(p) = 10 /\ Len(p) \in Nat  BY DEF PatchProgram
<1>2. /\ p[1] = "notCancelled" /\ p[2] = "journal" /\ p[3] = "writeEnv" /\ p[4] =
         "stageEnv" /\ p[5] = "notCancelled" /\ p[6] = "sync" /\ p[7] = "stageRegistry"
         /\ p[8] = "reconcile" /\ p[9] = "reload" /\ p[10] = "clear"
    BY DEF PatchProgram
<1>3. /\ Rest(p, 11) = {}
      /\ \A n \in 1..10 : Rest(p, n) = {p[n]} \cup Rest(p, n + 1)
    <2>1. \A n \in 1..Len(p) : Rest(p, n) = {p[n]} \cup Rest(p, n + 1)  BY <1>1, RestStep
    <2>2. Rest(p, Len(p) + 1) = {}  BY <1>1, RestEmpty
    <2> QED  BY <1>1, <2>1, <2>2
<1>4. /\ Rest(p, 10) = {"clear"}
      /\ Rest(p, 9) = {"reload", "clear"}
      /\ Rest(p, 8) = {"reconcile", "reload", "clear"}
      /\ Rest(p, 7) = {"stageRegistry", "reconcile", "reload", "clear"}
    BY <1>2, <1>3
<1>5. /\ Rest(p, 6) = {"sync", "stageRegistry", "reconcile", "reload", "clear"}
      /\ Rest(p, 5) = {"notCancelled", "sync", "stageRegistry", "reconcile", "reload",
         "clear"}
      /\ Rest(p, 4) = {"stageEnv", "notCancelled", "sync", "stageRegistry", "reconcile",
         "reload", "clear"}
      /\ Rest(p, 3) = {"writeEnv", "stageEnv", "notCancelled", "sync", "stageRegistry",
         "reconcile", "reload", "clear"}
    BY <1>2, <1>3, <1>4
<1>6. /\ Rest(p, 2) = {"journal", "writeEnv", "stageEnv", "notCancelled", "sync",
         "stageRegistry", "reconcile", "reload", "clear"}
      /\ Rest(p, 1) = {"notCancelled", "journal", "writeEnv", "stageEnv", "sync",
         "stageRegistry", "reconcile", "reload", "clear"}
    BY <1>2, <1>3, <1>5
<1>7. ASSUME NEW i \in 1..10 PROVE Follows("patch", p[i], Rest(p, i + 1))
    BY <1>1, <1>2, <1>3, <1>4, <1>5, <1>6
    DEF Follows, FollowsAny, FollowsPatch, Changing, Records, Duties
<1> QED  BY <1>1, <1>2, <1>3, <1>4, <1>5, <1>6, <1>7
        DEF WellMade, HandlerMade, LinkedKinds, QuietPatchProgram, Withdraw

LEMMA VerifyCreateIsMade ==
    RepairMade("create", <<"created", "clear">>, {})
<1> PICK p : p = <<"created", "clear">>
    OBVIOUS
<1>1. Len(p) = 2 /\ Len(p) \in Nat  OBVIOUS
<1>2. /\ p[1] = "created" /\ p[2] = "clear"
    OBVIOUS
<1>3. /\ Rest(p, 3) = {}
      /\ \A n \in 1..2 : Rest(p, n) = {p[n]} \cup Rest(p, n + 1)
    <2>1. \A n \in 1..Len(p) : Rest(p, n) = {p[n]} \cup Rest(p, n + 1)  BY <1>1, RestStep
    <2>2. Rest(p, Len(p) + 1) = {}  BY <1>1, RestEmpty
    <2> QED  BY <1>1, <2>1, <2>2
<1>4. /\ Rest(p, 2) = {"clear"}
      /\ Rest(p, 1) = {"created", "clear"}
    BY <1>2, <1>3
<1>5. ASSUME NEW i \in 1..2 PROVE Follows("create", p[i], Rest(p, i + 1))
    BY <1>1, <1>2, <1>3, <1>4
    DEF Follows, FollowsAny, FollowsCreate, Changing, Records
<1> QED  BY <1>1, <1>2, <1>3, <1>4, <1>5
        DEF WellMade, RepairMade, QuietPatchProgram, Withdraw

LEMMA VerifyCloseIsMade ==
    RepairMade("close", <<"closed", "clear">>, {})
<1> PICK p : p = <<"closed", "clear">>
    OBVIOUS
<1>1. Len(p) = 2 /\ Len(p) \in Nat  OBVIOUS
<1>2. /\ p[1] = "closed" /\ p[2] = "clear"
    OBVIOUS
<1>3. /\ Rest(p, 3) = {}
      /\ \A n \in 1..2 : Rest(p, n) = {p[n]} \cup Rest(p, n + 1)
    <2>1. \A n \in 1..Len(p) : Rest(p, n) = {p[n]} \cup Rest(p, n + 1)  BY <1>1, RestStep
    <2>2. Rest(p, Len(p) + 1) = {}  BY <1>1, RestEmpty
    <2> QED  BY <1>1, <2>1, <2>2
<1>4. /\ Rest(p, 2) = {"clear"}
      /\ Rest(p, 1) = {"closed", "clear"}
    BY <1>2, <1>3
<1>5. ASSUME NEW i \in 1..2 PROVE Follows("close", p[i], Rest(p, i + 1))
    BY <1>1, <1>2, <1>3, <1>4
    DEF Follows, FollowsAny, FollowsClose, Changing, Records
<1> QED  BY <1>1, <1>2, <1>3, <1>4, <1>5
        DEF WellMade, RepairMade, QuietPatchProgram, Withdraw

LEMMA VerifyResetIsMade ==
    RepairMade("reset", <<"targetReached", "verifyRuntime", "reconcile", "clearRepair",
    "verifyShared", "clear">>, {"targetReached", "verifyRuntime", "reconcile",
    "clearRepair"})
<1> PICK p : 
        p = <<"targetReached", "verifyRuntime", "reconcile", "clearRepair",
        "verifyShared", "clear">>
    OBVIOUS
<1>1. Len(p) = 6 /\ Len(p) \in Nat  OBVIOUS
<1>2. /\ p[1] = "targetReached" /\ p[2] = "verifyRuntime" /\ p[3] = "reconcile" /\ p[4]
         = "clearRepair" /\ p[5] = "verifyShared" /\ p[6] = "clear"
    OBVIOUS
<1>3. /\ Rest(p, 7) = {}
      /\ \A n \in 1..6 : Rest(p, n) = {p[n]} \cup Rest(p, n + 1)
    <2>1. \A n \in 1..Len(p) : Rest(p, n) = {p[n]} \cup Rest(p, n + 1)  BY <1>1, RestStep
    <2>2. Rest(p, Len(p) + 1) = {}  BY <1>1, RestEmpty
    <2> QED  BY <1>1, <2>1, <2>2
<1>4. /\ Rest(p, 6) = {"clear"}
      /\ Rest(p, 5) = {"verifyShared", "clear"}
      /\ Rest(p, 4) = {"clearRepair", "verifyShared", "clear"}
      /\ Rest(p, 3) = {"reconcile", "clearRepair", "verifyShared", "clear"}
    BY <1>2, <1>3
<1>5. /\ Rest(p, 2) = {"verifyRuntime", "reconcile", "clearRepair", "verifyShared",
         "clear"}
      /\ Rest(p, 1) = {"targetReached", "verifyRuntime", "reconcile", "clearRepair",
         "verifyShared", "clear"}
    BY <1>2, <1>3, <1>4
<1>6. ASSUME NEW i \in 1..6 PROVE Follows("reset", p[i], Rest(p, i + 1))
    BY <1>1, <1>2, <1>3, <1>4, <1>5
    DEF Follows, FollowsAny, FollowsReset, Changing, Records
<1> QED  BY <1>1, <1>2, <1>3, <1>4, <1>5, <1>6
        DEF WellMade, RepairMade, QuietPatchProgram, Withdraw

LEMMA WithdrawIsMade ==
    RepairMade("create", Withdraw, {})
<1> PICK p : p = Withdraw
    OBVIOUS
<1>1. Len(p) = 2 /\ Len(p) \in Nat  BY DEF Withdraw
<1>2. /\ p[1] = "cancel" /\ p[2] = "clear"
    BY DEF Withdraw
<1>3. /\ Rest(p, 3) = {}
      /\ \A n \in 1..2 : Rest(p, n) = {p[n]} \cup Rest(p, n + 1)
    <2>1. \A n \in 1..Len(p) : Rest(p, n) = {p[n]} \cup Rest(p, n + 1)  BY <1>1, RestStep
    <2>2. Rest(p, Len(p) + 1) = {}  BY <1>1, RestEmpty
    <2> QED  BY <1>1, <2>1, <2>2
<1>4. /\ Rest(p, 2) = {"clear"}
      /\ Rest(p, 1) = {"cancel", "clear"}
    BY <1>2, <1>3
<1>5. ASSUME NEW i \in 1..2 PROVE Follows("create", p[i], Rest(p, i + 1))
    BY <1>1, <1>2, <1>3, <1>4
    DEF Follows, FollowsAny, FollowsCreate, Changing, Records
<1> QED  BY <1>1, <1>2, <1>3, <1>4, <1>5
        DEF WellMade, RepairMade, QuietPatchProgram, Withdraw

LEMMA RedoStartIsMade ==
    RepairMade("create", <<"validate", "up", "reload", "succeed", "clear">>,
    {"validate", "up", "reload"})
<1> PICK p : p = <<"validate", "up", "reload", "succeed", "clear">>
    OBVIOUS
<1>1. Len(p) = 5 /\ Len(p) \in Nat  OBVIOUS
<1>2. /\ p[1] = "validate" /\ p[2] = "up" /\ p[3] = "reload" /\ p[4] = "succeed" /\ p[5]
         = "clear"
    OBVIOUS
<1>3. /\ Rest(p, 6) = {}
      /\ \A n \in 1..5 : Rest(p, n) = {p[n]} \cup Rest(p, n + 1)
    <2>1. \A n \in 1..Len(p) : Rest(p, n) = {p[n]} \cup Rest(p, n + 1)  BY <1>1, RestStep
    <2>2. Rest(p, Len(p) + 1) = {}  BY <1>1, RestEmpty
    <2> QED  BY <1>1, <2>1, <2>2
<1>4. /\ Rest(p, 5) = {"clear"}
      /\ Rest(p, 4) = {"succeed", "clear"}
      /\ Rest(p, 3) = {"reload", "succeed", "clear"}
      /\ Rest(p, 2) = {"up", "reload", "succeed", "clear"}
    BY <1>2, <1>3
<1>5. /\ Rest(p, 1) = {"validate", "up", "reload", "succeed", "clear"}
    BY <1>2, <1>3, <1>4
<1>6. ASSUME NEW i \in 1..5 PROVE Follows("create", p[i], Rest(p, i + 1))
    BY <1>1, <1>2, <1>3, <1>4, <1>5
    DEF Follows, FollowsAny, FollowsCreate, Changing, Records
<1> QED  BY <1>1, <1>2, <1>3, <1>4, <1>5, <1>6
        DEF WellMade, RepairMade, QuietPatchProgram, Withdraw

LEMMA RedoSyncIsMade ==
    RepairMade("create", <<"validate", "sync", "up", "reload", "succeed", "clear">>,
    {"validate", "sync", "up", "reload"})
<1> PICK p : p = <<"validate", "sync", "up", "reload", "succeed", "clear">>
    OBVIOUS
<1>1. Len(p) = 6 /\ Len(p) \in Nat  OBVIOUS
<1>2. /\ p[1] = "validate" /\ p[2] = "sync" /\ p[3] = "up" /\ p[4] = "reload" /\ p[5] =
         "succeed" /\ p[6] = "clear"
    OBVIOUS
<1>3. /\ Rest(p, 7) = {}
      /\ \A n \in 1..6 : Rest(p, n) = {p[n]} \cup Rest(p, n + 1)
    <2>1. \A n \in 1..Len(p) : Rest(p, n) = {p[n]} \cup Rest(p, n + 1)  BY <1>1, RestStep
    <2>2. Rest(p, Len(p) + 1) = {}  BY <1>1, RestEmpty
    <2> QED  BY <1>1, <2>1, <2>2
<1>4. /\ Rest(p, 6) = {"clear"}
      /\ Rest(p, 5) = {"succeed", "clear"}
      /\ Rest(p, 4) = {"reload", "succeed", "clear"}
      /\ Rest(p, 3) = {"up", "reload", "succeed", "clear"}
    BY <1>2, <1>3
<1>5. /\ Rest(p, 2) = {"sync", "up", "reload", "succeed", "clear"}
      /\ Rest(p, 1) = {"validate", "sync", "up", "reload", "succeed", "clear"}
    BY <1>2, <1>3, <1>4
<1>6. ASSUME NEW i \in 1..6 PROVE Follows("create", p[i], Rest(p, i + 1))
    BY <1>1, <1>2, <1>3, <1>4, <1>5
    DEF Follows, FollowsAny, FollowsCreate, Changing, Records
<1> QED  BY <1>1, <1>2, <1>3, <1>4, <1>5, <1>6
        DEF WellMade, RepairMade, QuietPatchProgram, Withdraw

LEMMA RedoEntryIsMade ==
    RepairMade("close", <<"removeEntry", "reload", "succeed", "clear">>, {"removeEntry",
    "reload"})
<1> PICK p : p = <<"removeEntry", "reload", "succeed", "clear">>
    OBVIOUS
<1>1. Len(p) = 4 /\ Len(p) \in Nat  OBVIOUS
<1>2. /\ p[1] = "removeEntry" /\ p[2] = "reload" /\ p[3] = "succeed" /\ p[4] = "clear"
    OBVIOUS
<1>3. /\ Rest(p, 5) = {}
      /\ \A n \in 1..4 : Rest(p, n) = {p[n]} \cup Rest(p, n + 1)
    <2>1. \A n \in 1..Len(p) : Rest(p, n) = {p[n]} \cup Rest(p, n + 1)  BY <1>1, RestStep
    <2>2. Rest(p, Len(p) + 1) = {}  BY <1>1, RestEmpty
    <2> QED  BY <1>1, <2>1, <2>2
<1>4. /\ Rest(p, 4) = {"clear"}
      /\ Rest(p, 3) = {"succeed", "clear"}
      /\ Rest(p, 2) = {"reload", "succeed", "clear"}
      /\ Rest(p, 1) = {"removeEntry", "reload", "succeed", "clear"}
    BY <1>2, <1>3
<1>5. ASSUME NEW i \in 1..4 PROVE Follows("close", p[i], Rest(p, i + 1))
    BY <1>1, <1>2, <1>3, <1>4
    DEF Follows, FollowsAny, FollowsClose, Changing, Records
<1> QED  BY <1>1, <1>2, <1>3, <1>4, <1>5
        DEF WellMade, RepairMade, QuietPatchProgram, Withdraw

LEMMA RedoDownIsMade ==
    RepairMade("close", <<"validate", "down", "removeEnv", "removeEntry", "reload",
    "succeed", "clear">>, {"down", "removeEnv", "removeEntry", "reload"})
<1> PICK p : 
        p = <<"validate", "down", "removeEnv", "removeEntry", "reload", "succeed",
        "clear">>
    OBVIOUS
<1>1. Len(p) = 7 /\ Len(p) \in Nat  OBVIOUS
<1>2. /\ p[1] = "validate" /\ p[2] = "down" /\ p[3] = "removeEnv" /\ p[4] =
         "removeEntry" /\ p[5] = "reload" /\ p[6] = "succeed" /\ p[7] = "clear"
    OBVIOUS
<1>3. /\ Rest(p, 8) = {}
      /\ \A n \in 1..7 : Rest(p, n) = {p[n]} \cup Rest(p, n + 1)
    <2>1. \A n \in 1..Len(p) : Rest(p, n) = {p[n]} \cup Rest(p, n + 1)  BY <1>1, RestStep
    <2>2. Rest(p, Len(p) + 1) = {}  BY <1>1, RestEmpty
    <2> QED  BY <1>1, <2>1, <2>2
<1>4. /\ Rest(p, 7) = {"clear"}
      /\ Rest(p, 6) = {"succeed", "clear"}
      /\ Rest(p, 5) = {"reload", "succeed", "clear"}
      /\ Rest(p, 4) = {"removeEntry", "reload", "succeed", "clear"}
    BY <1>2, <1>3
<1>5. /\ Rest(p, 3) = {"removeEnv", "removeEntry", "reload", "succeed", "clear"}
      /\ Rest(p, 2) = {"down", "removeEnv", "removeEntry", "reload", "succeed", "clear"}
      /\ Rest(p, 1) = {"validate", "down", "removeEnv", "removeEntry", "reload",
         "succeed", "clear"}
    BY <1>2, <1>3, <1>4
<1>6. ASSUME NEW i \in 1..7 PROVE Follows("close", p[i], Rest(p, i + 1))
    BY <1>1, <1>2, <1>3, <1>4, <1>5
    DEF Follows, FollowsAny, FollowsClose, Changing, Records
<1> QED  BY <1>1, <1>2, <1>3, <1>4, <1>5, <1>6
        DEF WellMade, RepairMade, QuietPatchProgram, Withdraw

LEMMA RedoResetIsMade ==
    ASSUME NEW mid \in {"stageEnv", "validate"}
    PROVE  RepairMade("reset", <<"validate", "pull", "writeEnv", mid, "reconcile",
           "requireRepair", "stageDown", "down", "up", "verifyRuntime", "reconcile",
           "clearRepair", "reload", "verifyShared", "succeed", "clear">>, {"writeEnv",
           "verifyRuntime", "reconcile", "clearRepair", "reload"})
<1> PICK p : 
        p = <<"validate", "pull", "writeEnv", mid, "reconcile", "requireRepair",
        "stageDown", "down", "up", "verifyRuntime", "reconcile", "clearRepair",
        "reload", "verifyShared", "succeed", "clear">>
    OBVIOUS
<1>1. Len(p) = 16 /\ Len(p) \in Nat  OBVIOUS
<1>2. /\ p[1] = "validate" /\ p[2] = "pull" /\ p[3] = "writeEnv" /\ p[4] = mid /\ p[5] =
         "reconcile" /\ p[6] = "requireRepair" /\ p[7] = "stageDown" /\ p[8] = "down" /\
         p[9] = "up" /\ p[10] = "verifyRuntime" /\ p[11] = "reconcile" /\ p[12] =
         "clearRepair" /\ p[13] = "reload" /\ p[14] = "verifyShared" /\ p[15] =
         "succeed" /\ p[16] = "clear"
    OBVIOUS
<1>3. /\ Rest(p, 17) = {}
      /\ \A n \in 1..16 : Rest(p, n) = {p[n]} \cup Rest(p, n + 1)
    <2>1. \A n \in 1..Len(p) : Rest(p, n) = {p[n]} \cup Rest(p, n + 1)  BY <1>1, RestStep
    <2>2. Rest(p, Len(p) + 1) = {}  BY <1>1, RestEmpty
    <2> QED  BY <1>1, <2>1, <2>2
<1>4. /\ Rest(p, 16) = {"clear"}
      /\ Rest(p, 15) = {"succeed", "clear"}
      /\ Rest(p, 14) = {"verifyShared", "succeed", "clear"}
      /\ Rest(p, 13) = {"reload", "verifyShared", "succeed", "clear"}
    BY <1>2, <1>3
<1>5. /\ Rest(p, 12) = {"clearRepair", "reload", "verifyShared", "succeed", "clear"}
      /\ Rest(p, 11) = {"reconcile", "clearRepair", "reload", "verifyShared", "succeed",
         "clear"}
      /\ Rest(p, 10) = {"verifyRuntime", "reconcile", "clearRepair", "reload",
         "verifyShared", "succeed", "clear"}
      /\ Rest(p, 9) = {"up", "verifyRuntime", "reconcile", "clearRepair", "reload",
         "verifyShared", "succeed", "clear"}
    BY <1>2, <1>3, <1>4
<1>6. /\ Rest(p, 8) = {"down", "up", "verifyRuntime", "reconcile", "clearRepair",
         "reload", "verifyShared", "succeed", "clear"}
      /\ Rest(p, 7) = {"stageDown", "down", "up", "verifyRuntime", "reconcile",
         "clearRepair", "reload", "verifyShared", "succeed", "clear"}
      /\ Rest(p, 6) = {"requireRepair", "stageDown", "down", "up", "verifyRuntime",
         "reconcile", "clearRepair", "reload", "verifyShared", "succeed", "clear"}
      /\ Rest(p, 5) = {"reconcile", "requireRepair", "stageDown", "down", "up",
         "verifyRuntime", "clearRepair", "reload", "verifyShared", "succeed", "clear"}
    BY <1>2, <1>3, <1>5
<1>7. /\ Rest(p, 4) = {mid, "reconcile", "requireRepair", "stageDown", "down", "up",
         "verifyRuntime", "clearRepair", "reload", "verifyShared", "succeed", "clear"}
      /\ Rest(p, 3) = {"writeEnv", mid, "reconcile", "requireRepair", "stageDown",
         "down", "up", "verifyRuntime", "clearRepair", "reload", "verifyShared",
         "succeed", "clear"}
      /\ Rest(p, 2) = {"pull", "writeEnv", mid, "reconcile", "requireRepair",
         "stageDown", "down", "up", "verifyRuntime", "clearRepair", "reload",
         "verifyShared", "succeed", "clear"}
      /\ Rest(p, 1) = {"validate", "pull", "writeEnv", mid, "reconcile",
         "requireRepair", "stageDown", "down", "up", "verifyRuntime", "clearRepair",
         "reload", "verifyShared", "succeed", "clear"}
    BY <1>2, <1>3, <1>6
<1>8. ASSUME NEW i \in 1..16 PROVE Follows("reset", p[i], Rest(p, i + 1))
    BY <1>1, <1>2, <1>3, <1>4, <1>5, <1>6, <1>7
    DEF Follows, FollowsAny, FollowsReset, Changing, Records
<1> QED  BY <1>1, <1>2, <1>3, <1>4, <1>5, <1>6, <1>7, <1>8
        DEF WellMade, RepairMade, QuietPatchProgram, Withdraw

LEMMA RedoDeployIsMade ==
    RepairMade("deploy", <<"validate", "upStateless", "clear">>, {"upStateless"})
<1> PICK p : p = <<"validate", "upStateless", "clear">>
    OBVIOUS
<1>1. Len(p) = 3 /\ Len(p) \in Nat  OBVIOUS
<1>2. /\ p[1] = "validate" /\ p[2] = "upStateless" /\ p[3] = "clear"
    OBVIOUS
<1>3. /\ Rest(p, 4) = {}
      /\ \A n \in 1..3 : Rest(p, n) = {p[n]} \cup Rest(p, n + 1)
    <2>1. \A n \in 1..Len(p) : Rest(p, n) = {p[n]} \cup Rest(p, n + 1)  BY <1>1, RestStep
    <2>2. Rest(p, Len(p) + 1) = {}  BY <1>1, RestEmpty
    <2> QED  BY <1>1, <2>1, <2>2
<1>4. /\ Rest(p, 3) = {"clear"}
      /\ Rest(p, 2) = {"upStateless", "clear"}
      /\ Rest(p, 1) = {"validate", "upStateless", "clear"}
    BY <1>2, <1>3
<1>5. ASSUME NEW i \in 1..3 PROVE Follows("deploy", p[i], Rest(p, i + 1))
    BY <1>1, <1>2, <1>3, <1>4
    DEF Follows, FollowsAny, FollowsDeploy, Changing, Records
<1> QED  BY <1>1, <1>2, <1>3, <1>4, <1>5
        DEF WellMade, RepairMade, QuietPatchProgram, Withdraw

LEMMA RedoPatchIsMade ==
    RepairMade("patch", <<"validate", "reconcile", "reload", "clear">>, {"reconcile",
    "reload"})
<1> PICK p : p = <<"validate", "reconcile", "reload", "clear">>
    OBVIOUS
<1>1. Len(p) = 4 /\ Len(p) \in Nat  OBVIOUS
<1>2. /\ p[1] = "validate" /\ p[2] = "reconcile" /\ p[3] = "reload" /\ p[4] = "clear"
    OBVIOUS
<1>3. /\ Rest(p, 5) = {}
      /\ \A n \in 1..4 : Rest(p, n) = {p[n]} \cup Rest(p, n + 1)
    <2>1. \A n \in 1..Len(p) : Rest(p, n) = {p[n]} \cup Rest(p, n + 1)  BY <1>1, RestStep
    <2>2. Rest(p, Len(p) + 1) = {}  BY <1>1, RestEmpty
    <2> QED  BY <1>1, <2>1, <2>2
<1>4. /\ Rest(p, 4) = {"clear"}
      /\ Rest(p, 3) = {"reload", "clear"}
      /\ Rest(p, 2) = {"reconcile", "reload", "clear"}
      /\ Rest(p, 1) = {"validate", "reconcile", "reload", "clear"}
    BY <1>2, <1>3
<1>5. ASSUME NEW i \in 1..4 PROVE Follows("patch", p[i], Rest(p, i + 1))
    BY <1>1, <1>2, <1>3, <1>4
    DEF Follows, FollowsAny, FollowsPatch, Changing, Records
<1> QED  BY <1>1, <1>2, <1>3, <1>4, <1>5
        DEF WellMade, RepairMade, QuietPatchProgram, Withdraw

-----------------------------------------------------------------------------
(***************************************************************************)
(* A step of a well made program, on the server.                           *)
(***************************************************************************)
Outcomes(s, t, w) == Leaves(s, t, w) \cup {After(s, t, w)}

LEMMA NoChange ==
    ASSUME NEW s, NEW t, NEW w, s \notin Changing, NEW v \in Outcomes(s, t, w)
    PROVE  v = w
BY DEF Outcomes, Leaves, After, Changing

LEMMA EnteredType ==
    ASSUME NEW t \in Envs
    PROVE  /\ Entered(t) \in Entry /\ Entered(t) # None /\ t # None
           /\ Entered(t).env = t /\ ~Entered(t).repair
<1>1. Entered(t) \in Entry  BY DEF Entered, Entry
<1> QED  BY <1>1, LifecycleAssumption DEF Entered

LEMMA CreateStep ==
    ASSUME NEW w \in World, NEW t \in Envs, NEW o, NEW s, NEW rest,
           Accepts(s, t, w), FollowsCreate(s, rest), StandingCreate(t, o, w),
           CourseCreate(t, w, {s} \cup rest) \/ s = "reload",
           NEW v \in Outcomes(s, t, w)
    PROVE  /\ StandingCreate(t, o, v)
           /\ v = After(s, t, w) /\ CourseCreate(t, w, {s} \cup rest) => CourseCreate(t, v, rest)
<1>1. t # None /\ Entered(t) # None  BY EnteredType
<1>2. CASE s \notin Changing
    <2>1. v = w  BY <1>2, NoChange
    <2>2. s = "validate" => w.env # None  BY DEF Accepts
    <2> QED  BY <1>2, <2>1, <2>2 DEF CourseCreate, Changing
<1>3. CASE s = "createEnv"
    <2>1. v \in {w, [w EXCEPT !.env = t]} /\ After(s, t, w) = [w EXCEPT !.env = t]
        BY <1>3 DEF Outcomes, Leaves, After
    <2> QED  BY <1>1, <1>3, <2>1 DEF CourseCreate, StandingCreate, World
<1>4. CASE s = "upsertEntry"
    <2>1. v \in {w, [w EXCEPT !.entry = Entered(t)]}
            /\ After(s, t, w) = [w EXCEPT !.entry = Entered(t)]
        BY <1>4 DEF Outcomes, Leaves, After, Entered
    <2>2. w.env # None  BY <1>4 DEF FollowsCreate, CourseCreate
    <2> QED  BY <1>1, <1>4, <2>1, <2>2 DEF CourseCreate, StandingCreate, World, FollowsCreate
<1>5. CASE s = "sync"
    <2>1. w.env = t  BY <1>5 DEF Accepts, StandingCreate
    <2>2. Synced(w) = [w EXCEPT !.entry = Entered(t)]
        <3>1. CASE w.entry = None  BY <2>1, <3>1 DEF Synced, Entered
        <3>2. CASE w.entry = Entered(t)  BY <2>1, <3>2 DEF Synced, Entered
        <3> QED  BY <3>1, <3>2 DEF StandingCreate
    <2>3. v \in {w, [w EXCEPT !.entry = Entered(t)]}
            /\ After(s, t, w) = [w EXCEPT !.entry = Entered(t)]
        BY <1>5, <2>2 DEF Outcomes, Leaves, After
    <2> QED  BY <1>1, <1>5, <2>1, <2>3 DEF CourseCreate, StandingCreate, World, FollowsCreate
<1>6. CASE s \in {"up", "upAnyway"}
    <2>1. w.env = t  BY <1>6 DEF Accepts, StandingCreate
    <2>2. After(s, t, w) = [w EXCEPT !.stack = t, !.data = IF w.data = None THEN t ELSE w.data]
        BY <1>6, <2>1 DEF After
    <2>3. v \in {w, [w EXCEPT !.stack = t], After(s, t, w)}
        BY <1>6, <2>1 DEF Outcomes, Leaves
    <2>4. /\ v.env = t /\ v.entry = w.entry /\ v.shared = w.shared
          /\ v.stack \in {w.stack, t} /\ v.data \in {w.data, t}
          /\ v = After(s, t, w) => v.stack = t /\ v.data # None
        BY <1>1, <2>1, <2>2, <2>3 DEF World
    <2> QED  BY <1>1, <1>6, <2>1, <2>4 DEF CourseCreate, StandingCreate, FollowsCreate
<1>7. CASE s = "reload"
    <2>1. v \in {w, [w EXCEPT !.shared = w.entry]}
            /\ After(s, t, w) = [w EXCEPT !.shared = w.entry]
        BY <1>7 DEF Outcomes, Leaves, After
    <2>2. /\ v.env = w.env /\ v.entry = w.entry /\ v.stack = w.stack /\ v.data = w.data
          /\ v.shared \in {w.shared, w.entry}
          /\ v = After(s, t, w) => v.shared = w.entry
          /\ w = EmptyWorld => v = EmptyWorld
        BY <2>1 DEF World, EmptyWorld
    <2> QED  BY <1>1, <1>7, <2>2 DEF CourseCreate, StandingCreate
<1> QED  BY <1>2, <1>3, <1>4, <1>5, <1>6, <1>7 DEF FollowsCreate

LEMMA CloseStep ==
    ASSUME NEW w \in World, NEW t, NEW s, NEW rest,
           Accepts(s, t, w), FollowsClose(s, rest), StandingClose(w),
           CourseClose(w, {s} \cup rest),
           NEW v \in Outcomes(s, t, w)
    PROVE  /\ StandingClose(v)
           /\ v = After(s, t, w) => CourseClose(v, rest)
<1>1. CASE s \notin Changing
    <2>1. v = w  BY <1>1, NoChange
    <2> QED  BY <1>1, <2>1 DEF CourseClose, Changing
<1>2. CASE s = "down"
    <2>1. v \in {w, [w EXCEPT !.stack = None], [w EXCEPT !.stack = None, !.data = None]}
            /\ After(s, t, w) = [w EXCEPT !.stack = None, !.data = None]
        BY <1>2 DEF Outcomes, Leaves, After
    <2>2. w.env # None  BY <1>2 DEF Accepts
    <2> QED  BY <1>2, <2>1, <2>2 DEF CourseClose, StandingClose, World
<1>3. CASE s = "removeEnv"
    <2>1. v \in {w, [w EXCEPT !.env = None]} /\ After(s, t, w) = [w EXCEPT !.env = None]
        BY <1>3 DEF Outcomes, Leaves, After
    <2>2. w.stack = None /\ w.data = None  BY <1>3 DEF CourseClose, FollowsClose
    <2> QED  BY <1>3, <2>1, <2>2 DEF CourseClose, StandingClose, World
<1>4. CASE s = "removeEntry"
    <2>1. v \in {w, [w EXCEPT !.entry = None]} /\ After(s, t, w) = [w EXCEPT !.entry = None]
        BY <1>4 DEF Outcomes, Leaves, After
    <2> QED  BY <1>4, <2>1 DEF CourseClose, StandingClose, World
<1>5. CASE s = "reload"
    <2>1. v \in {w, [w EXCEPT !.shared = w.entry]}
            /\ After(s, t, w) = [w EXCEPT !.shared = w.entry]
        BY <1>5 DEF Outcomes, Leaves, After
    <2>2. w.entry = None  BY <1>5 DEF CourseClose, FollowsClose
    <2> QED  BY <1>5, <2>1, <2>2 DEF CourseClose, StandingClose, World
<1> QED  BY <1>1, <1>2, <1>3, <1>4, <1>5 DEF FollowsClose

LEMMA SyncedFields ==
    ASSUME NEW w \in World
    PROVE  /\ Synced(w).env = w.env /\ Synced(w).stack = w.stack
           /\ Synced(w).data = w.data /\ Synced(w).shared = w.shared
           /\ w.env # None => Synced(w).entry # None
           /\ Synced(w).entry.env = w.env
           /\ w.entry # None /\ ~w.entry.repair => ~Synced(w).entry.repair
<1>1. Synced(w).entry = [env |-> w.env, repair |-> w.entry # None /\ w.entry.repair]
    BY DEF Synced, World
<1>2. /\ Synced(w).env = w.env /\ Synced(w).stack = w.stack
      /\ Synced(w).data = w.data /\ Synced(w).shared = w.shared
    BY DEF Synced, World
<1>3. ASSUME w.env # None PROVE Synced(w).entry # None
    <2>1. (w.entry # None /\ w.entry.repair) \in BOOLEAN /\ w.env \in Envs
        BY <1>3 DEF World
    <2>2. Synced(w).entry \in Entry  BY <1>1, <2>1 DEF Entry
    <2> QED  BY <2>2, LifecycleAssumption
<1>4. Synced(w).entry.env = w.env /\ Synced(w).entry.repair = (w.entry # None /\ w.entry.repair)
    BY <1>1
<1> QED  BY <1>2, <1>3, <1>4

LEMMA SetRepairFields ==
    ASSUME NEW w \in World, w.entry # None, NEW flag \in BOOLEAN
    PROVE  /\ SetRepair(w, flag).env = w.env /\ SetRepair(w, flag).stack = w.stack
           /\ SetRepair(w, flag).data = w.data /\ SetRepair(w, flag).shared = w.shared
           /\ SetRepair(w, flag).entry = [env |-> w.entry.env, repair |-> flag]
<1>1. w.entry \in Entry  BY DEF World
<1>2. [w.entry EXCEPT !.repair = flag] = [env |-> w.entry.env, repair |-> flag]
    BY <1>1 DEF Entry
<1> QED  BY <1>2 DEF SetRepair, World

\* An entry is never no entry.
LEMMA EntryIsThere ==
    ASSUME NEW e \in Envs, NEW flag
    PROVE  flag \in BOOLEAN => [env |-> e, repair |-> flag] # None
BY LifecycleAssumption DEF Entry

LEMMA ResetStep ==
    ASSUME NEW w \in World, NEW t \in Envs, NEW s, NEW rest,
           Accepts(s, t, w), FollowsReset(s, rest), CourseReset(t, w, {s} \cup rest)
    PROVE  CourseReset(t, After(s, t, w), rest)
<1> PICK v : v = After(s, t, w)
    OBVIOUS
<1>1. CASE s \notin Changing
    <2>1. v = w  BY <1>1 DEF After, Changing
    <2>2. s = "targetReached" => w.env = t  BY DEF Accepts
    <2>3. s = "verifyRuntime" => w.stack = w.env /\ w.data = w.env  BY DEF Accepts
    <2> QED  BY <1>1, <2>1, <2>2, <2>3 DEF CourseReset, Changing
<1>2. CASE s = "writeEnv"
    <2>1. v = [w EXCEPT !.env = t]  BY <1>2 DEF After
    <2> QED  BY <1>2, <2>1 DEF CourseReset, FollowsReset, World
<1>3. CASE s \in {"sync", "reconcile"}
    <2>1. v = Synced(w) /\ w.env # None /\ w.env \in Envs  BY <1>3 DEF After, Accepts, World
    <2>2. v.entry # None /\ v.entry.env = w.env
        BY <2>1, SyncedFields
    <2>3. w.entry # None /\ ~w.entry.repair => ~v.entry.repair
        BY <2>1, SyncedFields
    <2>4. v.env = w.env /\ v.stack = w.stack /\ v.data = w.data /\ v.shared = w.shared
        BY <2>1, SyncedFields
    <2> QED  BY <1>3, <2>2, <2>3, <2>4 DEF CourseReset
<1>4. CASE s \in {"requireRepair", "clearRepair"}
    <2>1. w.entry # None /\ w.entry.env \in Envs
        BY <1>4, EntryType DEF Accepts, World
    <2>2. PICK flag \in BOOLEAN : v = SetRepair(w, flag) /\ (flag = (s = "requireRepair"))
        BY <1>4 DEF After
    <2>3. /\ v.env = w.env /\ v.stack = w.stack /\ v.data = w.data /\ v.shared = w.shared
          /\ v.entry = [env |-> w.entry.env, repair |-> flag]
        BY <2>1, <2>2, SetRepairFields
    <2>4. v.entry # None /\ v.entry.env = w.entry.env /\ v.entry.repair = flag
        BY <2>1, <2>3, EntryIsThere
    <2> QED  BY <1>4, <2>2, <2>3, <2>4 DEF CourseReset, FollowsReset
<1>5. CASE s \in {"down", "up"}
    <2>1. v.env = w.env /\ v.entry = w.entry /\ v.shared = w.shared
        BY <1>5 DEF After, World
    <2> QED  BY <1>5, <2>1 DEF CourseReset, FollowsReset
<1>6. CASE s = "reload"
    <2>1. v = [w EXCEPT !.shared = w.entry]  BY <1>6 DEF After
    <2>2. w.env = t /\ w.entry # None /\ w.entry.env = w.env /\ ~w.entry.repair
        BY <1>6 DEF CourseReset, FollowsReset
    <2>3. w.entry = Entered(t)
        BY <2>2 DEF World, Entry, Entered
    <2> QED  BY <1>6, <2>1, <2>2, <2>3 DEF CourseReset, World
<1> QED  BY <1>1, <1>2, <1>3, <1>4, <1>5, <1>6 DEF FollowsReset

\* What is left of the env file and the loaded entry of a server that was reset.
LEMMA ResetKeeps ==
    ASSUME NEW w \in World, NEW t \in Envs, NEW s, NEW rest,
           Accepts(s, t, w), FollowsReset(s, rest), CourseReset(t, w, {s} \cup rest),
           NEW v \in Outcomes(s, t, w), Won("reset", t, w)
    PROVE  Won("reset", t, v)
<1>1. w.env = t /\ w.shared = Entered(t)  BY DEF Won
<1>2. CASE s \notin Changing
    <2>1. v = w  BY <1>2, NoChange
    <2> QED  BY <2>1
<1>3. CASE s = "writeEnv"
    <2>1. v \in {w, [w EXCEPT !.env = t]}  BY <1>3 DEF Outcomes, Leaves, After
    <2> QED  BY <1>1, <2>1 DEF Won, World
<1>4. CASE s \in {"sync", "reconcile"}
    <2>1. v \in {w, Synced(w)}  BY <1>4 DEF Outcomes, Leaves, After
    <2> QED  BY <1>1, <2>1, SyncedFields DEF Won
<1>5. CASE s \in {"requireRepair", "clearRepair"}
    <2>1. v \in {w, SetRepair(w, TRUE), SetRepair(w, FALSE)} /\ w.entry # None
        BY <1>5 DEF Outcomes, Leaves, After, Accepts
    <2> QED  BY <1>1, <2>1, SetRepairFields DEF Won
<1>6. CASE s \in {"down", "up"}
    <2>1. v.env = w.env /\ v.shared = w.shared
        BY <1>6 DEF Outcomes, Leaves, After, World
    <2> QED  BY <1>1, <2>1 DEF Won
<1>7. CASE s = "reload"
    <2>1. v = w \/ v = After(s, t, w)  BY <1>7 DEF Outcomes, Leaves
    <2>2. v = After(s, t, w) => v.shared = Entered(t) /\ v.env = w.env
        <3>1. CourseReset(t, After(s, t, w), rest)  BY ResetStep
        <3>2. w.entry # None /\ w.entry.env = w.env /\ ~w.entry.repair
            BY <1>7 DEF CourseReset, FollowsReset
        <3>3. w.entry = Entered(t)  BY <1>1, <3>2 DEF World, Entry, Entered
        <3> QED  BY <1>7, <3>3 DEF After, World
    <2> QED  BY <1>1, <2>1, <2>2 DEF Won
<1> QED  BY <1>2, <1>3, <1>4, <1>5, <1>6, <1>7 DEF FollowsReset

LEMMA DeployStep ==
    ASSUME NEW w \in World, NEW t \in Envs, NEW o, NEW s, NEW rest,
           Accepts(s, t, w), FollowsDeploy(s, rest), StandingDeploy(t, o, w),
           CourseDeploy(w, {s} \cup rest),
           NEW v \in Outcomes(s, t, w)
    PROVE  /\ StandingDeploy(t, o, v)
           /\ v = After(s, t, w) => CourseDeploy(v, rest)
<1>1. CASE s \notin Changing
    <2>1. v = w  BY <1>1, NoChange
    <2> QED  BY <1>1, <2>1 DEF CourseDeploy, Changing
<1>2. CASE s = "writeEnv"
    <2>1. v \in {w, [w EXCEPT !.env = t]} /\ After(s, t, w) = [w EXCEPT !.env = t]
        BY <1>2 DEF Outcomes, Leaves, After
    <2> QED  BY <1>2, <2>1 DEF CourseDeploy, StandingDeploy, World, FollowsDeploy
<1>3. CASE s = "upStateless"
    <2>1. v \in {w, [w EXCEPT !.stack = w.env]} /\ After(s, t, w) = [w EXCEPT !.stack = w.env]
        BY <1>3 DEF Outcomes, Leaves, After
    <2> QED  BY <1>3, <2>1 DEF CourseDeploy, StandingDeploy, World
<1> QED  BY <1>1, <1>2, <1>3 DEF FollowsDeploy

LEMMA PatchStep ==
    ASSUME NEW w \in World, NEW t \in Envs, NEW o, NEW s, NEW rest,
           Accepts(s, t, w), FollowsPatch(s, rest), StandingPatch(t, o, w),
           CoursePatch(w, {s} \cup rest),
           NEW v \in Outcomes(s, t, w)
    PROVE  /\ StandingPatch(t, o, v)
           /\ v = After(s, t, w) => CoursePatch(v, rest)
<1>1. CASE s \notin Changing
    <2>1. v = w  BY <1>1, NoChange
    <2> QED  BY <1>1, <2>1 DEF CoursePatch, Changing
<1>2. CASE s = "writeEnv"
    <2>1. v \in {w, [w EXCEPT !.env = t]} /\ After(s, t, w) = [w EXCEPT !.env = t]
        BY <1>2 DEF Outcomes, Leaves, After
    <2> QED  BY <1>2, <2>1 DEF CoursePatch, StandingPatch, World, FollowsPatch
<1>3. CASE s \in {"sync", "reconcile"}
    <2>1. v \in {w, Synced(w)} /\ After(s, t, w) = Synced(w) /\ w.env # None
        BY <1>3 DEF Outcomes, Leaves, After, Accepts
    <2>2. w.entry # None /\ ~w.entry.repair  BY DEF StandingPatch
    <2>3. /\ Synced(w).env = w.env /\ Synced(w).stack = w.stack
          /\ Synced(w).data = w.data /\ Synced(w).shared = w.shared
          /\ Synced(w).entry # None /\ Synced(w).entry.env = w.env
          /\ ~Synced(w).entry.repair
        BY <2>1, <2>2, SyncedFields
    <2> QED  BY <1>3, <2>1, <2>3 DEF CoursePatch, StandingPatch, FollowsPatch
<1>4. CASE s = "reload"
    <2>1. v \in {w, [w EXCEPT !.shared = w.entry]}
            /\ After(s, t, w) = [w EXCEPT !.shared = w.entry]
        BY <1>4 DEF Outcomes, Leaves, After
    <2> QED  BY <1>4, <2>1 DEF CoursePatch, StandingPatch, World
<1> QED  BY <1>1, <1>2, <1>3, <1>4 DEF FollowsPatch

\* Success stands under every step of the other programs.
LEMMA CreateKeeps ==
    ASSUME NEW w \in World, NEW t \in Envs, NEW s, NEW rest,
           Accepts(s, t, w), FollowsCreate(s, rest),
           NEW v \in Outcomes(s, t, w), Won("create", t, w)
    PROVE  Won("create", t, v)
<1>1. w = [RunningWorld(t) EXCEPT !.data = w.data] /\ w.data # None
    BY DEF Won, Reached
<1>2. /\ w.env = t /\ w.entry = Entered(t) /\ w.stack = t /\ w.shared = Entered(t)
    BY <1>1 DEF RunningWorld, Entered
<1>3. v = w
    <2>1. CASE s \notin Changing  BY <2>1, NoChange
    <2>2. CASE s \in {"createEnv", "upsertEntry", "reload"}
        <3>1. /\ [w EXCEPT !.env = w.env] = w /\ [w EXCEPT !.entry = w.entry] = w
              /\ [w EXCEPT !.shared = w.shared] = w
            BY DEF World
        <3>2. After(s, t, w) \in {[w EXCEPT !.env = w.env], [w EXCEPT !.entry = w.entry],
                                  [w EXCEPT !.shared = w.shared]}
            BY <1>2, <2>2 DEF After, Entered
        <3> QED  BY <2>2, <3>1, <3>2 DEF Outcomes, Leaves
    <2>3. CASE s \in {"up", "upAnyway"}
        <3>1. /\ [w EXCEPT !.stack = w.stack] = w
              /\ [w EXCEPT !.stack = w.stack, !.data = w.data] = w
            BY DEF World
        <3>2. /\ After(s, t, w) = [w EXCEPT !.stack = w.stack, !.data = w.data]
              /\ v \in {w, [w EXCEPT !.stack = w.stack], After(s, t, w)}
            BY <1>1, <1>2, <2>3 DEF Outcomes, Leaves, After
        <3> QED  BY <3>1, <3>2
    <2>4. CASE s = "sync"
        <3>1. [env |-> w.env, repair |-> w.entry # None /\ w.entry.repair] = Entered(t)
            BY <1>2, EnteredType DEF Entered
        <3>2. Synced(w) = w  BY <1>2, <3>1 DEF Synced, World
        <3> QED  BY <2>4, <3>2 DEF Outcomes, Leaves, After
    <2> QED  BY <2>1, <2>2, <2>3, <2>4 DEF FollowsCreate
<1> QED  BY <1>3

LEMMA CloseKeeps ==
    ASSUME NEW w \in World, NEW t, NEW s, NEW rest,
           Accepts(s, t, w), FollowsClose(s, rest),
           NEW v \in Outcomes(s, t, w), Won("close", t, w)
    PROVE  Won("close", t, v)
<1>1. w = EmptyWorld  BY DEF Won, Reached
<1>2. v = w
    <2>1. CASE s \notin Changing  BY <2>1, NoChange
    <2>2. CASE s = "down"  BY <1>1, <2>2 DEF Accepts, EmptyWorld
    <2>3. CASE s \in {"removeEnv", "removeEntry", "reload"}
        BY <1>1, <2>3 DEF Outcomes, Leaves, After, EmptyWorld
    <2> QED  BY <2>1, <2>2, <2>3 DEF FollowsClose
<1> QED  BY <1>2

\* All together.
LEMMA ServerStep ==
    ASSUME NEW w \in World, NEW kind \in Kinds, NEW t \in Envs \cup {None},
           (t = None) = (kind = "close"), NEW o, NEW s, NEW rest,
           Accepts(s, t, w), Follows(kind, s, rest), Standing(kind, t, o, w),
           OnCourse(kind, t, w, {s} \cup rest) \/ (kind = "create" /\ s = "reload"),
           NEW v \in Outcomes(s, t, w)
    PROVE  /\ Standing(kind, t, o, v)
           /\ Won(kind, t, w) => Won(kind, t, v)
           /\ v = After(s, t, w) /\ OnCourse(kind, t, w, {s} \cup rest) =>
                OnCourse(kind, t, v, rest)
<1>1. kind # "close" => t \in Envs  OBVIOUS
<1>2. CASE kind = "create"
    <2>1. /\ FollowsCreate(s, rest) /\ StandingCreate(t, o, w)
          /\ CourseCreate(t, w, {s} \cup rest) \/ s = "reload"
        BY <1>2 DEF Follows, Standing, OnCourse
    <2>2. /\ StandingCreate(t, o, v)
          /\ v = After(s, t, w) /\ CourseCreate(t, w, {s} \cup rest) => CourseCreate(t, v, rest)
        BY <1>1, <1>2, <2>1, CreateStep
    <2>3. Won("create", t, w) => Won("create", t, v)
        BY <1>1, <1>2, <2>1, CreateKeeps
    <2> QED  BY <1>2, <2>2, <2>3 DEF Standing, OnCourse
<1>3. CASE kind = "close"
    <2>1. /\ FollowsClose(s, rest) /\ StandingClose(w) /\ CourseClose(w, {s} \cup rest)
        BY <1>3 DEF Follows, Standing, OnCourse
    <2>2. /\ StandingClose(v) /\ (v = After(s, t, w) => CourseClose(v, rest))
        BY <2>1, CloseStep
    <2>3. Won("close", t, w) => Won("close", t, v)
        BY <2>1, CloseKeeps
    <2> QED  BY <1>3, <2>2, <2>3 DEF Standing, OnCourse
<1>4. CASE kind = "reset"
    <2>1. FollowsReset(s, rest) /\ CourseReset(t, w, {s} \cup rest)
        BY <1>4 DEF Follows, Standing, OnCourse
    <2>2. CourseReset(t, After(s, t, w), rest)
        BY <1>1, <1>4, <2>1, ResetStep
    <2>3. Won("reset", t, w) => Won("reset", t, v)
        BY <1>1, <1>4, <2>1, ResetKeeps
    <2> QED  BY <1>4, <2>2, <2>3 DEF Standing, OnCourse
<1>5. CASE kind = "deploy"
    <2>1. FollowsDeploy(s, rest) /\ StandingDeploy(t, o, w) /\ CourseDeploy(w, {s} \cup rest)
        BY <1>5 DEF Follows, Standing, OnCourse
    <2>2. StandingDeploy(t, o, v) /\ (v = After(s, t, w) => CourseDeploy(v, rest))
        BY <1>1, <1>5, <2>1, DeployStep
    <2> QED  BY <1>5, <2>2 DEF Standing, OnCourse, Won
<1>6. CASE kind = "patch"
    <2>1. FollowsPatch(s, rest) /\ StandingPatch(t, o, w) /\ CoursePatch(w, {s} \cup rest)
        BY <1>6 DEF Follows, Standing, OnCourse
    <2>2. StandingPatch(t, o, v) /\ (v = After(s, t, w) => CoursePatch(v, rest))
        BY <1>1, <1>6, <2>1, PatchStep
    <2> QED  BY <1>6, <2>2 DEF Standing, OnCourse, Won
<1> QED  BY <1>2, <1>3, <1>4, <1>5, <1>6 DEF Kinds

\* Where a program ends, the journal has what it wanted, and the server is in order.
LEMMA CourseEnds ==
    ASSUME NEW w \in World, NEW j, j.kind \in Kinds, NEW o \in World, NEW left,
           j.target \in Envs \cup {None}, (j.target = None) = (j.kind = "close"),
           Standing(j.kind, j.target, o, w), OnCourse(j.kind, j.target, w, left),
           left \subseteq {"clear", "succeed"}
    PROVE  /\ Reached(j, o, w) /\ Consistent(w)
           /\ Won(j.kind, j.target, w)
           /\ j.kind \in {"deploy", "patch"} => w.env # None
<1> PICK t : t = j.target
    OBVIOUS
<1>1. {"createEnv", "validate", "upsertEntry", "sync", "upAnyway", "up", "reload", "down",
       "removeEnv", "removeEntry", "writeEnv", "targetReached", "verifyRuntime", "reconcile",
       "clearRepair", "upStateless"} \cap left = {}
    OBVIOUS
<1>2. j.kind # "close" => t \in Envs  OBVIOUS
<1>3. CASE j.kind = "create"
    <2>1. /\ w.env # None /\ w.entry # None /\ w.stack = t /\ w.data # None
          /\ w.shared = w.entry
        BY <1>1, <1>3 DEF OnCourse, CourseCreate
    <2>2. w.env = t /\ w.entry = Entered(t)
        BY <1>3, <2>1 DEF Standing, StandingCreate
    <2>3. w = [RunningWorld(t) EXCEPT !.data = w.data]
        <3>1. w = [env |-> t, entry |-> Entered(t), stack |-> t, data |-> w.data,
                   shared |-> Entered(t)]
            BY <2>1, <2>2 DEF World
        <3>2. [RunningWorld(t) EXCEPT !.data = w.data] =
                  [env |-> t, entry |-> Entered(t), stack |-> t, data |-> w.data,
                   shared |-> Entered(t)]
            <4>1. RunningWorld(t) = [env |-> t, entry |-> Entered(t), stack |-> t,
                                     data |-> t, shared |-> Entered(t)]
                BY DEF RunningWorld, Entered
            <4> QED  BY <4>1
        <3> QED  BY <3>1, <3>2
    <2>4. Consistent(w)
        BY <1>2, <1>3, <2>1, <2>2, EnteredType DEF Consistent
    <2> QED  BY <1>3, <2>1, <2>3, <2>4 DEF Reached, Won
<1>4. CASE j.kind = "close"
    <2>1. w = EmptyWorld
        BY <1>1, <1>4 DEF OnCourse, CourseClose, EmptyWorld, World
    <2> QED  BY <1>4, <2>1 DEF Reached, Won, Consistent, EmptyWorld
<1>5. CASE j.kind = "reset"
    <2>1. /\ w.env = t /\ w.stack = w.env /\ w.data = w.env
          /\ w.entry # None /\ w.entry.env = w.env /\ ~w.entry.repair
          /\ w.shared = Entered(t)
        BY <1>1, <1>5 DEF OnCourse, CourseReset
    <2>2. w.entry = Entered(t)  BY <2>1 DEF World, Entry, Entered
    <2>3. w = RunningWorld(t)  BY <2>1, <2>2 DEF RunningWorld, Entered, World
    <2>4. Consistent(w)  BY <1>2, <1>5, <2>1, <2>2, EnteredType DEF Consistent
    <2> QED  BY <1>5, <2>1, <2>3, <2>4 DEF Reached, Won
<1>6. CASE j.kind = "deploy"
    <2>1. w.stack = w.env /\ StandingDeploy(t, o, w)
        BY <1>1, <1>6 DEF OnCourse, CourseDeploy, Standing
    <2>2. w.env # None  BY <1>2, <1>6, <2>1, EnteredType DEF StandingDeploy
    <2>3. Consistent(w)
        BY <1>2, <2>1, <2>2 DEF Consistent, StandingDeploy
    <2> QED  BY <1>6, <2>1, <2>2, <2>3 DEF Reached, Won, StandingDeploy
<1>7. CASE j.kind = "patch"
    <2>1. w.entry.env = w.env /\ w.shared = w.entry /\ StandingPatch(t, o, w)
        BY <1>1, <1>7 DEF OnCourse, CoursePatch, Standing
    <2>2. w.env # None  BY <1>2, <1>7, <2>1, EnteredType DEF StandingPatch
    <2>3. Consistent(w)
        BY <2>1, <2>2 DEF Consistent, StandingPatch
    <2> QED  BY <1>7, <2>1, <2>2, <2>3 DEF Reached, Won, StandingPatch
<1> QED  BY <1>3, <1>4, <1>5, <1>6, <1>7 DEF Kinds

-----------------------------------------------------------------------------
(***************************************************************************)
(* Which program is chosen, and that the server is where it begins.        *)
(***************************************************************************)
LEMMA HandlerPrograms ==
    ASSUME NEW kind \in Kinds, NEW target
    PROVE  \/ HandlerMade(kind, Program(kind, target))
           \/ /\ kind = "patch" /\ ~ChangesRegistry(target)
              /\ Program(kind, target) = QuietPatchProgram
<1>1. CASE kind = "create"  BY <1>1, CreateIsMade DEF Program
<1>2. CASE kind = "close"   BY <1>2, CloseIsMade DEF Program
<1>3. CASE kind = "reset"   BY <1>3, ResetIsMade DEF Program
<1>4. CASE kind = "deploy"  BY <1>4, DeployIsMade DEF Program
<1>5. CASE kind = "patch"   BY <1>5, PatchIsMade DEF Program
<1> QED  BY <1>1, <1>2, <1>3, <1>4, <1>5 DEF Kinds

\* A program is known by its length and its steps.
LEMMA SameProgram ==
    ASSUME NEW p \in Seq(Steps), NEW q \in Seq(Steps), NEW r \in Seq(Steps),
           Len(r) = Len(p) + Len(q), \A i \in 1..Len(p) : r[i] = p[i],
           \A i \in 1..Len(q) : r[Len(p) + i] = q[i]
    PROVE  p \o q = r
<1>1. /\ p \o q \in Seq(Steps) /\ Len(p \o q) = Len(p) + Len(q)
      /\ \A i \in 1..Len(p) : (p \o q)[i] = p[i]
      /\ \A i \in Len(p) + 1..Len(p) + Len(q) : (p \o q)[i] = q[i - Len(p)]
    BY AppendedProgram
<1>2. \A i \in 1..Len(r) : r[i] = (p \o q)[i]
    <2>1. \A i \in 1..Len(r) : \/ i \in 1..Len(p)
                               \/ /\ i \in Len(p) + 1..Len(p) + Len(q)
                                  /\ i - Len(p) \in 1..Len(q) /\ Len(p) + (i - Len(p)) = i
        OBVIOUS
    <2> QED  BY <1>1, <2>1
<1> QED  BY <1>1, <1>2

LEMMA RedoCreateIs ==
    ~Nothing => RedoCreate = IF world.entry = None
                               THEN <<"validate", "sync", "up", "reload", "succeed", "clear">>
                               ELSE <<"validate", "up", "reload", "succeed", "clear">>
<1> DEFINE p == <<"validate">>
           s == <<"validate", "sync">>
           q == <<"up", "reload", "succeed", "clear">>
           r == <<"validate", "up", "reload", "succeed", "clear">>
           z == <<"validate", "sync", "up", "reload", "succeed", "clear">>
<1>1. {p, s, q, r, z} \subseteq Seq(Steps)  BY DEF Steps, OwnSteps
<1>2. /\ Len(r) = Len(p) + Len(q) /\ (\A i \in 1..Len(p) : r[i] = p[i])
      /\ \A i \in 1..Len(q) : r[Len(p) + i] = q[i]
    OBVIOUS
<1>3. /\ Len(z) = Len(s) + Len(q) /\ (\A i \in 1..Len(s) : z[i] = s[i])
      /\ \A i \in 1..Len(q) : z[Len(s) + i] = q[i]
    OBVIOUS
<1>4. ~Nothing => RedoCreate = (IF world.entry = None THEN s ELSE p) \o q
    BY DEF RedoCreate, Nothing
<1> HIDE DEF p, s, q, r, z
<1>5. p \o q = r  BY <1>1, <1>2, SameProgram
<1>6. s \o q = z  BY <1>1, <1>3, SameProgram
<1>7. ~Nothing => RedoCreate = IF world.entry = None THEN z ELSE r
    BY <1>4, <1>5, <1>6
<1> QED  BY <1>7 DEF r, z

LEMMA RedoCloseIs ==
    RedoClose = IF world.env = None
                  THEN <<"removeEntry", "reload", "succeed", "clear">>
                  ELSE <<"validate", "down", "removeEnv", "removeEntry", "reload",
                         "succeed", "clear">>
<1> DEFINE p == <<"validate", "down", "removeEnv">>
           q == <<"removeEntry", "reload", "succeed", "clear">>
           r == <<"validate", "down", "removeEnv", "removeEntry", "reload", "succeed",
                  "clear">>
<1>1. {p, q, r} \subseteq Seq(Steps)  BY DEF Steps, OwnSteps
<1>2. /\ Len(r) = Len(p) + Len(q) /\ (\A i \in 1..Len(p) : r[i] = p[i])
      /\ \A i \in 1..Len(q) : r[Len(p) + i] = q[i]
    OBVIOUS
<1>3. RedoClose = (IF world.env = None THEN <<>> ELSE p) \o q
    BY DEF RedoClose
<1> HIDE DEF p, q, r
<1>4. p \o q = r  BY <1>1, <1>2, SameProgram
<1>5. <<>> \o q = q  BY <1>1
<1>6. RedoClose = IF world.env = None THEN q ELSE r
    BY <1>3, <1>4, <1>5
<1> QED  BY <1>6 DEF q, r

LEMMA RedoResetIs ==
    \E mid \in {"stageEnv", "validate"} :
        RedoReset = <<"validate", "pull", "writeEnv", mid, "reconcile", "requireRepair",
                      "stageDown", "down", "up", "verifyRuntime", "reconcile", "clearRepair",
                      "reload", "verifyShared", "succeed", "clear">>
<1> DEFINE p == <<"validate", "pull", "writeEnv">>
           q == <<"reconcile", "requireRepair", "stageDown", "down", "up", "verifyRuntime",
                  "reconcile", "clearRepair", "reload", "verifyShared", "succeed", "clear">>
           h(mid) == <<"validate", "pull", "writeEnv", mid>>
           r(mid) == <<"validate", "pull", "writeEnv", mid, "reconcile", "requireRepair",
                       "stageDown", "down", "up", "verifyRuntime", "reconcile",
                       "clearRepair", "reload", "verifyShared", "succeed", "clear">>
<1> PICK mid \in {"stageEnv", "validate"} :
         mid = IF journal.stage = "prepared" THEN "stageEnv" ELSE "validate"
    OBVIOUS
<1>1. /\ p \in Seq(Steps) /\ q \in Seq(Steps) /\ <<mid>> \in Seq(Steps)
      /\ h(mid) \in Seq(Steps)
    BY DEF Steps, OwnSteps
<1>2. r(mid) \in Seq(Steps)
    BY DEF Steps, OwnSteps
<1>3. /\ Len(h(mid)) = Len(p) + Len(<<mid>>)
      /\ \A i \in 1..Len(p) : h(mid)[i] = p[i]
      /\ \A i \in 1..Len(<<mid>>) : h(mid)[Len(p) + i] = <<mid>>[i]
    OBVIOUS
<1>4. /\ Len(r(mid)) = Len(h(mid)) + Len(q)
      /\ \A i \in 1..Len(h(mid)) : r(mid)[i] = h(mid)[i]
      /\ \A i \in 1..Len(q) : r(mid)[Len(h(mid)) + i] = q[i]
    OBVIOUS
<1>5. RedoReset = p \o <<mid>> \o q
    BY DEF RedoReset
<1> HIDE DEF p, q, h, r
<1>6. p \o <<mid>> = h(mid)  BY <1>1, <1>3, SameProgram
<1>7. h(mid) \o q = r(mid)  BY <1>1, <1>2, <1>4, SameProgram
<1>8. RedoReset = r(mid)  BY <1>5, <1>6, <1>7
<1> QED  BY <1>8 DEF r

\* A repair finds the server where its program begins.
LEMMA RepairPrograms ==
    ASSUME TypeInv, UnderJournal, journal # NoJournal, NEW p, p = RepairProgram
    PROVE  /\ RepairMade(journal.kind, p, {})
           /\ IF p = Withdraw THEN journal.kind = "create" /\ world.env = None
              ELSE OnCourse(journal.kind, journal.target, world, Rest(p, 1))
<1> PICK t : t = journal.target
    OBVIOUS
<1>1. /\ journal.kind \in Kinds /\ world \in World
      /\ journal.op # NoOp => journal.kind \in LinkedKinds
      /\ journal.kind # "close" => t \in Envs
      /\ Standing(journal.kind, t, before, world)
      /\ SucceededOn => Won(journal.kind, t, world)
    <2>1. /\ IntentOf(journal) \in Calls /\ IntentOf(journal).op = journal.op
          /\ IntentOf(journal).kind = journal.kind /\ IntentOf(journal).target = t
        BY DEF TypeInv, Requested, IntentOf
    <2> QED  BY <2>1, CallType DEF UnderJournal, TypeInv, TypeOK
<1>2. ASSUME NEW kind, NEW ahead, RepairMade(kind, p, ahead)
      PROVE  /\ RepairMade(kind, p, {})
             /\ ahead \subseteq Rest(p, 1)
             /\ ahead \cap {"validate", "reload", "upStateless", "reconcile"} # {} =>
                    p # Withdraw
    <2>1. Rest(Withdraw, 1) \subseteq {"cancel", "clear"}
        BY WithdrawSteps DEF Rest
    <2> QED  BY <1>2, <2>1 DEF RepairMade
<1>3. CASE journal.op # NoOp /\ record[journal.op] = "succeeded"
    <2>1. p = VerifyProgram(journal.kind)  BY <1>3 DEF RepairProgram
    <2>2. Won(journal.kind, t, world)  BY <1>1, <1>3 DEF SucceededOn
    <2>3. CASE journal.kind = "create"
        <3>1. p = <<"created", "clear">>  BY <2>1, <2>3 DEF VerifyProgram
        <3>2. RepairMade("create", p, {})  BY <3>1, VerifyCreateIsMade
        <3>3. p # Withdraw  BY <3>1 DEF Withdraw
        <3>4. world = [RunningWorld(t) EXCEPT !.data = world.data] /\ world.data # None
            BY <2>2, <2>3 DEF Won, Reached
        <3>5. /\ world.env = t /\ world.entry = Entered(t) /\ world.stack = t
              /\ world.shared = Entered(t)
            BY <3>4 DEF RunningWorld, Entered
        <3>6. world.env # None /\ world.entry # None
            BY <1>1, <2>3, <3>5, EnteredType
        <3>7. CourseCreate(t, world, Rest(p, 1))
            BY <3>4, <3>5, <3>6 DEF CourseCreate
        <3> QED  BY <2>3, <3>2, <3>3, <3>7 DEF OnCourse
    <2>4. CASE journal.kind = "close"
        <3>1. p = <<"closed", "clear">>  BY <2>1, <2>4 DEF VerifyProgram
        <3>2. RepairMade("close", p, {})  BY <3>1, VerifyCloseIsMade
        <3>3. p # Withdraw  BY <3>1 DEF Withdraw
        <3>4. world = EmptyWorld  BY <2>2, <2>4 DEF Won, Reached
        <3>5. CourseClose(world, Rest(p, 1))  BY <3>4 DEF CourseClose, EmptyWorld
        <3> QED  BY <2>4, <3>2, <3>3, <3>5 DEF OnCourse
    <2>5. CASE journal.kind = "reset"
        <3>1. p = <<"targetReached", "verifyRuntime", "reconcile", "clearRepair",
                    "verifyShared", "clear">>
            BY <2>1, <2>5 DEF VerifyProgram
        <3>2. RepairMade("reset", p, {"targetReached", "verifyRuntime", "reconcile",
                                      "clearRepair"})
            BY <3>1, VerifyResetIsMade
        <3>3. world.shared = Entered(t)  BY <2>2, <2>5 DEF Won
        <3>4. CourseReset(t, world, Rest(p, 1))
            BY <1>2, <3>2, <3>3 DEF CourseReset
        <3> QED  BY <1>2, <2>5, <3>2, <3>4 DEF OnCourse
    <2> QED  BY <1>1, <1>3, <2>3, <2>4, <2>5 DEF LinkedKinds
<1>4. CASE ~(journal.op # NoOp /\ record[journal.op] = "succeeded")
    <2>1. p = RedoProgram(journal.kind)  BY <1>4 DEF RepairProgram
    <2>2. CASE journal.kind = "create" /\ Nothing
        <3>1. p = Withdraw  BY <2>1, <2>2 DEF RedoProgram, RedoCreate, Nothing, Withdraw
        <3> QED  BY <2>2, <3>1, WithdrawIsMade DEF Nothing
    <2>3. CASE journal.kind = "create" /\ ~Nothing /\ world.entry = None
        <3>1. p = <<"validate", "sync", "up", "reload", "succeed", "clear">>
            BY <2>1, <2>3, RedoCreateIs DEF RedoProgram
        <3>2. RepairMade("create", p, {"validate", "sync", "up", "reload"})
            BY <3>1, RedoSyncIsMade
        <3>3. CourseCreate(t, world, Rest(p, 1))
            BY <1>2, <3>2 DEF CourseCreate
        <3> QED  BY <1>2, <2>3, <3>2, <3>3 DEF OnCourse
    <2>4. CASE journal.kind = "create" /\ ~Nothing /\ world.entry # None
        <3>1. p = <<"validate", "up", "reload", "succeed", "clear">>
            BY <2>1, <2>4, RedoCreateIs DEF RedoProgram
        <3>2. RepairMade("create", p, {"validate", "up", "reload"})
            BY <3>1, RedoStartIsMade
        <3>3. CourseCreate(t, world, Rest(p, 1))
            BY <1>2, <2>4, <3>2 DEF CourseCreate
        <3> QED  BY <1>2, <2>4, <3>2, <3>3 DEF OnCourse
    <2>5. CASE journal.kind = "close" /\ world.env = None
        <3>1. p = <<"removeEntry", "reload", "succeed", "clear">>
            BY <2>1, <2>5, RedoCloseIs DEF RedoProgram
        <3>2. RepairMade("close", p, {"removeEntry", "reload"})
            BY <3>1, RedoEntryIsMade
        <3>3. world.stack = None /\ world.data = None
            BY <1>1, <2>5 DEF Standing, StandingClose
        <3>4. CourseClose(world, Rest(p, 1))
            BY <1>2, <2>5, <3>2, <3>3 DEF CourseClose
        <3> QED  BY <1>2, <2>5, <3>2, <3>4 DEF OnCourse
    <2>6. CASE journal.kind = "close" /\ world.env # None
        <3>1. p = <<"validate", "down", "removeEnv", "removeEntry", "reload", "succeed",
                    "clear">>
            BY <2>1, <2>6, RedoCloseIs DEF RedoProgram
        <3>2. RepairMade("close", p, {"down", "removeEnv", "removeEntry", "reload"})
            BY <3>1, RedoDownIsMade
        <3>3. CourseClose(world, Rest(p, 1))
            BY <1>2, <3>2 DEF CourseClose
        <3> QED  BY <1>2, <2>6, <3>2, <3>3 DEF OnCourse
    <2>7. CASE journal.kind = "reset"
        <3>1. PICK mid \in {"stageEnv", "validate"} :
                  p = <<"validate", "pull", "writeEnv", mid, "reconcile", "requireRepair",
                        "stageDown", "down", "up", "verifyRuntime", "reconcile",
                        "clearRepair", "reload", "verifyShared", "succeed", "clear">>
            BY <2>1, <2>7, RedoResetIs DEF RedoProgram
        <3>2. RepairMade("reset", p, {"writeEnv", "verifyRuntime", "reconcile",
                                      "clearRepair", "reload"})
            BY <3>1, RedoResetIsMade
        <3>3. CourseReset(t, world, Rest(p, 1))
            BY <1>2, <3>2 DEF CourseReset
        <3> QED  BY <1>2, <2>7, <3>2, <3>3 DEF OnCourse
    <2>8. CASE journal.kind = "deploy"
        <3>1. p = <<"validate", "upStateless", "clear">>  BY <2>1, <2>8 DEF RedoProgram
        <3>2. RepairMade("deploy", p, {"upStateless"})  BY <3>1, RedoDeployIsMade
        <3>3. CourseDeploy(world, Rest(p, 1))  BY <1>2, <3>2 DEF CourseDeploy
        <3> QED  BY <1>2, <2>8, <3>2, <3>3 DEF OnCourse
    <2>9. CASE journal.kind = "patch"
        <3>1. p = <<"validate", "reconcile", "reload", "clear">>
            BY <2>1, <2>9 DEF RedoProgram
        <3>2. RepairMade("patch", p, {"reconcile", "reload"})  BY <3>1, RedoPatchIsMade
        <3>3. CoursePatch(world, Rest(p, 1))  BY <1>2, <3>2 DEF CoursePatch
        <3> QED  BY <1>2, <2>9, <3>2, <3>3 DEF OnCourse
    <2> QED  BY <1>1, <2>2, <2>3, <2>4, <2>5, <2>6, <2>7, <2>8, <2>9 DEF Kinds
<1> QED  BY <1>3, <1>4

-----------------------------------------------------------------------------
(***************************************************************************)
(* The course is kept, one action at a time.                               *)
(***************************************************************************)

\* No success comes on the books that was not there.
NoSuccess ==
    \A o \in Ops : /\ record'[o] = "succeeded" => record[o] = "succeeded"
                   /\ deferred'[o] = "succeeded" => deferred[o] = "succeeded"

\* A transition to anything but success puts none.
LEMMA TransitionSucceeds ==
    ASSUME TypeInv, NEW op \in Ops \cup {NoOp}, NEW status \in Statuses,
           status # "succeeded", NEW ok \in BOOLEAN, Transition(op, status, ok)
    PROVE  NoSuccess
<1>1. CASE op = NoOp  BY <1>1, NoTransition DEF NoSuccess
<1>2. CASE op \in Ops  BY <1>2, TransitionEffect DEF NoSuccess
<1> QED  BY <1>1, <1>2

\* While a program runs, only a repair is under a deferred success.
LEMMA AwaitedInRun ==
    ASSUME TypeInv, BooksInv, Clean, Course, work # NoWork, work.phase \in {"run", "settle"},
           NEW op \in Ops, deferred[op] = "succeeded"
    PROVE  /\ work.phase = "run" /\ Redoing(op) /\ work.call.op = op
           /\ RecordsFirst(work) /\ journal # NoJournal
<1>1. Journalled(op)  BY DEF Course, Awaiting
<1>2. work.call.op = op /\ op # NoOp /\ journal # NoJournal /\ work \in Mutation
    BY <1>1, WorkedOp DEF Journalled
<1>3. record[op] \notin Terminal
    BY DEF Clean, Deferring
<1>4. work.who # "caller"  BY <1>2 DEF BooksInv, Owned
<1>5. work.phase # "settle"
    BY <1>2, <1>3 DEF BooksInv, Worked, Terminal
<1>6. work.who # "worker" /\ work.who # "settler"
    BY <1>2, <1>3, <1>5 DEF BooksInv, Worked
<1>7. work.who = "repair"  BY <1>2, <1>4, <1>6 DEF Mutation
<1> QED  BY <1>2, <1>5, <1>7 DEF Redoing, BooksInv, Worked

\* Nothing that moves the work or the server on.
LEMMA QuietCourse ==
    ASSUME TypeInv, BooksInv, Course,
           UNCHANGED <<world, journal, before>>,
           prep' # NoWork => prep'.call.kind \in LinkedKinds,
           work' # NoWork =>
               /\ work # NoWork
               /\ work'.who = work.who /\ work'.call = work.call
               /\ work'.phase = work.phase /\ work'.prog = work.prog
               /\ work'.at = work.at /\ work'.err = work.err,
           \A op \in Ops : /\ record'[op] = "succeeded" =>
                                "succeeded" \in {record[op], deferred[op]}
                           /\ deferred'[op] = "succeeded" =>
                                deferred[op] = "succeeded" /\ (Redoing(op) => Redoing(op)')
    PROVE  Course'
<1> USE DEF Course
<1>1. /\ work' # NoWork => /\ Left' = Left /\ Running' = Running
      /\ \A op : Journalled(op)' = Journalled(op)
    BY DEF Left, Running, Journalled
<1>2. Linked'  BY DEF Linked
<1>3. UnderJournal'
    <2>1. journal # NoJournal => journal.op \in Ops \cup {NoOp}
        BY DEF TypeInv, TypeOK, Journal
    <2>2. journal # NoJournal /\ SucceededOn' => SucceededOn
        BY <2>1 DEF SucceededOn
    <2> QED  BY <2>2 DEF UnderJournal
<1>4. Calm' /\ Settling'  BY DEF Calm, Settling
<1>5. InPlace'
    <2>1. work' # NoWork => WithoutJournal' = WithoutJournal
        BY <1>1 DEF WithoutJournal
    <2>2. work' # NoWork => AsFarAs' = AsFarAs
        BY <1>1, <2>1 DEF AsFarAs
    <2>3. work' # NoWork => InPlaceQuiet' = InPlaceQuiet
        BY <1>1 DEF InPlaceQuiet
    <2> QED  BY <1>1, <2>2, <2>3 DEF InPlace
<1>6. Awaiting'  BY <1>1 DEF Awaiting
<1> QED  BY <1>2, <1>3, <1>4, <1>5, <1>6

\* Whatever a preparation comes to, it records no success.
LEMMA PreparingSucceeds ==
    ASSUME TypeInv,
           \/ (\E c \in Calls : Prepare(c)) \/ ReserveJob
           \/ \E ok \in BOOLEAN : ReserveRecord(ok) \/ Reject(ok) \/ PromoteRefused(ok)
    PROVE  NoSuccess
<1> PICK op : op = prep.call.op
    OBVIOUS
<1>1. CASE (\E c \in Calls : Prepare(c)) \/ ReserveJob
    BY <1>1 DEF Prepare, ReserveJob, books, NoSuccess
<1>2. ASSUME NEW ok \in BOOLEAN, ReserveRecord(ok) PROVE NoSuccess
    BY <1>2 DEF ReserveRecord, TypeInv, TypeOK, NoSuccess
<1>3. ASSUME NEW ok \in BOOLEAN, Reject(ok) PROVE NoSuccess
    <2>1. Transition(op, "failed", ok) /\ op \in Ops \cup {NoOp}
        BY <1>3, PrepType DEF Reject
    <2> QED  BY <2>1, TransitionSucceeds DEF Statuses, Terminal
<1>4. ASSUME NEW ok \in BOOLEAN, PromoteRefused(ok) PROVE NoSuccess
    <2>1. op \in Ops \cup {NoOp}  BY <1>4, PrepType DEF PromoteRefused
    <2>2. CASE Transition(op, "cancelled", ok)
        BY <2>1, <2>2, TransitionSucceeds DEF Statuses, Terminal
    <2>3. CASE ~Transition(op, "cancelled", ok)
        BY <1>4, <2>3 DEF PromoteRefused, TypeInv, TypeOK, NoSuccess
    <2> QED  BY <2>2, <2>3
<1> QED  BY <1>1, <1>2, <1>3, <1>4

LEMMA PreparingCourse ==
    ASSUME TypeInv, BooksInv, Clean, Course,
           \/ (\E c \in Calls : Prepare(c)) \/ ReserveJob
           \/ \E ok \in BOOLEAN : ReserveRecord(ok) \/ Reject(ok) \/ PromoteRefused(ok)
    PROVE  Course'
<1>1. /\ UNCHANGED <<world, journal, before, work>>
      /\ prep' # NoWork => prep'.call.kind \in LinkedKinds
    <2>1. UNCHANGED <<world, journal, before, work>>
        BY DEF Prepare, ReserveJob, ReserveRecord, Reject, PromoteRefused, history
    <2>2. ASSUME NEW c \in Calls, Prepare(c) PROVE prep'.call.kind \in LinkedKinds
        BY <2>2 DEF Prepare
    <2>3. ASSUME NEW ok \in BOOLEAN, ReserveRecord(ok), prep' # NoWork
          PROVE  prep'.call.kind \in LinkedKinds
        <3>1. prep # NoWork /\ prep' = [prep EXCEPT !.phase = "job"]
            BY <2>3 DEF ReserveRecord
        <3>2. prep'.call = prep.call  BY <3>1, PrepType DEF Preparation
        <3> QED  BY <3>1, <3>2 DEF Course, Linked
    <2>4. ASSUME ReserveJob PROVE prep'.call.kind \in LinkedKinds
        <3>1. prep # NoWork /\ prep' = [prep EXCEPT !.phase = "promote"]
            BY <2>4 DEF ReserveJob
        <3>2. prep'.call = prep.call  BY <3>1, PrepType DEF Preparation
        <3> QED  BY <3>1, <3>2 DEF Course, Linked
    <2>5. ASSUME NEW ok \in BOOLEAN, Reject(ok) \/ PromoteRefused(ok) PROVE prep' = NoWork
        BY <2>5 DEF Reject, PromoteRefused
    <2> QED  BY <2>1, <2>2, <2>3, <2>4, <2>5
<1>2. NoSuccess  BY PreparingSucceeds
<1>3. \A o : Redoing(o)' = Redoing(o)  BY <1>1 DEF Redoing
<1> QED  BY <1>1, <1>2, <1>3, QuietCourse DEF NoSuccess

\* The work at hand comes to its end, and records no success.
LEMMA EndingCourse ==
    ASSUME TypeInv, BooksInv, Clean, Course,
           \/ FinishJob \/ Return
           \/ \E ok \in BOOLEAN : RejectStarted(ok) \/ RepairFails(ok)
    PROVE  Course'
<1> PICK op : op = work.call.op
    OBVIOUS
<1>1. /\ work # NoWork /\ work' = NoWork /\ UNCHANGED <<world, journal, before, prep>>
      /\ op \in Ops \cup {NoOp} /\ NoOp \notin Ops
    <2>1. /\ work # NoWork /\ work' = NoWork /\ UNCHANGED <<world, journal, before, prep>>
        BY DEF FinishJob, Return, RejectStarted, RepairFails, Ended, history
    <2> QED  BY <2>1, WorkType, LifecycleAssumption
<1>2. \A o \in Ops : Redoing(o) => o = op /\ work.who = "repair"
    BY DEF Redoing
<1>3. ASSUME FinishJob \/ \E ok \in BOOLEAN : RejectStarted(ok) PROVE work.who # "repair"
    BY <1>1, <1>3 DEF FinishJob, RejectStarted, BooksInv, Owned
<1>4. CASE FinishJob
    <2>1. UNCHANGED books  BY <1>4 DEF FinishJob
    <2> QED  BY <1>1, <1>2, <1>3, <1>4, <2>1, QuietCourse DEF books, Course, Linked
<1>5. CASE Return
    <2>1. UNCHANGED books  BY <1>5 DEF Return
    <2>2. ASSUME op \in Ops, work.who = "repair" PROVE FALSE
        <3>1. RecordsFirst(work) /\ ~work.err
            BY <1>1, <1>5, <2>2 DEF Return, BooksInv, Worked
        <3>2. work.at > Len(work.prog) /\ work.at \in Nat /\ Len(work.prog) \in Nat
            BY <1>1, <1>5, WorkType DEF Return, Ended
        <3> QED  BY <3>1, <3>2 DEF RecordsFirst
    <2>3. \A o \in Ops : ~Redoing(o)  BY <1>2, <2>2
    <2> QED  BY <1>1, <2>1, <2>3, QuietCourse DEF books, Course, Linked
<1>6. ASSUME NEW ok \in BOOLEAN, RejectStarted(ok) PROVE Course'
    <2>1. Transition(op, "failed", ok)  BY <1>6 DEF RejectStarted
    <2>2. NoSuccess
        BY <1>1, <2>1, TransitionSucceeds DEF Statuses, Terminal
    <2> QED  BY <1>1, <1>2, <1>3, <1>6, <2>2, QuietCourse DEF Course, Linked, NoSuccess
<1>7. ASSUME NEW ok \in BOOLEAN, RepairFails(ok) PROVE Course'
    <2>1. Transition(op, "recovery_required", ok) /\ op \in Ops
        BY <1>1, <1>7 DEF RepairFails
    <2>2. NoSuccess
        BY <1>1, <2>1, TransitionSucceeds DEF Statuses, Unfinished
    <2>3. deferred'[op] # "succeeded"
        <3>1. record[op] \in Terminal => deferred[op] = "none"
            BY <2>1 DEF Clean, Deferring
        <3> QED  BY <2>1, <3>1, TransitionEffect DEF Statuses, Unfinished
    <2> QED  BY <1>1, <1>2, <2>2, <2>3, QuietCourse DEF Course, Linked, NoSuccess
<1> QED  BY <1>4, <1>5, <1>6, <1>7

LEMMA RetryCourse ==
    ASSUME TypeInv, BooksInv, Course, NEW op \in Ops, NEW ok \in BOOLEAN, Retry(op, ok)
    PROVE  Course'
<1>1. UNCHANGED <<world, journal, before, prep, work>>
    BY DEF Retry, history
<1>2. \A o \in Ops : /\ record'[o] = "succeeded" => "succeeded" \in {record[o], deferred[o]}
                     /\ deferred'[o] = "succeeded" => deferred[o] = "succeeded"
    BY DEF Retry, books, TypeInv, TypeOK
<1>3. \A o : Redoing(o)' = Redoing(o)  BY <1>1 DEF Redoing
<1> QED  BY <1>1, <1>2, <1>3, QuietCourse DEF Course, Linked

LEMMA MarkedCourse ==
    ASSUME TypeInv, BooksInv, Course, work' \in {work, Cancelled(work)},
           prep' \in {prep, Cancelled(prep)},
           UNCHANGED <<world, journal, record, deferred, before>>
    PROVE  Course'
<1>1. /\ (work' = NoWork) = (work = NoWork)
      /\ work # NoWork =>
           /\ work'.who = work.who /\ work'.call = work.call /\ work'.phase = work.phase
           /\ work'.prog = work.prog /\ work'.at = work.at /\ work'.err = work.err
    BY WorkType, CancelledFields
<1>2. prep' # NoWork => prep # NoWork /\ prep'.call = prep.call
    BY PrepType, CancelledFields
<1>3. \A o : Redoing(o)' = Redoing(o)  BY <1>1 DEF Redoing
<1> QED  BY <1>1, <1>2, <1>3, QuietCourse DEF Course, Linked

\* Work begins with its whole program ahead of it.
LEMMA HandlerBegins ==
    ASSUME TypeInv, BooksInv, Course, NEW kind \in Kinds, NEW target,
           journal = NoJournal, journal' = NoJournal, world' = world,
           work' # NoWork, work'.phase = "run", work'.at = 1, work'.call.kind = kind,
           work'.call.target = target, work'.prog = Program(kind, target), ~work'.err,
           \/ work'.who = "worker" /\ kind \in LinkedKinds
           \/ work'.who = "caller"
    PROVE  InPlace'
<1> PICK p : p = Program(kind, target)
    OBVIOUS
<1>1. Left' = Rest(p, 1)  BY DEF Left
<1>2. CASE HandlerMade(kind, p)
    <2>1. /\ WellMade(kind, p) /\ p # QuietPatchProgram /\ p # Withdraw
          /\ "journal" \in Rest(p, 1)
          /\ "createEnv" \in Rest(p, 1) => "absent" \in Rest(p, 1)
          /\ kind \in LinkedKinds => "clear" \notin Rest(p, 1)
        BY <1>2 DEF HandlerMade
    <2>2. AsFarAs'  BY <1>1, <2>1 DEF AsFarAs, WithoutJournal
    <2> QED  BY <1>1, <2>1, <2>2 DEF InPlace
<1>3. CASE kind = "patch" /\ ~ChangesRegistry(target) /\ p = QuietPatchProgram
    <2>1. world.entry # None /\ world.entry.env = target
        BY <1>3 DEF ChangesRegistry
    <2>2. work'.who = "caller"  BY <1>3 DEF LinkedKinds
    <2>3. InPlaceQuiet'  BY <2>1, <2>2 DEF InPlaceQuiet
    <2> QED  BY <1>3, <2>3 DEF InPlace
<1> QED  BY <1>2, <1>3, HandlerPrograms

\* Without a journal nothing is deferred as a success.
LEMMA NothingAwaited ==
    ASSUME Course, journal = NoJournal, NoSuccess
    PROVE  Awaiting'
BY DEF Course, Awaiting, Journalled, NoSuccess

LEMMA PromoteCourse ==
    ASSUME TypeInv, BooksInv, Course, Promote
    PROVE  Course'
<1>1. /\ prep # NoWork /\ prep' = NoWork /\ work = NoWork /\ journal = NoJournal
      /\ UNCHANGED <<world, journal, before, record, deferred>>
    BY DEF Promote, JournalCloses, history, books
<1>2. /\ work' # NoWork => /\ work'.who = "worker" /\ work'.call = prep.call
                           /\ work'.phase = "start" /\ ~work'.err
    BY DEF Promote
<1>3. Linked'  BY <1>1, <1>2 DEF Course, Linked
<1>4. UnderJournal' /\ Calm'  BY <1>1, <1>2 DEF Course, UnderJournal, Calm
<1>5. InPlace' /\ Settling'  BY <1>2 DEF InPlace, Settling
<1>6. Awaiting'  BY <1>1, NothingAwaited DEF NoSuccess
<1> QED  BY <1>3, <1>4, <1>5, <1>6 DEF Course

LEMMA BeginCourse ==
    ASSUME TypeInv, BooksInv, Course, NEW c \in Calls, Begin(c)
    PROVE  Course'
<1>1. /\ prep = NoWork /\ prep' = NoWork /\ work = NoWork /\ journal = NoJournal
      /\ UNCHANGED <<world, journal, before, record, deferred>>
      /\ c.kind \in {"deploy", "patch"} /\ c.kind \in Kinds /\ world.env # None
    BY CallType DEF Begin, JournalCloses, history, books
<1>2. /\ work'.who = "caller" /\ work'.call = c /\ work'.phase = "run"
      /\ work'.prog = Program(c.kind, c.target) /\ work'.at = 1 /\ ~work'.err
    BY DEF Begin
<1>3. Linked'  BY <1>1, <1>2 DEF Linked
<1>4. UnderJournal' /\ Calm'  BY <1>1, <1>2 DEF Course, UnderJournal, Calm
<1>5. InPlace'
    <2>1. CASE work' = NoWork  BY <2>1 DEF InPlace
    <2>2. CASE work' # NoWork  BY <1>1, <1>2, <2>2, HandlerBegins
    <2> QED  BY <2>1, <2>2
<1>6. Settling'  BY <1>2 DEF Settling
<1>7. Awaiting'  BY <1>1, NothingAwaited DEF NoSuccess
<1> QED  BY <1>3, <1>4, <1>5, <1>6, <1>7 DEF Course

LEMMA StartCourse ==
    ASSUME TypeInv, BooksInv, Clean, Course, NEW ok \in BOOLEAN, Start(ok)
    PROVE  Course'
<1> PICK op : op = work.call.op
    OBVIOUS
<1> DEFINE stale == Stale(work.call)
<1>1. /\ work # NoWork /\ work \in Mutation /\ work.phase = "start" /\ work.at = 1
      /\ work.who = "worker" /\ ~work.err /\ op \in Ops \cup {NoOp} /\ op = work.call.op
      /\ work.call.kind \in Kinds /\ work.call.kind \in LinkedKinds
      /\ journal = NoJournal /\ journal' = NoJournal
      /\ UNCHANGED <<world, before, prep>>
    <2>1. work # NoWork /\ work.phase = "start" /\ UNCHANGED <<world, journal, before, prep>>
        BY DEF Start, history
    <2>2. work.at = 1  BY <2>1 DEF Clean, BeforeJournal
    <2>3. work.who = "worker" /\ journal = NoJournal  BY <2>1 DEF BooksInv, Owned
    <2>4. ~work.err /\ work.call.kind \in LinkedKinds  BY <2>1, <2>3 DEF Course, Linked
    <2> QED  BY <2>1, <2>2, <2>3, <2>4, WorkType
<1>2. NoSuccess
    <2>1. CASE stale  BY <1>1, <2>1 DEF Start, books, NoSuccess
    <2>2. CASE ~stale
        <3>1. Transition(op, "running", ok)  BY <1>1, <2>2 DEF Start
        <3> QED  BY <1>1, <3>1, TransitionSucceeds DEF Statuses, Unfinished
    <2> QED  BY <2>1, <2>2
<1>3. /\ work' # NoWork /\ work'.call = work.call /\ work'.who = "worker" /\ work'.at = 1
      /\ ~work'.err
      /\ \/ work'.phase = "run" /\ work'.prog = Program(work.call.kind, work.call.target)
         \/ work'.phase = "reject"
    <2>1. work' = IF ok /\ ~stale
                    THEN [work EXCEPT !.phase = "run",
                            !.prog = Program(work.call.kind, work.call.target)]
                    ELSE [work EXCEPT !.phase = "reject"]
        BY DEF Start
    <2>2. Program(work.call.kind, work.call.target) \in Seq(Steps)
        BY <1>1, ProgramType
    <2> HIDE DEF stale
    <2>3. work' \in Mutation  BY <1>1, <2>1, <2>2 DEF Mutation
    <2>4. work' # NoWork  BY <2>3, NoWorkIsNoWork
    <2> QED  BY <1>1, <2>1, <2>4 DEF Mutation
<1> HIDE DEF stale
<1>4. Linked'  BY <1>1, <1>3 DEF Course, Linked
<1>5. UnderJournal' /\ Calm'  BY <1>1, <1>3 DEF Course, UnderJournal, Calm
<1>6. InPlace'
    <2>1. CASE work'.phase = "reject"  BY <2>1 DEF InPlace
    <2>2. CASE work'.phase = "run"  BY <1>1, <1>3, <2>2, HandlerBegins
    <2> QED  BY <1>3, <2>1, <2>2
<1>7. Settling'  BY <1>3 DEF Settling
<1>8. Awaiting'  BY <1>1, <1>2, NothingAwaited
<1> QED  BY <1>4, <1>5, <1>6, <1>7, <1>8 DEF Course

LEMMA BeginRepairCourse ==
    ASSUME TypeInv, BooksInv, Course, BeginRepair
    PROVE  Course'
<1> PICK p : p = RepairProgram
    OBVIOUS
<1>1. /\ prep = NoWork /\ prep' = NoWork /\ work = NoWork /\ journal # NoJournal
      /\ UNCHANGED <<world, journal, before, record, deferred>>
    BY DEF BeginRepair, history, books
<1>2. /\ work'.who \in {"repair", "settler"} /\ work'.call = IntentOf(journal)
      /\ work'.phase = "run" /\ work'.prog = p /\ work'.at = 1 /\ ~work'.err
    BY <1>1 DEF BeginRepair, IntentOf
<1>3. /\ RepairMade(journal.kind, p, {})
      /\ IF p = Withdraw THEN journal.kind = "create" /\ world.env = None
         ELSE OnCourse(journal.kind, journal.target, world, Rest(p, 1))
    BY <1>1, RepairPrograms DEF Course
<1>4. Linked'  BY <1>1, <1>2 DEF Linked
<1>5. UnderJournal'
    BY <1>1, <1>2 DEF Course, UnderJournal, SucceededOn, IntentOf
<1>6. Calm'  BY <1>1 DEF Calm
<1>7. InPlace'
    <2>1. work'.call.kind = journal.kind  BY <1>1, <1>2 DEF IntentOf
    <2>2. Left' = Rest(p, 1)  BY <1>2 DEF Left
    <2>3. AsFarAs'  BY <1>1, <1>2, <1>3, <2>2 DEF AsFarAs
    <2>4. /\ WellMade(journal.kind, p) /\ p # QuietPatchProgram
          /\ "createEnv" \notin Rest(p, 1)
        BY <1>3 DEF RepairMade
    <2> QED  BY <1>2, <2>1, <2>2, <2>3, <2>4 DEF InPlace
<1>8. Settling'  BY <1>2 DEF Settling
<1>9. Awaiting'
    <2>1. \A op : ~Redoing(op) /\ Journalled(op)' = Journalled(op)
        BY <1>1 DEF Redoing, Journalled
    <2> QED  BY <1>1, <2>1 DEF Course, Awaiting
<1> QED  BY <1>4, <1>5, <1>6, <1>7, <1>8, <1>9 DEF Course

\* In the middle of a program.
Ahead == Rest(work.prog, work.at + 1)

LEMMA InTheMiddle ==
    ASSUME TypeInv, BooksInv, Course, Running, work.prog # QuietPatchProgram,
           NEW kind, kind = work.call.kind, NEW t, t = work.call.target
    PROVE  /\ work # NoWork /\ work.phase = "run" /\ work \in Mutation
           /\ Left = {Step} \cup Ahead /\ Follows(kind, Step, Ahead)
           /\ world \in World /\ kind \in Kinds /\ t \in Envs \cup {None}
           /\ (t = None) = (kind = "close")
           /\ journal # NoJournal =>
                /\ journal.kind = kind /\ journal.target = t /\ before \in World
                /\ Standing(kind, t, before, world)
                /\ SucceededOn => Won(kind, t, world)
           /\ work.err => /\ journal # NoJournal /\ Left = {"reload"} /\ kind = "create"
                          /\ Step = "reload"
           /\ ~work.err => AsFarAs
           /\ "createEnv" \in Left /\ "absent" \notin Left => world.env = None
           /\ work.who = "worker" => "clear" \notin Left /\ work.prog # Withdraw
<1>1. /\ work # NoWork /\ work.phase = "run" /\ work \in Mutation
      /\ work.at \in 1..Len(work.prog) /\ Len(work.prog) \in Nat
      /\ kind \in Kinds /\ t \in Envs \cup {None} /\ (t = None) = (kind = "close")
      /\ world \in World
    BY WorkType, StepType, LifecycleAssumption DEF Running, TypeInv, TypeOK
<1>2. Left = {Step} \cup Ahead
    BY <1>1, RestStep DEF Left, Ahead, Step
<1>3. WellMade(kind, work.prog)
    BY <1>1 DEF Course, InPlace
<1>4. Follows(kind, Step, Ahead)
    BY <1>1, <1>3 DEF WellMade, Step, Ahead
<1>5. journal # NoJournal =>
          /\ journal.kind = kind /\ journal.target = t /\ before \in World
          /\ Standing(kind, t, before, world)
          /\ SucceededOn => Won(kind, t, world)
    <2>1. journal # NoJournal => IntentOf(journal).kind = journal.kind
                                 /\ IntentOf(journal).target = journal.target
        BY DEF IntentOf
    <2> QED  BY <1>1, <2>1 DEF Course, UnderJournal
<1>6. /\ work.err => journal # NoJournal /\ Left = {"reload"} /\ kind = "create"
      /\ ~work.err => AsFarAs
      /\ "createEnv" \in Left /\ "absent" \notin Left => world.env = None
      /\ work.who = "worker" => "clear" \notin Left /\ work.prog # Withdraw
    BY <1>1 DEF Course, InPlace
<1> QED  BY <1>1, <1>2, <1>4, <1>5, <1>6

\* What a step, finished or not, leaves of the server.
LEMMA OutcomeCourse ==
    ASSUME TypeInv, BooksInv, Course, Running, work.prog # QuietPatchProgram,
           Step \notin {"journal", "clear", "succeed", "cancel"},
           NEW w \in Outcomes(Step, work.call.target, world),
           w # world => Accepts(Step, work.call.target, world),
           NEW v \in {w, Marked(w)},
           NEW kind, kind = work.call.kind, NEW t, t = work.call.target
    PROVE  /\ journal = NoJournal =>
                v = world /\ "journal" \in Ahead /\ ~work.err /\ Step \notin Changing
                /\ Step # "stageDown" /\ work.who \in {"worker", "caller"}
           /\ journal # NoJournal =>
                /\ Standing(kind, t, before, v)
                /\ SucceededOn => Won(kind, t, v)
                /\ ~work.err => OnCourse(kind, t, world, Left)
                /\ ~work.err /\ v = After(Step, t, world) /\ Accepts(Step, t, world) =>
                     OnCourse(kind, t, v, Ahead)
<1>1. /\ work # NoWork /\ work \in Mutation
      /\ Left = {Step} \cup Ahead /\ Follows(kind, Step, Ahead)
      /\ world \in World /\ kind \in Kinds /\ t \in Envs \cup {None}
      /\ (t = None) = (kind = "close")
      /\ journal # NoJournal =>
           /\ journal.kind = kind /\ journal.target = t
           /\ Standing(kind, t, before, world) /\ (SucceededOn => Won(kind, t, world))
      /\ work.err => journal # NoJournal /\ Left = {"reload"} /\ kind = "create"
                     /\ Step = "reload"
      /\ ~work.err => AsFarAs
    BY InTheMiddle
<1>2. /\ work.at \in 1..Len(work.prog) /\ Len(work.prog) \in Nat
      /\ work.call.target = t
      /\ Step = "upsertEntry" => t \in Envs
    BY <1>1, WorkType, StepType DEF Running, Step
<1>3. ASSUME journal = NoJournal
      PROVE  /\ v = world /\ "journal" \in Ahead /\ ~work.err /\ Step \notin Changing
             /\ Step # "stageDown" /\ work.who \in {"worker", "caller"}
    <2>1. ~work.err /\ WithoutJournal
        BY <1>1, <1>3 DEF AsFarAs
    <2>2. "journal" \in Ahead /\ work.who \in {"worker", "caller"}
        BY <1>1, <2>1 DEF WithoutJournal
    <2>3. Step \notin Changing /\ Step # "stageDown"
        BY <1>1, <2>2 DEF Follows, FollowsAny
    <2>4. w = world  BY <2>3, NoChange
    <2>5. ~PastBoundary
        <3>1. ASSUME NEW i \in 1..work.at, work.prog[i] = "down" \/ work.prog[i] = "stageDown"
              PROVE  FALSE
            <4>1. WellMade(kind, work.prog)
                BY <1>1 DEF Course, InPlace, Running
            <4>2. i \in 1..Len(work.prog)  BY <1>2
            <4>3. Follows(kind, work.prog[i], Rest(work.prog, i + 1))
                BY <4>1, <4>2 DEF WellMade
            <4>4. Ahead \subseteq Rest(work.prog, i + 1)
                <5>1. work.at + 1..Len(work.prog) \subseteq i + 1..Len(work.prog)
                    BY <1>2
                <5> QED  BY <5>1 DEF Ahead, Rest
            <4> QED  BY <2>2, <3>1, <4>3, <4>4 DEF Follows, FollowsAny, Changing
        <3> QED  BY <3>1 DEF PastBoundary
    <2> QED  BY <2>1, <2>2, <2>3, <2>4, <2>5 DEF Marked
<1>4. ASSUME journal # NoJournal
      PROVE  /\ Standing(kind, t, before, v)
             /\ SucceededOn => Won(kind, t, v)
             /\ ~work.err => OnCourse(kind, t, world, Left)
             /\ ~work.err /\ v = After(Step, t, world) /\ Accepts(Step, t, world) =>
                  OnCourse(kind, t, v, Ahead)
    <2>1. ~work.err => OnCourse(kind, t, world, Left)
        <3>1. work.prog # Withdraw  BY <1>2, WithdrawSteps DEF Step
        <3> QED  BY <1>1, <1>4, <3>1 DEF AsFarAs
    <2>2. OnCourse(kind, t, world, {Step} \cup Ahead) \/ (kind = "create" /\ Step = "reload")
        BY <1>1, <2>1
    <2>3. Standing(kind, t, before, w) /\ (Won(kind, t, world) => Won(kind, t, w))
        <3>1. CASE Accepts(Step, t, world)
            BY <1>1, <1>2, <1>4, <2>2, <3>1, ServerStep
        <3>2. CASE ~Accepts(Step, t, world)
            BY <1>1, <1>2, <1>4, <3>2
        <3> QED  BY <3>1, <3>2
    <2>4. w \in World
        <3>1. CASE w = world  BY <1>1, <3>1
        <3>2. CASE w # world
            <4>1. Accepts(Step, t, world)  BY <1>2, <3>2
            <4>2. w \in Leaves(Step, t, world) \/ w = After(Step, t, world)
                BY <1>2 DEF Outcomes
            <4> QED  BY <1>1, <1>2, <4>1, <4>2, AfterType, LeavesType
        <3> QED  BY <3>1, <3>2
    <2>5. ASSUME v # w
          PROVE  Standing(kind, t, before, v) /\ (Won(kind, t, w) => Won(kind, t, v))
        <3>1. kind = "reset" /\ w.entry # None /\ v = SetRepair(w, TRUE)
            BY <2>5 DEF Marked, PastBoundary
        <3>2. v.env = w.env /\ v.shared = w.shared
            BY <2>4, <3>1, SetRepairFields
        <3> QED  BY <3>1, <3>2 DEF Standing, Won
    <2>6. ASSUME ~work.err, v = After(Step, t, world), Accepts(Step, t, world)
          PROVE  OnCourse(kind, t, v, Ahead)
        <3>1. v \in Outcomes(Step, t, world)  BY <2>6 DEF Outcomes
        <3> QED  BY <1>1, <1>4, <2>1, <2>6, <3>1, ServerStep
    <2> QED  BY <1>1, <1>4, <2>1, <2>3, <2>5, <2>6
<1> QED  BY <1>3, <1>4

\* The next place in a program, and what of the course does not depend on it.
LEMMA NextPlace ==
    ASSUME TypeInv, Running, Advance \/ Fail
    PROVE  /\ work' # NoWork /\ work'.phase = "run" /\ work'.who = work.who
           /\ work'.call = work.call /\ work'.prog = work.prog
           /\ Advance => work'.err = work.err /\ Left' = Ahead
           /\ Fail => work'.err
           /\ Fail /\ Step = "upAnyway" => Left' = Ahead
           /\ Fail /\ Step # "upAnyway" => ~Running' /\ Left' = {}
           /\ ~Advance => Fail
<1>1. /\ work # NoWork /\ work.phase = "run" /\ work \in Mutation
      /\ work.at \in 1..Len(work.prog) /\ Len(work.prog) \in Nat
    BY WorkType, StepType DEF Running
<1>2. /\ work' # NoWork /\ work'.phase = "run" /\ work'.who = work.who
      /\ work'.call = work.call /\ work'.prog = work.prog
    BY <1>1, NextStep
<1>3. Advance => work'.err = work.err /\ work'.at = work.at + 1
    BY <1>1 DEF Advance, Mutation
<1>4. Fail => /\ work'.err
              /\ work'.at = IF Step = "upAnyway" THEN work.at + 1 ELSE Len(work.prog) + 1
    BY <1>1 DEF Fail, Mutation
<1>5. work'.at = work.at + 1 => Left' = Ahead
    BY <1>2 DEF Left, Ahead, Rest
<1>6. work'.at = Len(work.prog) + 1 => ~Running' /\ Left' = {}
    <2>1. Rest(work.prog, Len(work.prog) + 1) = {}  BY <1>1, RestEmpty
    <2> QED  BY <1>1, <1>2, <2>1 DEF Running, Left, Rest
<1> QED  BY <1>2, <1>3, <1>4, <1>5, <1>6

LEMMA RunningBooksCourse ==
    ASSUME TypeInv, BooksInv, Clean, Course, Running, UNCHANGED <<record, deferred>>,
           work' # NoWork, work'.who = work.who, work'.call = work.call,
           journal' # NoJournal => journal # NoJournal /\ IntentOf(journal') = IntentOf(journal),
           journal # NoJournal => journal' # NoJournal
    PROVE  Awaiting' /\ SucceededOn' = SucceededOn
<1>1. journal # NoJournal => /\ IntentOf(journal).op = journal.op
                             /\ IntentOf(journal').op = journal'.op
    BY DEF IntentOf
<1>2. \A op : Journalled(op)' = Journalled(op)
    BY <1>1 DEF Journalled
<1>3. ASSUME NEW op \in Ops, deferred[op] = "succeeded"
      PROVE  Journalled(op)' /\ Redoing(op)'
    <2>1. work # NoWork /\ work.phase = "run"  BY DEF Running
    <2>2. Redoing(op) /\ Journalled(op)
        BY <1>3, <2>1, AwaitedInRun DEF Course, Awaiting
    <2> QED  BY <1>2, <2>2 DEF Redoing
<1>4. SucceededOn' = SucceededOn
    <2>1. CASE journal # NoJournal  BY <1>1, <2>1 DEF SucceededOn
    <2>2. CASE journal = NoJournal
        <3>1. journal' = journal  BY <2>2
        <3> QED  BY <3>1 DEF SucceededOn
    <2> QED  BY <2>1, <2>2
<1> QED  BY <1>3, <1>4 DEF Awaiting

\* A step on the server, or one that moves the journal on.
LEMMA ServerCourse ==
    ASSUME TypeInv, BooksInv, Clean, Course, Running, work.prog # QuietPatchProgram,
           Step \notin {"journal", "clear", "succeed", "cancel"},
           UNCHANGED <<record, deferred, before, prep>>,
           journal' # NoJournal => journal # NoJournal /\ IntentOf(journal') = IntentOf(journal),
           journal # NoJournal => journal' # NoJournal,
           NEW w \in Outcomes(Step, work.call.target, world),
           w # world => Accepts(Step, work.call.target, world),
           world' \in {w, Marked(w)},
           \/ Fail
           \/ /\ Advance /\ world' = After(Step, work.call.target, world)
              /\ Accepts(Step, work.call.target, world)
    PROVE  Course'
<1> PICK kind, t : kind = work.call.kind /\ t = work.call.target
    OBVIOUS
<1>1. /\ work # NoWork /\ work.phase = "run"
      /\ kind = work.call.kind /\ t = work.call.target
      /\ Left = {Step} \cup Ahead /\ Follows(kind, Step, Ahead)
      /\ journal # NoJournal => journal.kind = kind /\ journal.target = t /\ before \in World
      /\ work.err => /\ journal # NoJournal /\ Left = {"reload"} /\ kind = "create"
                     /\ Step = "reload"
      /\ "createEnv" \in Left /\ "absent" \notin Left => world.env = None
      /\ work.who = "worker" => "clear" \notin Left /\ work.prog # Withdraw
    BY InTheMiddle
<1>2. /\ journal = NoJournal =>
           world' = world /\ "journal" \in Ahead /\ ~work.err /\ Step \notin Changing
           /\ Step # "stageDown" /\ work.who \in {"worker", "caller"}
      /\ journal # NoJournal =>
           /\ Standing(kind, t, before, world')
           /\ SucceededOn => Won(kind, t, world')
           /\ ~work.err /\ Advance => OnCourse(kind, t, world', Ahead)
    <2>1. ~work.err /\ Advance /\ ~Fail => world' = After(Step, t, world) /\ Accepts(Step, t, world)
        BY <1>1
    <2>2. Fail => work'.err  BY NextPlace
    <2>3. Advance => work'.err = work.err  BY NextPlace
    <2> QED  BY <1>1, <2>1, <2>2, <2>3, OutcomeCourse
<1>3. /\ work' # NoWork /\ work'.phase = "run" /\ work'.who = work.who
      /\ work'.call = work.call /\ work'.prog = work.prog
      /\ Advance => work'.err = work.err /\ Left' = Ahead
      /\ Fail => work'.err
      /\ Fail /\ Step = "upAnyway" => Left' = Ahead
      /\ Fail /\ Step # "upAnyway" => ~Running' /\ Left' = {}
      /\ ~Advance => Fail
    BY NextPlace
<1>4. journal # NoJournal =>
          /\ journal'.kind = kind /\ journal'.target = t
    BY <1>1 DEF IntentOf
<1>5. Awaiting' /\ SucceededOn' = SucceededOn
    BY <1>3, RunningBooksCourse
<1>6. Linked'  BY <1>1, <1>3 DEF Course, Linked
<1>7. UnderJournal'
    BY <1>1, <1>2, <1>3, <1>4, <1>5 DEF Course, UnderJournal
<1>8. Calm'  BY <1>1, <1>2, <1>3 DEF Course, Calm
<1>9. Settling'  BY <1>3 DEF Settling
<1>10. InPlace'
    <2>1. WellMade(kind, work.prog)  BY <1>1 DEF Course, InPlace
    <2>2. work.who = "worker" => "clear" \notin Left' /\ work.prog # Withdraw
        BY <1>1, <1>3
    <2>3. "createEnv" \in Left' /\ "absent" \notin Left' => world'.env = None
        <3>1. ASSUME "createEnv" \in Ahead, "absent" \notin Ahead, Advance, ~Fail
              PROVE  world'.env = None
            <4>1. Step \notin Changing  BY <1>1, <3>1 DEF Follows, FollowsAny
            <4>2. w = world  BY <4>1, NoChange
            <4>3. world' = world
                BY <3>1, <4>1 DEF After, Changing
            <4>4. Step = "absent" => world.env = None  BY <3>1 DEF Accepts
            <4> QED  BY <1>1, <3>1, <4>3, <4>4
        <3>2. Step = "upAnyway" => "createEnv" \notin Ahead
            BY <1>1 DEF Follows, FollowsAny, Changing
        <3> QED  BY <1>3, <3>1, <3>2
    <2>4. ASSUME Running', work'.err
          PROVE  journal' # NoJournal /\ Left' = {"reload"} /\ kind = "create"
        <3>1. Left' = Ahead  BY <1>3, <2>4
        <3>2. CASE Fail
            <4>1. Step = "upAnyway"  BY <1>3, <2>4, <3>2
            <4>2. kind = "create" /\ Ahead = {"reload"}
                BY <1>1, <4>1 DEF Follows, FollowsCreate
            <4>3. journal # NoJournal  BY <1>2, <4>1 DEF Changing
            <4> QED  BY <3>1, <4>2, <4>3
        <3>3. CASE ~Fail
            <4>1. work.err  BY <1>3, <2>4, <3>3
            <4>2. Ahead \subseteq {"reload"}  BY <1>1, <4>1
            <4>3. Step' \in Left'
                <5>1. work' \in Mutation  BY NextStep
                <5>2. work'.at \in Nat \ {0} /\ work'.prog \in Seq(Steps)
                    BY <5>1 DEF Mutation
                <5>3. work'.at \in work'.at..Len(work'.prog)
                    BY <2>4, <5>2 DEF Running
                <5> QED  BY <5>3 DEF Left, Rest, Step
            <4> QED  BY <1>1, <3>1, <4>1, <4>2, <4>3
        <3> QED  BY <3>2, <3>3
    <2>5. ASSUME ~work'.err PROVE AsFarAs'
        <3>1. Advance /\ ~Fail /\ ~work.err /\ Left' = Ahead  BY <1>3, <2>5
        <3>2. CASE journal = NoJournal
            <4>1. journal' = NoJournal  BY <3>2
            <4>2. WithoutJournal'  BY <1>2, <1>3, <3>1, <3>2 DEF WithoutJournal
            <4> QED  BY <4>1, <4>2 DEF AsFarAs
        <3>3. CASE journal # NoJournal
            <4>1. work.prog # Withdraw
                <5>1. work.at \in 1..Len(work.prog)  BY StepType
                <5> QED  BY <5>1, WithdrawSteps DEF Step
            <4>2. OnCourse(journal'.kind, journal'.target, world', Left')
                BY <1>2, <1>4, <3>1, <3>3
            <4> QED  BY <1>3, <3>3, <4>1, <4>2 DEF AsFarAs
        <3> QED  BY <3>2, <3>3
    <2> QED  BY <1>1, <1>3, <2>1, <2>2, <2>3, <2>4, <2>5 DEF InPlace
<1> QED  BY <1>5, <1>6, <1>7, <1>8, <1>9, <1>10 DEF Course

\* The write in place, and the registry entry that is rendered again after it.
LEMMA QuietStep ==
    ASSUME TypeInv, BooksInv, Clean, Course, Running, work.prog = QuietPatchProgram,
           UNCHANGED <<record, deferred, before, prep, journal>>,
           NEW w \in Leaves(Step, work.call.target, world),
           \/ Fail /\ world' \in {w, Marked(w)}
           \/ /\ Advance /\ world' = After(Step, work.call.target, world)
              /\ Accepts(Step, work.call.target, world)
    PROVE  /\ journal = NoJournal /\ work # NoWork /\ work.who = "caller" /\ ~work.err
           /\ work.call.kind \in {"deploy", "patch"} /\ work \in Mutation
           /\ work.at \in 1..4 /\ Step # "upAnyway"
           /\ world.entry # None /\ world.entry.env = work.call.target
           /\ world' \in {world, [world EXCEPT !.env = work.call.target]}
           /\ Advance /\ ~Fail /\ work.at >= 2 => world'.env = work.call.target
           /\ Consistent(world') /\ world'.env # None /\ world'.entry = world.entry
           /\ Whole(world, world') \/ world' = world
<1> PICK t : t = work.call.target
    OBVIOUS
<1>1. /\ work # NoWork /\ work \in Mutation /\ work.phase = "run" /\ work.who = "caller"
      /\ journal = NoJournal /\ t = work.call.target
      /\ world.entry # None /\ world.entry.env = t /\ ~work.err
      /\ work.at > 2 => world.env = t
      /\ work.call.kind \in {"deploy", "patch"} /\ t \in Envs /\ t # None
      /\ world \in World /\ Consistent(world) /\ world.env # None
      /\ work.at \in 1..Len(work.prog)
    <2>1. work # NoWork /\ work.phase = "run"  BY DEF Running
    <2>2. InPlaceQuiet  BY <2>1 DEF Course, InPlace
    <2>3. work.call.kind \in {"deploy", "patch"}
        BY <2>1, <2>2 DEF Course, Linked, InPlaceQuiet
    <2>4. t \in Envs /\ t # None
        BY <2>1, <2>3, WorkType, CallType, LifecycleAssumption
    <2>5. Consistent(world) /\ world.env # None
        BY <2>1, <2>2 DEF Course, Calm, InPlaceQuiet
    <2> QED
        BY <2>1, <2>2, <2>3, <2>4, <2>5, WorkType, StepType DEF InPlaceQuiet, TypeInv, TypeOK
<1>2. /\ work.at \in 1..4
      /\ Step = IF work.at = 2 THEN "writeEnv" ELSE IF work.at = 4 THEN "sync"
                ELSE "notCancelled"
    BY <1>1 DEF QuietPatchProgram, Step
<1>3. world' \in {world, [world EXCEPT !.env = t]}
      /\ (Advance /\ ~Fail /\ work.at >= 2 => world'.env = t)
    <2>1. ~PastBoundary  BY <1>1 DEF PastBoundary
    <2>2. w = world  BY <1>2 DEF Leaves
    <2>3. CASE Fail /\ world' \in {w, Marked(w)}  BY <2>1, <2>2, <2>3 DEF Marked
    <2>4. CASE /\ Advance /\ world' = After(Step, work.call.target, world)
        <3>1. CASE work.at = 2
            <4>1. world' = [world EXCEPT !.env = t]
                BY <1>1, <1>2, <2>4, <3>1 DEF After
            <4> QED  BY <1>1, <4>1 DEF World
        <3>2. CASE work.at = 4
            <4>1. world' = Synced(world)  BY <1>1, <1>2, <2>4, <3>2 DEF After
            <4>2. world.env = t /\ ~world.entry.repair
                BY <1>1, <3>2 DEF Consistent
            <4>3. [env |-> world.env, repair |-> world.entry # None /\ world.entry.repair]
                    = world.entry
                BY <1>1, <4>2 DEF World, Entry
            <4>4. Synced(world) = [world EXCEPT !.entry = world.entry]
                BY <4>3 DEF Synced
            <4>5. [world EXCEPT !.entry = world.entry] = world  BY <1>1 DEF World
            <4> QED  BY <4>1, <4>2, <4>4, <4>5
        <3>3. CASE work.at \in {1, 3}
            BY <1>1, <1>2, <2>4, <3>3 DEF After
        <3> QED  BY <1>2, <3>1, <3>2, <3>3
    <2> QED  BY <2>3, <2>4
<1>4. /\ Consistent(world') /\ world'.env # None /\ world'.entry = world.entry
      /\ world.env = t => world'.env = t
    BY <1>1, <1>3 DEF Consistent, World
<1>5. Whole(world, world') \/ world' = world
    BY <1>1, <1>3, <1>4 DEF Whole, World
<1> QED  BY <1>1, <1>2, <1>3, <1>4, <1>5

LEMMA QuietStepCourse ==
    ASSUME TypeInv, BooksInv, Clean, Course, Running, work.prog = QuietPatchProgram,
           UNCHANGED <<record, deferred, before, prep, journal>>,
           NEW w \in Leaves(Step, work.call.target, world),
           \/ Fail /\ world' \in {w, Marked(w)}
           \/ /\ Advance /\ world' = After(Step, work.call.target, world)
              /\ Accepts(Step, work.call.target, world)
    PROVE  Course'
<1> PICK t : t = work.call.target
    OBVIOUS
<1>1. /\ journal = NoJournal /\ work # NoWork /\ work.who = "caller" /\ ~work.err
      /\ work.call.kind \in {"deploy", "patch"} /\ work \in Mutation
      /\ work.at \in 1..4 /\ Step # "upAnyway"
      /\ world.entry # None /\ world.entry.env = t /\ t = work.call.target
      /\ Advance /\ ~Fail /\ work.at >= 2 => world'.env = t
      /\ Consistent(world') /\ world'.env # None /\ world'.entry = world.entry
    BY QuietStep
<1>2. /\ work' # NoWork /\ work'.phase = "run" /\ work'.who = work.who
      /\ work'.call = work.call /\ work'.prog = work.prog
      /\ Advance => work'.err = work.err
      /\ Fail => work'.err
      /\ Fail /\ Step # "upAnyway" => ~Running' /\ Left' = {}
    BY NextPlace
<1>3. Linked'  BY <1>1, <1>2 DEF Course, Linked
<1>4. UnderJournal'  BY <1>1 DEF UnderJournal
<1>5. Calm'  BY <1>1 DEF Calm
<1>6. Settling'  BY <1>2 DEF Settling
<1>7. Awaiting'  BY <1>1, <1>2, RunningBooksCourse
<1>8. InPlace'
    <2>1. Advance /\ ~Fail => work'.at = work.at + 1
        BY <1>1 DEF Advance, Mutation
    <2>2. Fail \/ (Advance /\ ~Fail)  OBVIOUS
    <2>3. Running' => ~work'.err
        BY <1>1, <1>2, <2>2
    <2>4. ~work'.err /\ work'.at > 2 => world'.env = t
        <3>1. ASSUME ~work'.err, work'.at > 2 PROVE world'.env = t
            <4>1. Advance /\ ~Fail /\ work.at >= 2
                BY <1>1, <1>2, <2>1, <2>2, <3>1
            <4> QED  BY <1>1, <4>1
        <3> QED  BY <3>1
    <2>5. InPlaceQuiet'
        BY <1>1, <1>2, <2>3, <2>4 DEF InPlaceQuiet
    <2> QED  BY <1>2, <2>5 DEF InPlace
<1> QED  BY <1>3, <1>4, <1>5, <1>6, <1>7, <1>8 DEF Course

LEMMA WorldStepCourse ==
    ASSUME TypeInv, BooksInv, Clean, Course,
           StepDone \/ StepRefused \/ StepFails \/ \E ok \in BOOLEAN : AdvanceJournal(ok)
    PROVE  Course'
<1>1. /\ Running /\ UNCHANGED <<record, deferred, before, prep>>
      /\ Step \notin {"journal", "clear", "succeed", "cancel"}
    BY DEF StepDone, StepRefused, StepFails, AdvanceJournal, OwnSteps, books
<1>2. /\ world \in Leaves(Step, work.call.target, world)
      /\ Leaves(Step, work.call.target, world) \subseteq
             Outcomes(Step, work.call.target, world)
    BY DEF Leaves, Outcomes
<1>3. CASE StepDone
    <2>1. /\ Advance /\ UNCHANGED journal
          /\ world' = After(Step, work.call.target, world)
          /\ Accepts(Step, work.call.target, world)
        BY <1>3 DEF StepDone
    <2>2. world' \in Outcomes(Step, work.call.target, world)
        BY <2>1 DEF Outcomes
    <2>3. CASE work.prog = QuietPatchProgram
        BY <1>1, <1>2, <2>1, <2>3, QuietStepCourse
    <2>4. CASE work.prog # QuietPatchProgram
        <3>1. PICK w \in Outcomes(Step, work.call.target, world) : w = world'
            BY <2>2
        <3> QED  BY <1>1, <2>1, <2>4, <3>1, ServerCourse
    <2> QED  BY <2>3, <2>4
<1>4. CASE StepRefused
    <2>1. Fail /\ UNCHANGED journal /\ world' \in {world, Marked(world)}
        BY <1>4 DEF StepRefused
    <2>2. CASE work.prog = QuietPatchProgram
        BY <1>1, <1>2, <2>1, <2>2, QuietStepCourse
    <2>3. CASE work.prog # QuietPatchProgram
        BY <1>1, <1>2, <2>1, <2>3, ServerCourse
    <2> QED  BY <2>2, <2>3
<1>5. CASE StepFails
    <2>1. /\ Fail /\ UNCHANGED journal /\ Accepts(Step, work.call.target, world)
          /\ \E w \in Leaves(Step, work.call.target, world) : world' \in {w, Marked(w)}
        BY <1>5 DEF StepFails
    <2>2. PICK w \in Leaves(Step, work.call.target, world) : world' \in {w, Marked(w)}
        BY <2>1
    <2>3. CASE work.prog = QuietPatchProgram
        BY <1>1, <2>1, <2>2, <2>3, QuietStepCourse
    <2>4. CASE work.prog # QuietPatchProgram
        BY <1>1, <1>2, <2>1, <2>2, <2>4, ServerCourse
    <2> QED  BY <2>3, <2>4
<1>6. ASSUME NEW ok \in BOOLEAN, AdvanceJournal(ok) PROVE Course'
    <2> DEFINE new == [journal EXCEPT !.stage = StageOf(Step)]
    <2>1. /\ journal # NoJournal /\ journal \in Journal
          /\ Step \in {"stageEnv", "stageRegistry", "stageDown"}
          /\ journal' \in {journal, new}
          /\ \/ Fail /\ world' \in {world, Marked(world)}
             \/ Advance /\ world' = world
        BY <1>6 DEF AdvanceJournal, TypeInv, TypeOK
    <2>2. /\ new \in Journal /\ new.op = journal.op /\ new.kind = journal.kind
          /\ new.target = journal.target
        BY <2>1 DEF Journal, StageOf
    <2> HIDE DEF new
    <2>3. journal' # NoJournal /\ IntentOf(journal') = IntentOf(journal)
        BY <2>1, <2>2, LifecycleAssumption DEF IntentOf
    <2>4. /\ Accepts(Step, work.call.target, world)
          /\ After(Step, work.call.target, world) = world
        BY <2>1 DEF Accepts, After
    <2>5. work.prog # QuietPatchProgram
        <3>1. work.at \in 1..Len(work.prog)  BY <1>1, StepType
        <3> QED  BY <2>1, <3>1 DEF QuietPatchProgram, Step
    <2> QED  BY <1>1, <1>2, <2>1, <2>3, <2>4, <2>5, ServerCourse
<1> QED  BY <1>3, <1>4, <1>5, <1>6

\* A server of which there is nothing.
LEMMA EmptyOrder ==
    ASSUME NEW w \in World, Consistent(w), w.env = None
    PROVE  w = EmptyWorld
BY DEF Consistent, EmptyWorld, World

\* The journal goes when the server is as it was, or as the journal wants it.
LEMMA ClearFinds ==
    ASSUME TypeInv, BooksInv, Clean, Course, Running, Step \in {"clear", "createEnv"}
    PROVE  /\ work.prog # QuietPatchProgram /\ Consistent(world)
           /\ work.who = "caller" => world.env # None
           /\ journal # NoJournal => world = before \/ Reached(journal, before, world)
           /\ \A op \in Ops : deferred[op] # "succeeded"
           /\ Step = "clear" => journal # NoJournal /\ Ahead = {} /\ work.who # "worker"
<1> PICK kind, t : kind = work.call.kind /\ t = work.call.target
    OBVIOUS
<1>1. work.at \in 1..Len(work.prog) /\ work.prog[work.at] = Step
    BY StepType DEF Step
<1>2. work.prog # QuietPatchProgram
    BY <1>1 DEF QuietPatchProgram
<1>3. /\ work # NoWork /\ work.phase = "run" /\ kind = work.call.kind
      /\ Left = {Step} \cup Ahead /\ Follows(kind, Step, Ahead)
      /\ world \in World /\ kind \in Kinds /\ t \in Envs \cup {None}
      /\ (t = None) = (kind = "close")
      /\ journal # NoJournal =>
           /\ journal.kind = kind /\ journal.target = t /\ before \in World
           /\ Standing(kind, t, before, world)
      /\ work.err => journal # NoJournal /\ Left = {"reload"} /\ Step = "reload"
      /\ ~work.err => AsFarAs
      /\ "createEnv" \in Left /\ "absent" \notin Left => world.env = None
      /\ work.who = "worker" => "clear" \notin Left
    BY <1>2, InTheMiddle
<1>4. kind = "create" => work.who # "caller"
    BY <1>3 DEF Course, Linked
<1>5. ASSUME NEW op \in Ops, deferred[op] = "succeeded" PROVE FALSE
    <2>1. RecordsFirst(work) /\ work.call.op = op  BY <1>3, <1>5, AwaitedInRun
    <2>2. work.at \in work.at..Len(work.prog) /\ (\A k \in work.at..work.at : k = work.at)
        BY <1>1
    <2>3. /\ Step \notin {"createEnv", "journal"}
          /\ Step = "clear" => \E k \in work.at..work.at : Records(work.prog[k])
        BY <1>1, <2>1, <2>2 DEF RecordsFirst
    <2> QED  BY <1>1, <2>2, <2>3 DEF Records
<1>6. ASSUME kind = "create", world.env = None
      PROVE  Consistent(world) /\ (journal # NoJournal => world = before)
    <2>1. CASE journal = NoJournal  BY <2>1 DEF Course, Calm
    <2>2. CASE journal # NoJournal
        <3>1. world = EmptyWorld /\ before = EmptyWorld
            BY <1>3, <1>6, <2>2 DEF Standing, StandingCreate
        <3> QED  BY <3>1 DEF Consistent, EmptyWorld
    <2> QED  BY <2>1, <2>2
<1>7. CASE Step = "createEnv"
    <2>1. kind = "create"
        BY <1>3, <1>7 DEF Follows, FollowsClose, FollowsReset, FollowsDeploy, FollowsPatch,
                          Changing, Kinds
    <2>2. world.env = None
        BY <1>3, <1>7, <2>1 DEF Follows, FollowsCreate
    <2> QED  BY <1>2, <1>4, <1>5, <1>6, <1>7, <2>1, <2>2
<1>8. CASE Step = "clear"
    <2>1. Ahead = {} /\ Left = {"clear"}
        BY <1>3, <1>8 DEF Follows, FollowsAny
    <2>2. journal # NoJournal /\ ~work.err /\ AsFarAs
        BY <1>3, <1>8, <2>1 DEF AsFarAs, WithoutJournal
    <2>3. CASE work.prog = Withdraw
        <3>1. kind = "create" /\ world.env = None
            BY <1>3, <2>2, <2>3 DEF AsFarAs
        <3> QED  BY <1>2, <1>3, <1>4, <1>5, <1>6, <2>1, <2>2, <3>1
    <2>4. CASE work.prog # Withdraw
        <3>1. OnCourse(kind, t, world, {"clear"})
            BY <1>3, <2>1, <2>2, <2>4 DEF AsFarAs
        <3>2. /\ Reached(journal, before, world) /\ Consistent(world)
              /\ kind \in {"deploy", "patch"} => world.env # None
            BY <1>3, <2>2, <3>1, CourseEnds
        <3>3. work.who = "caller" => kind \in {"deploy", "patch"}
            BY <1>3 DEF Course, Linked
        <3> QED  BY <1>2, <1>3, <1>5, <2>1, <2>2, <3>2, <3>3
    <2> QED  BY <2>3, <2>4
<1> QED  BY <1>7, <1>8

LEMMA JournalGoesCourse ==
    ASSUME TypeInv, BooksInv, Clean, Course, Running, Step \in {"clear", "createEnv"},
           UNCHANGED <<world, record, deferred, prep>>,
           \/ Fail /\ journal' = journal /\ before' = before
           \/ Fail /\ journal' = NoJournal
           \/ Advance /\ journal' = NoJournal /\ Step = "clear"
    PROVE  Course'
<1>1. /\ work.prog # QuietPatchProgram /\ Consistent(world)
      /\ work.who = "caller" => world.env # None
      /\ \A op \in Ops : deferred[op] # "succeeded"
      /\ Step = "clear" => journal # NoJournal /\ Ahead = {} /\ work.who # "worker"
    BY ClearFinds
<1>2. /\ work # NoWork /\ WellMade(work.call.kind, work.prog)
      /\ work.who = "worker" => work.prog # Withdraw
      /\ work.err => Left = {"reload"} /\ Step = "reload"
    <2>1. work # NoWork /\ work.phase = "run"  BY DEF Running
    <2>2. WellMade(work.call.kind, work.prog)  BY <1>1, <2>1 DEF Course, InPlace
    <2>3. PICK kind, t : kind = work.call.kind /\ t = work.call.target
        OBVIOUS
    <2>4. /\ work.who = "worker" => work.prog # Withdraw
          /\ work.err => Left = {"reload"} /\ Step = "reload"
        BY <1>1, <2>3, InTheMiddle
    <2> QED  BY <2>1, <2>2, <2>4
<1>3. /\ work' # NoWork /\ work'.phase = "run" /\ work'.who = work.who
      /\ work'.call = work.call /\ work'.prog = work.prog
      /\ Advance => work'.err = work.err /\ Left' = Ahead
      /\ Fail => work'.err /\ ~Running' /\ Left' = {}
    BY NextPlace
<1>4. Linked'  BY <1>2, <1>3 DEF Course, Linked
<1>5. UnderJournal'
    <2>1. CASE journal' = NoJournal  BY <2>1 DEF UnderJournal
    <2>2. CASE journal' = journal /\ before' = before
        <3>1. SucceededOn' = SucceededOn  BY <2>2 DEF SucceededOn
        <3> QED  BY <1>2, <1>3, <2>2, <3>1 DEF Course, UnderJournal
    <2> QED  BY <2>1, <2>2
<1>6. Calm'  BY <1>1, <1>3 DEF Calm
<1>7. Settling'  BY <1>3 DEF Settling
<1>8. Awaiting'  BY <1>1 DEF Awaiting
<1>9. InPlace'
    <2>1. Left' = {}  BY <1>1, <1>3
    <2>2. ~work'.err => AsFarAs'
        BY <1>1, <1>3, <2>1 DEF AsFarAs, WithoutJournal
    <2>3. Running' => ~work'.err  BY <1>1, <1>2, <1>3
    <2> QED  BY <1>1, <1>2, <1>3, <2>1, <2>2, <2>3 DEF InPlace
<1> QED  BY <1>4, <1>5, <1>6, <1>7, <1>8, <1>9 DEF Course

LEMMA JournalGoes ==
    ASSUME TypeInv, BooksInv, Clean, Course,
           CreateEnvFails \/ \E ok \in BOOLEAN : ClearStep(ok)
    PROVE  Course'
<1>1. /\ Running /\ Step \in {"clear", "createEnv"}
      /\ UNCHANGED <<world, record, deferred, prep>>
    BY DEF CreateEnvFails, ClearStep, books
<1>2. \/ Fail /\ journal' = journal /\ before' = before
      \/ Fail /\ journal' = NoJournal
      \/ Advance /\ journal' = NoJournal /\ Step = "clear"
    BY DEF CreateEnvFails, ClearStep, Clear
<1> QED  BY <1>1, <1>2, JournalGoesCourse

\* What a create, a close or a reset is to reach is in order.
LEMMA ReachedInOrder ==
    ASSUME NEW j, NEW o, NEW w \in World, j.kind \in LinkedKinds,
           j.kind # "close" => j.target \in Envs, Reached(j, o, w)
    PROVE  Consistent(w)
<1> PICK t : t = j.target
    OBVIOUS
<1>1. t \in Envs => /\ Entered(t) # None /\ Entered(t).env = t /\ ~Entered(t).repair
                    /\ t # None
    BY EnteredType
<1>2. /\ RunningWorld(t).env = t /\ RunningWorld(t).entry = Entered(t)
      /\ RunningWorld(t).stack = t /\ RunningWorld(t).data = t
      /\ RunningWorld(t).shared = Entered(t)
    BY DEF RunningWorld, Entered
<1>3. CASE j.kind = "create"
    <2>1. w = [RunningWorld(t) EXCEPT !.data = w.data] /\ w.data # None
        BY <1>3 DEF Reached
    <2>2. /\ [RunningWorld(t) EXCEPT !.data = w.data].env = t
          /\ [RunningWorld(t) EXCEPT !.data = w.data].entry = Entered(t)
          /\ [RunningWorld(t) EXCEPT !.data = w.data].stack = t
          /\ [RunningWorld(t) EXCEPT !.data = w.data].shared = Entered(t)
        BY DEF RunningWorld, Entered
    <2>3. /\ w.env = t /\ w.entry = Entered(t) /\ w.stack = t /\ w.shared = Entered(t)
          /\ w.data # None
        BY <2>1, <2>2
    <2> QED  BY <1>1, <1>3, <2>3 DEF Consistent
<1>4. CASE j.kind = "close"
    BY <1>4 DEF Reached, Consistent, EmptyWorld
<1>5. CASE j.kind = "reset"
    <2>1. w = RunningWorld(t)  BY <1>5 DEF Reached
    <2> QED  BY <1>1, <1>2, <1>5, <2>1 DEF Consistent
<1> QED  BY <1>3, <1>4, <1>5 DEF LinkedKinds

\* The journal is written with the server in order and all its duties ahead.
LEMMA JournalBegins ==
    ASSUME TypeInv, BooksInv, Course, NEW kind \in Kinds, NEW t, NEW left,
           Consistent(world), kind \in {"deploy", "patch"} => world.env # None,
           kind = "create" => world.env = None, Duties(kind) \subseteq left
    PROVE  Standing(kind, t, world, world) /\ OnCourse(kind, t, world, left)
<1>1. world \in World  BY DEF TypeInv, TypeOK
<1>2. Standing(kind, t, world, world)
    <2>1. kind = "create" => StandingCreate(t, world, world)
        <3>1. kind = "create" => world = EmptyWorld  BY <1>1, EmptyOrder
        <3> QED  BY <3>1 DEF StandingCreate, EmptyWorld
    <2>2. kind = "close" => StandingClose(world)
        BY DEF StandingClose, Consistent
    <2>3. kind = "deploy" => StandingDeploy(t, world, world)
        BY DEF StandingDeploy
    <2>4. kind = "patch" => StandingPatch(t, world, world)
        BY DEF StandingPatch, Consistent
    <2> QED  BY <2>1, <2>2, <2>3, <2>4 DEF Standing
<1>3. OnCourse(kind, t, world, left)
    <2>1. kind = "create" => CourseCreate(t, world, left)
        BY DEF Duties, CourseCreate
    <2>2. kind = "close" => CourseClose(world, left)
        BY DEF Duties, CourseClose
    <2>3. kind = "reset" => CourseReset(t, world, left)
        BY DEF Duties, CourseReset
    <2>4. kind = "deploy" => CourseDeploy(world, left)
        BY DEF Duties, CourseDeploy
    <2>5. kind = "patch" => CoursePatch(world, left)
        BY DEF Duties, CoursePatch
    <2> QED  BY <2>1, <2>2, <2>3, <2>4, <2>5 DEF OnCourse
<1> QED  BY <1>2, <1>3

\* What WriteJournal puts on file is the request at hand.
LEMMA JournalAdvanced ==
    ASSUME TypeInv, NEW ok \in BOOLEAN, AdvanceJournal(ok)
    PROVE  journal' # NoJournal
<1> DEFINE new == [journal EXCEPT !.stage = StageOf(Step)]
<1>1. /\ journal # NoJournal /\ journal \in Journal
      /\ Step \in {"stageEnv", "stageRegistry", "stageDown"}
      /\ journal' \in {journal, new}
    BY DEF AdvanceJournal, TypeInv, TypeOK
<1>2. new \in Journal  BY <1>1 DEF Journal, StageOf
<1> HIDE DEF new
<1> QED  BY <1>1, <1>2, LifecycleAssumption

LEMMA JournalWritten ==
    ASSUME TypeInv, NEW ok \in BOOLEAN, WriteJournal(ok), journal' # NoJournal
    PROVE  /\ journal'.op = work.call.op /\ journal'.kind = work.call.kind
           /\ journal'.target = work.call.target /\ IntentOf(journal') = work.call
<1>1. journal' = [op |-> work.call.op, kind |-> work.call.kind,
                  target |-> work.call.target, stage |-> "prepared"]
    BY DEF WriteJournal
<1>2. work.call \in Call  BY WorkType, CallType DEF WriteJournal, Running
<1>3. work.call = [op |-> work.call.op, kind |-> work.call.kind,
                   target |-> work.call.target]
    BY <1>2 DEF Call
<1> QED  BY <1>1, <1>3 DEF IntentOf

LEMMA WriteJournalCourse ==
    ASSUME TypeInv, BooksInv, Clean, Course, NEW ok \in BOOLEAN, WriteJournal(ok)
    PROVE  Course'
<1> PICK kind, t : kind = work.call.kind /\ t = work.call.target
    OBVIOUS
<1>1. /\ Running /\ Step = "journal" /\ journal = NoJournal
      /\ UNCHANGED <<world, record, deferred, prep>> /\ (Advance \/ Fail)
      /\ Advance /\ ~Fail => journal' # NoJournal
      /\ journal' # NoJournal => before' = world
    <2>1. /\ Running /\ Step = "journal" /\ journal = NoJournal
          /\ UNCHANGED <<world, record, deferred, prep>> /\ (Advance \/ Fail)
          /\ journal' # NoJournal => before' = world
        BY DEF WriteJournal, books
    <2>2. ASSUME ok PROVE journal' # NoJournal
        <3>1. journal' = [op |-> work.call.op, kind |-> work.call.kind,
                          target |-> work.call.target, stage |-> "prepared"]
            BY <2>2 DEF WriteJournal
        <3>2. journal' \in Journal
            <4>1. work # NoWork  BY <2>1 DEF Running
            <4> QED  BY <3>1, <4>1, WorkType DEF Journal
        <3> QED  BY <3>2, LifecycleAssumption
    <2>3. Advance /\ ~Fail => ok  BY DEF WriteJournal
    <2> QED  BY <2>1, <2>2, <2>3
<1>2. work.at \in 1..Len(work.prog) /\ work.prog[work.at] = "journal"
    BY <1>1, StepType DEF Step
<1>3. /\ work.prog # QuietPatchProgram /\ work.prog # Withdraw
    BY <1>2, WithdrawSteps DEF QuietPatchProgram
<1>4. /\ work # NoWork /\ work.phase = "run" /\ work \in Mutation
      /\ Left = {Step} \cup Ahead /\ Follows(kind, Step, Ahead) /\ kind \in Kinds
      /\ work.err => Step = "reload"
      /\ ~work.err => AsFarAs
      /\ "createEnv" \in Left /\ "absent" \notin Left => world.env = None
      /\ work.who = "worker" => "clear" \notin Left
    BY <1>1, <1>3, InTheMiddle
<1>5. ~work.err /\ work.who \in {"worker", "caller"}
    BY <1>1, <1>4 DEF AsFarAs, WithoutJournal
<1>6. "absent" \notin Left /\ Duties(kind) \subseteq Ahead
    BY <1>1, <1>4 DEF Follows, FollowsAny
<1>7. /\ kind = "create" => world.env = None
      /\ kind \in {"deploy", "patch"} => work.who = "caller"
    <2>1. kind = "create" => "createEnv" \in Left
        BY <1>4, <1>6 DEF Duties
    <2> QED  BY <1>4, <1>5, <1>6, <2>1 DEF Course, Linked, LinkedKinds
<1>8. Standing(kind, t, world, world) /\ OnCourse(kind, t, world, Ahead)
    BY <1>1, <1>4, <1>6, <1>7, JournalBegins DEF Course, Calm
<1>9. /\ work' # NoWork /\ work'.phase = "run" /\ work'.who = work.who
      /\ work'.call = work.call /\ work'.prog = work.prog
      /\ Advance => work'.err = work.err /\ Left' = Ahead
      /\ Fail => work'.err
      /\ Fail => ~Running' /\ Left' = {}
    BY <1>1, NextPlace
<1>10. journal' # NoJournal => /\ journal'.op = work.call.op /\ journal'.kind = kind
                               /\ journal'.target = t /\ IntentOf(journal') = work.call
    BY JournalWritten
<1>11. journal' # NoJournal => ~SucceededOn'
    <2>1. ASSUME journal' # NoJournal, work.call.op # NoOp
          PROVE  "succeeded" \notin {record[work.call.op], deferred[work.call.op]}
        <3>1. work.who = "worker"  BY <1>4, <1>5, <2>1 DEF BooksInv, Owned
        <3>2. record[work.call.op] = "running" /\ deferred[work.call.op] = "none"
            BY <1>4, <2>1, <3>1 DEF BooksInv, Worked
        <3> QED  BY <3>2
    <2> QED  BY <1>1, <1>10, <2>1 DEF SucceededOn
<1>12. Linked'  BY <1>1, <1>4, <1>9 DEF Course, Linked
<1>13. UnderJournal'
    BY <1>1, <1>8, <1>9, <1>10, <1>11 DEF UnderJournal, TypeInv, TypeOK
<1>14. Calm'  BY <1>1, <1>4, <1>9 DEF Course, Calm
<1>15. Settling'  BY <1>9 DEF Settling
<1>16. Awaiting'  BY <1>1, NothingAwaited DEF NoSuccess
<1>17. InPlace'
    <2>1. WellMade(kind, work.prog)  BY <1>3, <1>4 DEF Course, InPlace
    <2>2. Left' \subseteq Left  BY <1>1, <1>4, <1>9
    <2>3. "createEnv" \in Left' /\ "absent" \notin Left' => world'.env = None
        BY <1>1, <1>4, <1>6, <2>2
    <2>4. Running' => ~work'.err  BY <1>1, <1>5, <1>9
    <2>5. ASSUME ~work'.err PROVE AsFarAs'
        <3>1. Advance /\ ~Fail /\ Left' = Ahead /\ journal' # NoJournal
            BY <1>1, <1>9, <2>5
        <3> QED  BY <1>1, <1>3, <1>8, <1>9, <1>10, <3>1 DEF AsFarAs
    <2> QED  BY <1>3, <1>4, <1>9, <2>1, <2>2, <2>3, <2>4, <2>5 DEF InPlace
<1> QED  BY <1>12, <1>13, <1>14, <1>15, <1>16, <1>17 DEF Course

LEMMA SettleJournalCourse ==
    ASSUME TypeInv, BooksInv, Clean, Course, NEW ok \in BOOLEAN, SettleJournal(ok)
    PROVE  Course'
<1>1. /\ work # NoWork /\ work.phase = "settle" /\ work.who = "worker"
      /\ work.call.kind \in LinkedKinds /\ work \in Mutation
      /\ UNCHANGED <<world, record, deferred, prep>>
    <2>1. /\ work # NoWork /\ work.phase = "settle"
          /\ UNCHANGED <<world, record, deferred, prep>>
        BY DEF SettleJournal, books
    <2>2. work.who = "worker"  BY <2>1 DEF BooksInv, Owned
    <2> QED  BY <2>1, <2>2, WorkType DEF Course, Linked
<1>2. journal # NoJournal /\ Reached(journal, before, world) /\ Consistent(world)
    <2>1. journal # NoJournal /\ Reached(journal, before, world)
        BY <1>1 DEF Course, Settling
    <2>2. journal.kind = work.call.kind /\ journal.target = work.call.target
        <3>1. IntentOf(journal) = work.call  BY <1>1, <2>1 DEF Course, UnderJournal
        <3> QED  BY <2>1, <3>1 DEF IntentOf
    <2>3. journal.kind # "close" => journal.target \in Envs
        BY <1>1, <2>2, WorkType, CallType
    <2>4. world \in World  BY DEF TypeInv, TypeOK
    <2> QED  BY <1>1, <2>1, <2>2, <2>3, <2>4, ReachedInOrder
<1>3. /\ work' # NoWork /\ work'.phase = "finish" /\ work'.who = "worker"
      /\ work'.call = work.call
    <2>1. work' = [work EXCEPT !.phase = "finish"]  BY DEF SettleJournal
    <2>2. work' \in Mutation  BY <1>1, <2>1 DEF Mutation
    <2> QED  BY <1>1, <2>1, <2>2, NoWorkIsNoWork DEF Mutation
<1>4. \A op \in Ops : deferred[op] # "succeeded"
    BY <1>1, AwaitedInRun
<1>5. Linked'  BY <1>1, <1>3 DEF Course, Linked
<1>6. UnderJournal'
    <2>1. journal' = NoJournal \/ (journal' = journal /\ before' = before)
        BY DEF SettleJournal, Clear
    <2>2. journal' = journal => SucceededOn' = SucceededOn
        BY <1>1 DEF SucceededOn
    <2> QED  BY <1>1, <1>3, <2>1, <2>2 DEF Course, UnderJournal
<1>7. Calm'  BY <1>1, <1>2, <1>3 DEF Calm
<1>8. InPlace' /\ Settling'  BY <1>3 DEF InPlace, Settling
<1>9. Awaiting'  BY <1>1, <1>4 DEF Awaiting
<1> QED  BY <1>5, <1>6, <1>7, <1>8, <1>9 DEF Course

\* A repair that comes to record the outcome has only to clear the journal then.
LEMMA AtRecord ==
    ASSUME TypeInv, BooksInv, Course, Running, Records(Step)
    PROVE  /\ journal # NoJournal /\ work.prog # QuietPatchProgram /\ ~work.err
           /\ Ahead = {"clear"} /\ work.who # "worker"
           /\ journal.kind = work.call.kind /\ journal.op = work.call.op
           /\ work.prog = Withdraw => journal.kind = "create" /\ world.env = None
           /\ work.prog # Withdraw =>
                OnCourse(journal.kind, journal.target, world, {"clear"})
           /\ Step = "succeed" => /\ Reached(journal, before, world)
                                  /\ Won(journal.kind, journal.target, world)
<1> PICK kind, t : kind = work.call.kind /\ t = work.call.target
    OBVIOUS
<1>1. work.at \in 1..Len(work.prog) /\ work.prog[work.at] = Step
    BY StepType DEF Step
<1>2. /\ work.prog # QuietPatchProgram
      /\ Step = "succeed" => work.prog # Withdraw
    BY <1>1, WithdrawSteps DEF QuietPatchProgram, Records
<1>3. /\ work # NoWork /\ work.phase = "run" /\ kind = work.call.kind
      /\ Left = {Step} \cup Ahead /\ Follows(kind, Step, Ahead)
      /\ world \in World /\ kind \in Kinds /\ t \in Envs \cup {None}
      /\ (t = None) = (kind = "close")
      /\ journal # NoJournal =>
           /\ journal.kind = kind /\ journal.target = t /\ before \in World
           /\ Standing(kind, t, before, world)
      /\ work.err => Step = "reload"
      /\ ~work.err => AsFarAs
      /\ work.who = "worker" => "clear" \notin Left
    BY <1>2, InTheMiddle
<1>4. Ahead = {"clear"} /\ Left = {Step, "clear"}
    BY <1>3 DEF Follows, FollowsAny
<1>5. ~work.err /\ work.who # "worker"
    BY <1>3, <1>4 DEF Records
<1>6. journal # NoJournal
    BY <1>3, <1>4, <1>5 DEF AsFarAs, WithoutJournal, Records
<1>7. journal.op = work.call.op
    BY <1>3, <1>6 DEF BooksInv, Owned
<1>8. work.prog = Withdraw => kind = "create" /\ world.env = None
    BY <1>3, <1>5, <1>6 DEF AsFarAs
<1>9. work.prog # Withdraw => OnCourse(kind, t, world, Left)
    BY <1>3, <1>5, <1>6 DEF AsFarAs
<1>10. work.prog # Withdraw => OnCourse(kind, t, world, {"clear"})
    <2>1. \A s : s \notin {"clear", "succeed", "cancel"} => (s \in Left) = (s \in {"clear"})
        BY <1>3, <1>4 DEF Records
    <2>2. CourseCreate(t, world, Left) => CourseCreate(t, world, {"clear"})
        BY <2>1 DEF CourseCreate
    <2>3. CourseClose(world, Left) => CourseClose(world, {"clear"})
        BY <2>1 DEF CourseClose
    <2>4. CourseReset(t, world, Left) => CourseReset(t, world, {"clear"})
        BY <2>1 DEF CourseReset
    <2>5. CourseDeploy(world, Left) => CourseDeploy(world, {"clear"})
        BY <2>1 DEF CourseDeploy
    <2>6. CoursePatch(world, Left) => CoursePatch(world, {"clear"})
        BY <2>1 DEF CoursePatch
    <2> QED  BY <1>9, <2>2, <2>3, <2>4, <2>5, <2>6 DEF OnCourse
<1>11. Step = "succeed" => Reached(journal, before, world) /\ Won(kind, t, world)
    <2>1. Step = "succeed" => OnCourse(kind, t, world, {"clear"})
        BY <1>2, <1>10
    <2> QED  BY <1>3, <1>6, <2>1, CourseEnds
<1> QED  BY <1>2, <1>3, <1>4, <1>5, <1>6, <1>7, <1>8, <1>10, <1>11

\* A transition to anything but success leaves no success deferred.
LEMMA NotDeferred ==
    ASSUME TypeInv, Clean, NEW op \in Ops, NEW status \in Statuses, status # "succeeded",
           NEW ok \in BOOLEAN, Transition(op, status, ok)
    PROVE  deferred'[op] # "succeeded"
<1>1. record[op] \in Terminal => deferred[op] = "none"
    BY DEF Clean, Deferring
<1> QED  BY <1>1, TransitionEffect DEF Statuses

LEMMA RecordRepairCourse ==
    ASSUME TypeInv, BooksInv, Clean, Course, NEW ok \in BOOLEAN, RecordRepair(ok)
    PROVE  Course'
<1> PICK op : op = work.call.op
    OBVIOUS
<1>1. /\ Running /\ Records(Step) /\ UNCHANGED <<world, journal, before, prep>>
      /\ Transition(op, IF Step = "succeed" THEN "succeeded" ELSE "cancelled", ok)
      /\ work' = [work EXCEPT !.who = "settler", !.at = @ + 1] \/ Fail
    BY DEF RecordRepair, Records, history
<1>2. /\ journal # NoJournal /\ work.prog # QuietPatchProgram /\ ~work.err
      /\ Ahead = {"clear"} /\ work.who # "worker"
      /\ journal.kind = work.call.kind /\ journal.op = op
      /\ work.prog = Withdraw => journal.kind = "create" /\ world.env = None
      /\ work.prog # Withdraw => OnCourse(journal.kind, journal.target, world, {"clear"})
      /\ Step = "succeed" => /\ Reached(journal, before, world)
                             /\ Won(journal.kind, journal.target, world)
    BY <1>1, AtRecord
<1>3. /\ work # NoWork /\ work.phase = "run" /\ work \in Mutation
      /\ op \in Ops \cup {NoOp} /\ NoOp \notin Ops
      /\ work.at \in Nat \ {0} /\ work.prog \in Seq(Steps)
    BY <1>1, WorkType, LifecycleAssumption DEF Running
<1>4. /\ work' # NoWork /\ work'.phase = "run" /\ work'.call = work.call
      /\ work'.prog = work.prog /\ work'.who \in {work.who, "settler"}
      /\ ~work'.err => Left' = {"clear"} /\ work'.who = "settler"
      /\ work'.err => ~Running' /\ Left' = {}
    <2>1. CASE work' = [work EXCEPT !.who = "settler", !.at = @ + 1]
        <3>0. /\ work' = [work EXCEPT !.who = "settler", !.at = work.at + 1]
              /\ work.at + 1 \in Nat \ {0}
            BY <1>3, <2>1
        <3>1. work' \in Mutation  BY <1>3, <3>0 DEF Mutation
        <3>2. /\ work'.phase = work.phase /\ work'.call = work.call
              /\ work'.prog = work.prog /\ work'.who = "settler"
              /\ work'.err = work.err /\ work'.at = work.at + 1
            BY <1>3, <2>1 DEF Mutation
        <3>3. Left' = {"clear"}  BY <1>2, <3>2 DEF Left, Ahead, Rest
        <3> QED  BY <1>2, <1>3, <3>1, <3>2, <3>3, NoWorkIsNoWork
    <2>2. CASE Fail
        <3>1. Step # "upAnyway"  BY <1>1 DEF Records
        <3> QED  BY <1>1, <1>3, <2>2, <3>1, NextPlace
    <2> QED  BY <1>1, <2>1, <2>2
<1>5. /\ Step # "succeed" => NoSuccess
      /\ Step # "succeed" /\ op \in Ops => deferred'[op] # "succeeded"
    BY <1>1, <1>3, TransitionSucceeds, NotDeferred DEF Statuses, Terminal
<1>6. Linked'
    <2>1. Linked  BY DEF Course
    <2> QED  BY <1>1, <1>2, <1>3, <1>4, <2>1 DEF Linked
<1>7. UnderJournal'
    <2>1. Step # "succeed" /\ SucceededOn' => SucceededOn
        <3>1. journal.op \in Ops \cup {NoOp}  BY <1>2, <1>3
        <3> QED  BY <1>1, <1>5, <3>1 DEF SucceededOn, NoSuccess
    <2> QED  BY <1>1, <1>2, <1>3, <1>4, <2>1 DEF Course, UnderJournal
<1>8. Calm'  BY <1>1, <1>2 DEF Calm
<1>9. Settling'  BY <1>4 DEF Settling
<1>10. Awaiting'
    <2>1. ASSUME NEW o \in Ops, o # op PROVE deferred'[o] # "succeeded"
        <3>1. deferred[o] # "succeeded"  BY <1>3, <2>1, AwaitedInRun
        <3>2. deferred'[o] = deferred[o]
            <4>1. CASE op = NoOp  BY <1>1, <4>1, NoTransition
            <4>2. CASE op \in Ops
                BY <1>1, <2>1, <4>2, TransitionEffect DEF Statuses, Terminal
            <4> QED  BY <1>3, <4>1, <4>2
        <3> QED  BY <3>1, <3>2
    <2>2. Journalled(op)'  BY <1>1, <1>2 DEF Journalled
    <2>3. Step = "succeed" => Reached(journal, before, world)'  BY <1>1, <1>2
    <2> QED  BY <1>5, <2>1, <2>2, <2>3 DEF Awaiting
<1>11. InPlace'
    <2>1. WellMade(work.call.kind, work.prog)
        BY <1>2, <1>3 DEF Course, InPlace
    <2>2. work'.who # "worker" /\ "createEnv" \notin Left'
        BY <1>2, <1>4
    <2>3. ~work'.err => AsFarAs'
        BY <1>1, <1>2, <1>4 DEF AsFarAs
    <2> QED  BY <1>2, <1>4, <2>1, <2>2, <2>3 DEF InPlace
<1> QED  BY <1>6, <1>7, <1>8, <1>9, <1>10, <1>11 DEF Course

\* A worker that ends without an error has reached what its journal wanted.
LEMMA WorkerEnds ==
    ASSUME TypeInv, BooksInv, Course, Ended, work.who = "worker", ~work.err
    PROVE  /\ journal # NoJournal /\ journal.op = work.call.op
           /\ Reached(journal, before, world)
           /\ Won(journal.kind, journal.target, world)
<1> PICK kind, t : kind = work.call.kind /\ t = work.call.target
    OBVIOUS
<1>1. /\ work # NoWork /\ work.phase = "run" /\ Left = {} /\ world \in World
      /\ kind \in Kinds /\ t \in Envs \cup {None} /\ (t = None) = (kind = "close")
    <2>1. work # NoWork /\ work.phase = "run" /\ work.at > Len(work.prog)
        BY DEF Ended
    <2>2. Left = {}  BY <2>1, WorkType DEF Left, Rest
    <2>3. (t = None) = (kind = "close")  BY <2>1, WorkType, LifecycleAssumption
    <2> QED  BY <2>1, <2>2, <2>3, WorkType DEF TypeInv, TypeOK
<1>2. work.prog # QuietPatchProgram /\ work.prog # Withdraw /\ AsFarAs
    BY <1>1 DEF Course, InPlace, InPlaceQuiet
<1>3. journal # NoJournal
    BY <1>1, <1>2 DEF AsFarAs, WithoutJournal
<1>4. /\ journal.kind = kind /\ journal.target = t /\ before \in World
      /\ Standing(kind, t, before, world)
    <2>1. IntentOf(journal) = work.call /\ before \in World
          /\ Standing(journal.kind, journal.target, before, world)
        BY <1>1, <1>3 DEF Course, UnderJournal
    <2>2. IntentOf(journal).kind = journal.kind /\ IntentOf(journal).target = journal.target
        BY <1>3 DEF IntentOf
    <2> QED  BY <2>1, <2>2
<1>5. OnCourse(kind, t, world, {})
    BY <1>1, <1>2, <1>3, <1>4 DEF AsFarAs
<1>6. Reached(journal, before, world) /\ Won(kind, t, world)
    BY <1>1, <1>4, <1>5, CourseEnds
<1> QED  BY <1>1, <1>3, <1>4, <1>6 DEF BooksInv, Owned

LEMMA RecordResultCourse ==
    ASSUME TypeInv, BooksInv, Clean, Course, NEW ok \in BOOLEAN, RecordResult(ok)
    PROVE  Course'
<1> PICK op : op = work.call.op
    OBVIOUS
<1>1. /\ Ended /\ work.who = "worker" /\ UNCHANGED <<world, journal, before, prep>>
      /\ Transition(op, Outcome, ok)
    BY DEF RecordResult, history
<1>2. /\ work # NoWork /\ work.phase = "run" /\ work \in Mutation
      /\ op \in Ops \cup {NoOp} /\ NoOp \notin Ops
    BY <1>1, WorkType, LifecycleAssumption DEF Ended
<1>3. Outcome \in Statuses /\ (Outcome = "succeeded" => ~work.err)
    BY OutcomeType DEF Outcome, Statuses, Unfinished, Terminal
<1>4. Outcome = "succeeded" => /\ journal # NoJournal /\ journal.op = op
                               /\ Reached(journal, before, world)
                               /\ Won(journal.kind, journal.target, world)
    BY <1>1, <1>3, WorkerEnds
<1>5. /\ work' # NoWork /\ work'.who = "worker" /\ work'.call = work.call
      /\ work'.phase \in {"settle", "finish"}
      /\ work'.phase = "settle" => Outcome = "succeeded"
    <2> DEFINE result == IF ok THEN Outcome ELSE "failed"
               phase == IF ok /\ Outcome = "succeeded" THEN "settle" ELSE "finish"
    <2>1. work' = [work EXCEPT !.result = result, !.phase = phase]
        BY DEF RecordResult
    <2>2. result \in Statuses /\ phase \in {"settle", "finish"}
          /\ (phase = "settle" => Outcome = "succeeded")
        BY <1>3 DEF Statuses, Terminal
    <2> HIDE DEF result, phase
    <2>3. work' \in Mutation  BY <1>2, <2>1, <2>2 DEF Mutation
    <2> QED  BY <1>1, <1>2, <2>1, <2>2, <2>3, NoWorkIsNoWork DEF Mutation
<1>6. Outcome # "succeeded" => NoSuccess
    BY <1>1, <1>2, <1>3, TransitionSucceeds
<1>7. Linked'  BY <1>1, <1>2, <1>5 DEF Course, Linked
<1>8. UnderJournal'
    <2>1. journal # NoJournal => journal.op \in Ops \cup {NoOp}
        BY DEF TypeInv, TypeOK, Journal
    <2>2. journal # NoJournal /\ Outcome # "succeeded" /\ SucceededOn' => SucceededOn
        BY <1>1, <1>6, <2>1 DEF SucceededOn, NoSuccess
    <2> QED  BY <1>1, <1>2, <1>4, <1>5, <2>2 DEF Course, UnderJournal
<1>9. Calm'  BY <1>1, <1>2, <1>5 DEF Course, Calm
<1>10. InPlace'  BY <1>5 DEF InPlace
<1>11. Settling'  BY <1>1, <1>4, <1>5 DEF Settling
<1>12. Awaiting'
    <2>1. ASSUME NEW o \in Ops PROVE deferred[o] # "succeeded"
        BY <1>1, <1>2, AwaitedInRun DEF Redoing
    <2>2. ASSUME NEW o \in Ops, o # op PROVE deferred'[o] # "succeeded"
        <3>1. CASE op = NoOp  BY <1>1, <2>1, <3>1, NoTransition
        <3>2. CASE op \in Ops
            BY <1>1, <1>3, <2>1, <2>2, <3>2, TransitionEffect
        <3> QED  BY <1>2, <3>1, <3>2
    <2>3. ASSUME op \in Ops, deferred'[op] = "succeeded"
          PROVE  Journalled(op)' /\ Reached(journal, before, world)'
        <3>1. Outcome = "succeeded"
            BY <1>6, <2>1, <2>3 DEF NoSuccess
        <3> QED  BY <1>1, <1>4, <3>1 DEF Journalled
    <2> QED  BY <2>2, <2>3 DEF Awaiting
<1> QED  BY <1>7, <1>8, <1>9, <1>10, <1>11, <1>12 DEF Course

\* What a crash leaves of the server is what a step it cuts short may leave.
LEMMA CrashLeft ==
    ASSUME TypeInv, BooksInv, Course, Crash
    PROVE  /\ journal = NoJournal => world' = world
           /\ journal # NoJournal =>
                /\ Standing(journal.kind, journal.target, before, world')
                /\ SucceededOn => Won(journal.kind, journal.target, world')
<1>1. world' \in CrashLeaves  BY DEF Crash
<1>2. \/ world' = world
      \/ /\ Running /\ work.prog # QuietPatchProgram
         /\ Step \notin {"journal", "clear", "succeed", "cancel"}
         /\ Accepts(Step, work.call.target, world)
         /\ world' \in Leaves(Step, work.call.target, world)
    <2>1. \/ world' = world
          \/ /\ Running /\ Step \notin OwnSteps
             /\ Accepts(Step, work.call.target, world)
             /\ world' \in Leaves(Step, work.call.target, world)
        BY <1>1 DEF CrashLeaves
    <2>2. ASSUME Running, work.prog = QuietPatchProgram,
                 world' \in Leaves(Step, work.call.target, world)
          PROVE  world' = world
        <3>1. Step \in {"notCancelled", "writeEnv", "sync"}
            <4>1. work.at \in 1..4 /\ work.at \in 1..Len(work.prog)
                BY <2>2, StepType DEF QuietPatchProgram
            <4> QED  BY <2>2, <4>1 DEF QuietPatchProgram, Step
        <3> QED  BY <2>2, <3>1 DEF Leaves
    <2> QED  BY <2>1, <2>2 DEF OwnSteps
<1>3. CASE world' = world  BY <1>3 DEF Course, UnderJournal
<1>4. CASE world' # world
    <2>1. PICK kind, t : kind = work.call.kind /\ t = work.call.target
        OBVIOUS
    <2>2. world' \in Outcomes(Step, work.call.target, world)
        BY <1>2, <1>4 DEF Outcomes
    <2>3. PICK w \in Outcomes(Step, work.call.target, world) : w = world'
        BY <2>2
    <2>4. /\ journal = NoJournal => world' = world
          /\ journal # NoJournal => /\ Standing(kind, t, before, world')
                                    /\ SucceededOn => Won(kind, t, world')
        BY <1>2, <1>4, <2>1, <2>3, OutcomeCourse
    <2>5. journal # NoJournal => journal.kind = kind /\ journal.target = t
        BY <1>2, <1>4, <2>1, InTheMiddle
    <2> QED  BY <2>4, <2>5
<1> QED  BY <1>3, <1>4

LEMMA CrashCourse ==
    ASSUME TypeInv, BooksInv, Clean, Course, Crash
    PROVE  Course'
<1>1. /\ work' = NoWork /\ prep' = NoWork /\ UNCHANGED <<journal, before>>
      /\ world' \in CrashLeaves
    BY DEF Crash
<1>2. \A o \in Ops : /\ deferred'[o] # "succeeded"
                     /\ record'[o] = "succeeded" => record[o] = "succeeded"
    BY DEF Crash, Recovered
<1>3. /\ journal = NoJournal => world' = world
      /\ journal # NoJournal =>
           /\ Standing(journal.kind, journal.target, before, world')
           /\ SucceededOn => Won(journal.kind, journal.target, world')
    BY CrashLeft
<1>4. Linked' /\ InPlace' /\ Settling'  BY <1>1 DEF Linked, InPlace, Settling
<1>5. Calm'  BY <1>1, <1>3 DEF Course, Calm
<1>6. UnderJournal'
    <2>1. journal # NoJournal => journal.op \in Ops \cup {NoOp}
        BY DEF TypeInv, TypeOK, Journal
    <2>2. journal # NoJournal /\ SucceededOn' => SucceededOn
        BY <1>1, <1>2, <2>1 DEF SucceededOn
    <2> QED  BY <1>1, <1>3, <2>2 DEF Course, UnderJournal
<1>7. Awaiting'  BY <1>2 DEF Awaiting
<1> QED  BY <1>4, <1>5, <1>6, <1>7 DEF Course

LEMMA InitCourse == Init => Course
<1> SUFFICES ASSUME Init PROVE Course
    OBVIOUS
<1>1. PICK e \in StartEnvs : world = IF e = None THEN EmptyWorld ELSE RunningWorld(e)
    BY DEF Init
<1>2. Consistent(world)
    <2>1. CASE e = None  BY <1>1, <2>1 DEF Consistent, EmptyWorld
    <2>2. CASE e # None
        <3>1. e \in Envs  BY <2>2, LifecycleAssumption
        <3>2. Entered(e) # None  BY <3>1, EnteredType
        <3> QED  BY <1>1, <2>2, <3>2 DEF Consistent, RunningWorld, Entered
    <2> QED  BY <2>1, <2>2
<1> QED  BY <1>2 DEF Init, Course, Linked, UnderJournal, Calm, InPlace, Settling, Awaiting

LEMMA CourseStep == TypeInv /\ BooksInv /\ Clean /\ Course /\ [Next]_vars => Course'
<1> SUFFICES ASSUME TypeInv, BooksInv, Clean, Course, [Next]_vars PROVE Course'
    OBVIOUS
<1>1. ASSUME NEW c \in Calls, Prepare(c) \/ Begin(c) PROVE Course'
    BY <1>1, PreparingCourse, BeginCourse
<1>2. ASSUME Preparing PROVE Course'
    BY <1>2, PreparingCourse, PromoteCourse DEF Preparing
<1>3. ASSUME Working PROVE Course'
    BY <1>3, StartCourse, EndingCourse, WorldStepCourse, JournalGoes, WriteJournalCourse,
       RecordRepairCourse, RecordResultCourse, SettleJournalCourse
    DEF Working
<1>4. ASSUME NEW op \in Ops, CancelJob(op) \/ \E ok \in BOOLEAN : Retry(op, ok)
      PROVE  Course'
    <2>1. ASSUME CancelJob(op) PROVE Course'
        BY <2>1, MarkedCourse DEF CancelJob, books, history
    <2> QED  BY <1>4, <2>1, RetryCourse
<1>5. CASE Interrupt
    BY <1>5, MarkedCourse DEF Interrupt, books, history
<1>6. CASE UNCHANGED vars
    BY <1>6, MarkedCourse DEF vars, books, history
<1> QED
    BY <1>1, <1>2, <1>3, <1>4, <1>5, <1>6, BeginRepairCourse, CrashCourse DEF Next

-----------------------------------------------------------------------------
(***************************************************************************)
(* What the course says of the properties.                                 *)
(***************************************************************************)
LEMMA CourseHolds == Spec => [](TypeInv /\ BooksInv /\ Clean /\ Course)
BY BooksHold, InitClean, CleanStep, InitCourse, CourseStep, PTL DEF Spec

\* When nothing runs and no journal is left, the server is there or it is not: env file,
\* registry entry, the same entry loaded, and containers and volumes (of which image is
\* not said), or none of them; and only a reset whose journal is on file has its server
\* marked for repair: whatever failed, was cancelled or crashed before.
THEOREM NothingIsHalfDone == Spec => []NothingHalfDone
<1>1. TypeInv /\ Course => NothingHalfDone
    <2> SUFFICES ASSUME TypeInv, Course PROVE NothingHalfDone
        OBVIOUS
    <2>1. journal = NoJournal => Consistent(world)
        BY DEF Course, Calm
    <2>2. ASSUME world.entry # None, world.entry.repair
          PROVE  journal # NoJournal /\ journal.kind = "reset"
        <3>1. journal # NoJournal  BY <2>1, <2>2 DEF Consistent
        <3>2. journal.kind \in Kinds  BY <3>1 DEF TypeInv, TypeOK, Journal
        <3>3. Standing(journal.kind, journal.target, before, world)
            BY <3>1 DEF Course, UnderJournal
        <3>4. journal.kind # "create"
            BY <2>2, <3>3 DEF Standing, StandingCreate, Entered
        <3>5. journal.kind # "close"
            BY <2>2, <3>3 DEF Standing, StandingClose
        <3>6. journal.kind # "deploy"
            BY <2>2, <3>3 DEF Standing, StandingDeploy, Consistent
        <3>7. journal.kind # "patch"
            BY <2>2, <3>3 DEF Standing, StandingPatch
        <3> QED  BY <3>1, <3>2, <3>4, <3>5, <3>6, <3>7 DEF Kinds
    <2> QED  BY <2>1, <2>2 DEF NothingHalfDone
<1> QED  BY <1>1, CourseHolds, PTL

\* Only a repair, a worker's result and a retry put a success on record.
LEMMA RecordsNoSuccess ==
    ASSUME TypeInv, [Next]_vars,
           ~\E ok \in BOOLEAN : RecordRepair(ok) \/ RecordResult(ok),
           ~\E o \in Ops, ok \in BOOLEAN : Retry(o, ok),
           NEW op \in Ops, record[op] # "succeeded"
    PROVE  record'[op] # "succeeded"
<1>1. ASSUME NEW c \in Calls, Prepare(c) \/ Begin(c) PROVE record'[op] # "succeeded"
    BY <1>1 DEF Prepare, Begin, books
<1>2. ASSUME Preparing PROVE record'[op] # "succeeded"
    <2>1. CASE Promote  BY <2>1 DEF Promote, books
    <2>2. CASE ~Promote
        <3>1. NoSuccess  BY <1>2, <2>2, PreparingSucceeds DEF Preparing
        <3> QED  BY <3>1 DEF NoSuccess
    <2> QED  BY <2>1, <2>2
<1>3. ASSUME NEW ok \in BOOLEAN, Start(ok) \/ RejectStarted(ok) \/ RepairFails(ok)
      PROVE  record'[op] # "succeeded"
    <2>1. work.call.op \in Ops \cup {NoOp}
        BY <1>3, WorkType DEF Start, RejectStarted, RepairFails, Ended
    <2>2. \/ UNCHANGED record
          \/ \E s \in {"running", "failed", "recovery_required"} :
               Transition(work.call.op, s, ok)
        BY <1>3 DEF Start, RejectStarted, RepairFails, books
    <2>3. ASSUME NEW s \in {"running", "failed", "recovery_required"},
                 Transition(work.call.op, s, ok)
          PROVE  NoSuccess
        BY <2>1, <2>3, TransitionSucceeds DEF Statuses, Unfinished, Terminal
    <2> QED  BY <2>2, <2>3 DEF NoSuccess
<1>4. ASSUME NEW ok \in BOOLEAN, \/ WriteJournal(ok) \/ AdvanceJournal(ok)
                                 \/ ClearStep(ok) \/ SettleJournal(ok)
      PROVE  record'[op] # "succeeded"
    BY <1>4 DEF WriteJournal, AdvanceJournal, ClearStep, SettleJournal, books
<1>5. ASSUME StepDone \/ StepRefused \/ StepFails \/ CreateEnvFails \/ FinishJob \/ Return
      PROVE  record'[op] # "succeeded"
    BY <1>5 DEF StepDone, StepRefused, StepFails, CreateEnvFails, FinishJob, Return, books
<1>6. ASSUME Working PROVE record'[op] # "succeeded"
    BY <1>3, <1>4, <1>5, <1>6 DEF Working
<1>7. ASSUME NEW o \in Ops, CancelJob(o) PROVE record'[op] # "succeeded"
    BY <1>7 DEF CancelJob, books
<1>8. ASSUME BeginRepair \/ Interrupt \/ UNCHANGED vars PROVE record'[op] # "succeeded"
    BY <1>8 DEF BeginRepair, Interrupt, vars, books
<1>9. ASSUME Crash PROVE record'[op] # "succeeded"
    BY <1>9 DEF Crash, Recovered
<1> QED  BY <1>1, <1>2, <1>6, <1>7, <1>8, <1>9 DEF Next

LEMMA SuccessStep ==
    ASSUME TypeInv, BooksInv, Clean, Course, [Next]_vars,
           NEW op \in Ops, record[op] # "succeeded", record'[op] = "succeeded"
    PROVE  \/ /\ journal # NoJournal /\ journal.op = op
              /\ Reached(journal, before, world)
           \/ Redoing(op) /\ deferred[op] = "succeeded"
<1>1. ASSUME NEW ok \in BOOLEAN, NEW status \in Statuses, work # NoWork,
             Transition(work.call.op, status, ok)
      PROVE  status = "succeeded" /\ work.call.op = op
    <2>1. work.call.op \in Ops \cup {NoOp}  BY <1>1, WorkType
    <2>2. status = "succeeded"
        BY <1>1, <2>1, TransitionSucceeds DEF NoSuccess
    <2>3. CASE work.call.op = NoOp  BY <1>1, <2>3, NoTransition
    <2>4. CASE work.call.op \in Ops  BY <1>1, <2>2, <2>4, TransitionEffect
    <2> QED  BY <2>1, <2>3, <2>4
<1>2. ASSUME NEW ok \in BOOLEAN, RecordRepair(ok)
      PROVE  /\ journal # NoJournal /\ journal.op = op
             /\ Reached(journal, before, world)
    <2>1. /\ Running /\ Records(Step)
          /\ Transition(work.call.op,
                        IF Step = "succeed" THEN "succeeded" ELSE "cancelled", ok)
        BY <1>2 DEF RecordRepair, Records
    <2>2. work.call.op = op /\ Step = "succeed"
        BY <1>1, <2>1 DEF Running, Statuses, Terminal
    <2> QED  BY <2>1, <2>2, AtRecord
<1>3. ASSUME NEW ok \in BOOLEAN, RecordResult(ok)
      PROVE  /\ journal # NoJournal /\ journal.op = op
             /\ Reached(journal, before, world)
    <2>1. Ended /\ work.who = "worker" /\ Transition(work.call.op, Outcome, ok)
        BY <1>3 DEF RecordResult
    <2>2. Outcome \in Statuses /\ (Outcome = "succeeded" => ~work.err)
        BY OutcomeType DEF Outcome, Statuses, Unfinished, Terminal
    <2>3. work.call.op = op /\ Outcome = "succeeded"
        BY <1>1, <2>1, <2>2 DEF Ended
    <2> QED  BY <2>1, <2>2, <2>3, WorkerEnds
<1>4. ASSUME NEW o \in Ops, NEW ok \in BOOLEAN, Retry(o, ok)
      PROVE  \/ /\ journal # NoJournal /\ journal.op = op
                /\ Reached(journal, before, world)
             \/ Redoing(op) /\ deferred[op] = "succeeded"
    <2>1. deferred[op] = "succeeded"
        BY <1>4 DEF Retry, books, TypeInv, TypeOK
    <2> QED  BY <2>1 DEF Course, Awaiting, Journalled
<1> QED  BY <1>2, <1>3, <1>4, RecordsNoSuccess

\* A success is recorded only while the server is as the operation's journal wants
\* it, by the worker, by the repair or by the retry that flushes it; or by such a retry
\* while a repair, which began before, is already redoing the operation.
THEOREM SuccessIsReached == Spec => SuccessMeansReached
<1>1. TypeInv /\ BooksInv /\ Clean /\ Course /\ [Next]_vars =>
          [\A op \in Ops : record[op] # "succeeded" /\ record'[op] = "succeeded" =>
             \/ /\ journal # NoJournal /\ journal.op = op
                /\ Reached(journal, before, world)
             \/ Redoing(op) /\ deferred[op] = "succeeded"]_vars
    BY SuccessStep
<1> QED  BY <1>1, CourseHolds, PTL DEF Spec, SuccessMeansReached

\* Until its journal is written, or the server validated before, the request that
\* is to write it finds the server there; a create looks again for itself.
Admitted ==
    work # NoWork /\ work.phase = "run" /\ journal = NoJournal
        /\ "journal" \in Left /\ "validate" \notin Left /\ work.call.kind # "create" =>
            world.env # None

LEMMA ResetLooks == "validate" \in Rest(ResetProgram, 1)
<1>1. 2 \in 1..Len(ResetProgram) /\ ResetProgram[2] = "validate"
    BY DEF ResetProgram
<1> QED  BY <1>1 DEF Rest

LEMMA QuietNoJournal == \A n \in Nat \ {0} : "journal" \notin Rest(QuietPatchProgram, n)
<1>1. ASSUME NEW i \in 1..4 PROVE QuietPatchProgram[i] # "journal"
    BY DEF QuietPatchProgram
<1>2. Len(QuietPatchProgram) = 4  BY DEF QuietPatchProgram
<1> QED  BY <1>1, <1>2 DEF Rest

\* A request that moves on to its next step.
LEMMA StepAdmitted ==
    ASSUME TypeInv, BooksInv, Clean, Course, Admitted, Running,
           Step \notin {"journal", "clear", "succeed", "cancel"},
           journal' = NoJournal => journal = NoJournal,
           \/ Fail
           \/ /\ Advance /\ world' = After(Step, work.call.target, world)
              /\ Accepts(Step, work.call.target, world)
    PROVE  Admitted'
<1>1. /\ work' # NoWork /\ work'.call = work.call /\ work'.prog = work.prog
      /\ Advance => Left' = Ahead
      /\ Fail /\ Step # "upAnyway" => Left' = {}
      /\ work' \in Mutation
    BY NextPlace, NextStep
<1>2. CASE work.prog = QuietPatchProgram
    <2>1. work'.at \in Nat \ {0}  BY <1>1 DEF Mutation
    <2>2. "journal" \notin Left'  BY <1>1, <1>2, <2>1, QuietNoJournal DEF Left
    <2> QED  BY <2>2 DEF Admitted
<1>3. CASE work.prog # QuietPatchProgram
    <2> PICK kind, t : kind = work.call.kind /\ t = work.call.target
        OBVIOUS
    <2>1. /\ work # NoWork /\ work.phase = "run"
          /\ Left = {Step} \cup Ahead /\ Follows(kind, Step, Ahead)
        BY <1>3, InTheMiddle
    <2>2. CASE Fail
        <3>1. Step = "upAnyway" => kind = "create"  BY <2>1 DEF Follows
        <3> QED  BY <1>1, <2>2, <3>1 DEF Admitted
    <2>3. CASE Advance /\ ~Fail
        <3>1. SUFFICES ASSUME journal' = NoJournal, "journal" \in Ahead,
                              "validate" \notin Ahead, kind # "create"
                       PROVE  world'.env # None
            BY <1>1, <2>3 DEF Admitted
        <3>2. Step \notin Changing  BY <2>1, <3>1 DEF Follows, FollowsAny
        <3>3. world' = world  BY <2>3, <3>2 DEF After, Changing
        <3>4. CASE Step = "validate"  BY <2>3, <3>3, <3>4 DEF Accepts
        <3>5. CASE Step # "validate"
            BY <2>1, <3>1, <3>3, <3>5 DEF Admitted
        <3> QED  BY <3>4, <3>5
    <2> QED  BY <2>2, <2>3
<1> QED  BY <1>2, <1>3

LEMMA StartAdmitted ==
    ASSUME TypeInv, BooksInv, Clean, Course, NEW ok \in BOOLEAN, Start(ok)
    PROVE  Admitted'
<1>1. /\ work # NoWork /\ work \in Mutation /\ work.phase = "start"
      /\ UNCHANGED <<world, journal>>
      /\ work' = IF ok /\ ~Stale(work.call)
                   THEN [work EXCEPT !.phase = "run",
                           !.prog = Program(work.call.kind, work.call.target)]
                   ELSE [work EXCEPT !.phase = "reject"]
    BY WorkType DEF Start, history
<1>2. work.call.kind \in LinkedKinds
    <2>1. work.who = "worker"  BY <1>1 DEF BooksInv, Owned
    <2> QED  BY <1>1, <2>1 DEF Course, Linked
<1>3. CASE ~(ok /\ ~Stale(work.call))
    <2>1. work'.phase = "reject"  BY <1>1, <1>3 DEF Mutation
    <2> QED  BY <2>1 DEF Admitted
<1>4. CASE ok /\ ~Stale(work.call)
    <2>1. /\ work'.call = work.call /\ work'.at = work.at
          /\ work'.prog = Program(work.call.kind, work.call.target)
        BY <1>1, <1>4 DEF Mutation
    <2>2. CASE work.call.kind = "create"  BY <2>1, <2>2 DEF Admitted
    <2>3. CASE work.call.kind = "close"
        <3>1. world.env # None  BY <1>4, <2>3 DEF Stale, Acceptable
        <3> QED  BY <1>1, <3>1 DEF Admitted
    <2>4. CASE work.call.kind = "reset"
        <3>1. work'.prog = ResetProgram  BY <2>1, <2>4 DEF Program
        <3>2. work.at = 1  BY <1>1 DEF Clean, BeforeJournal
        <3>3. "validate" \in Left'  BY <2>1, <3>1, <3>2, ResetLooks DEF Left
        <3> QED  BY <3>3 DEF Admitted
    <2> QED  BY <1>2, <2>2, <2>3, <2>4 DEF LinkedKinds
<1> QED  BY <1>3, <1>4

LEMMA WorkingAdmitted ==
    ASSUME TypeInv, BooksInv, Clean, Course, Admitted, Working
    PROVE  Admitted'
<1>1. ASSUME NEW ok \in BOOLEAN, RejectStarted(ok) \/ RepairFails(ok) \/ FinishJob \/ Return
      PROVE  Admitted'
    BY <1>1 DEF RejectStarted, RepairFails, FinishJob, Return, Admitted
<1>2. ASSUME NEW ok \in BOOLEAN, RecordResult(ok) \/ SettleJournal(ok) PROVE Admitted'
    <2>1. work # NoWork  BY <1>2 DEF RecordResult, Ended, SettleJournal
    <2>2. work \in Mutation  BY <2>1, WorkType
    <2>3. work'.phase # "run"
        BY <1>2, <2>2 DEF RecordResult, SettleJournal, Mutation
    <2> QED  BY <2>3 DEF Admitted
<1>3. ASSUME NEW ok \in BOOLEAN, WriteJournal(ok) PROVE Admitted'
    <2>1. Running /\ Step = "journal" /\ (ok \/ Fail)  BY <1>3 DEF WriteJournal
    <2>2. CASE ok
        <3>1. journal' = [op |-> work.call.op, kind |-> work.call.kind,
                          target |-> work.call.target, stage |-> "prepared"]
            BY <1>3, <2>2 DEF WriteJournal
        <3>2. journal' \in Journal
            BY <2>1, <3>1, WorkType DEF Running, Journal
        <3> QED  BY <3>2, LifecycleAssumption DEF Admitted
    <2>3. CASE Fail
        <3>1. Left' = {}  BY <2>1, <2>3, NextPlace
        <3> QED  BY <3>1 DEF Admitted
    <2> QED  BY <2>1, <2>2, <2>3
<1>4. ASSUME NEW ok \in BOOLEAN, ClearStep(ok) \/ CreateEnvFails PROVE Admitted'
    <2>1. /\ Running /\ Step \in {"clear", "createEnv"}
          /\ Fail \/ (Advance /\ Step = "clear")
        BY <1>4 DEF ClearStep, CreateEnvFails
    <2>2. Step = "clear" => Ahead = {}  BY <2>1, ClearFinds
    <2>3. Left' = {}  BY <2>1, <2>2, NextPlace
    <2> QED  BY <2>3 DEF Admitted
<1>5. ASSUME NEW ok \in BOOLEAN, RecordRepair(ok) PROVE Admitted'
    <2>1. Running /\ Records(Step) /\ journal' = journal
        BY <1>5 DEF RecordRepair, Records, history
    <2> QED  BY <2>1, AtRecord DEF Admitted
<1>6. ASSUME NEW ok \in BOOLEAN, AdvanceJournal(ok) PROVE Admitted'
    <2>1. journal' # NoJournal  BY <1>6, JournalAdvanced
    <2> QED  BY <2>1 DEF Admitted
<1>7. ASSUME StepDone \/ StepRefused \/ StepFails PROVE Admitted'
    <2>1. /\ Running /\ Step \notin {"journal", "clear", "succeed", "cancel"}
          /\ journal' = journal
          /\ \/ Fail
             \/ /\ Advance /\ world' = After(Step, work.call.target, world)
                /\ Accepts(Step, work.call.target, world)
        BY <1>7 DEF StepDone, StepRefused, StepFails, OwnSteps
    <2> QED  BY <2>1, StepAdmitted
<1> QED  BY <1>1, <1>2, <1>3, <1>4, <1>5, <1>6, <1>7, StartAdmitted DEF Working

LEMMA MarkedAdmitted ==
    ASSUME TypeInv, Admitted, work' \in {work, Cancelled(work)}, UNCHANGED <<world, journal>>
    PROVE  Admitted'
<1>1. /\ (work' = NoWork) = (work = NoWork)
      /\ work # NoWork =>
           /\ work'.call = work.call /\ work'.phase = work.phase
           /\ work'.prog = work.prog /\ work'.at = work.at
    BY WorkType, CancelledFields
<1>2. work # NoWork => Left' = Left  BY <1>1 DEF Left
<1> QED  BY <1>1, <1>2 DEF Admitted

LEMMA AdmittedStep ==
    TypeInv /\ BooksInv /\ Clean /\ Course /\ Admitted /\ [Next]_vars => Admitted'
<1> SUFFICES ASSUME TypeInv, BooksInv, Clean, Course, Admitted, [Next]_vars PROVE Admitted'
    OBVIOUS
<1>1. ASSUME NEW c \in Calls, Prepare(c) PROVE Admitted'
    BY <1>1, MarkedAdmitted DEF Prepare
<1>2. ASSUME NEW c \in Calls, Begin(c) PROVE Admitted'
    BY <1>2 DEF Begin, Admitted
<1>3. ASSUME Preparing PROVE Admitted'
    <2>1. ASSUME Promote PROVE Admitted'
        BY <2>1 DEF Promote, Admitted
    <2> QED  BY <1>3, <2>1, MarkedAdmitted
             DEF Preparing, ReserveRecord, Reject, PromoteRefused, ReserveJob, history
<1>4. ASSUME BeginRepair PROVE Admitted'
    BY <1>4 DEF BeginRepair, history, Admitted
<1>5. ASSUME NEW op \in Ops, CancelJob(op) \/ \E ok \in BOOLEAN : Retry(op, ok)
      PROVE  Admitted'
    BY <1>5, MarkedAdmitted DEF CancelJob, Retry, history
<1>6. ASSUME Interrupt \/ UNCHANGED vars PROVE Admitted'
    BY <1>6, MarkedAdmitted DEF Interrupt, vars, history
<1>7. ASSUME Crash PROVE Admitted'
    BY <1>7 DEF Crash, Admitted
<1> QED  BY <1>1, <1>2, <1>3, <1>4, <1>5, <1>6, <1>7, WorkingAdmitted DEF Next

LEMMA AdmittedHolds == Spec => []Admitted
<1>1. Init => Admitted  BY DEF Init, Admitted
<1> QED  BY <1>1, AdmittedStep, CourseHolds, PTL DEF Spec

\* A journal is written for a server that its request is meant for.
LEMMA WrittenApplies ==
    ASSUME TypeInv, BooksInv, Course, Admitted, Running, Step = "journal",
           journal = NoJournal
    PROVE  Applies(work.call, world)
<1> PICK kind, t : kind = work.call.kind /\ t = work.call.target
    OBVIOUS
<1>1. work.prog # QuietPatchProgram
    <2>1. work.at \in 1..Len(work.prog)  BY StepType
    <2> QED  BY <2>1 DEF QuietPatchProgram, Step
<1>2. /\ work # NoWork /\ work.phase = "run" /\ kind \in Kinds
      /\ Left = {Step} \cup Ahead /\ Follows(kind, Step, Ahead)
      /\ "createEnv" \in Left /\ "absent" \notin Left => world.env = None
    BY <1>1, InTheMiddle
<1>3. {"absent", "validate"} \cap Left = {}
    BY <1>2 DEF Follows, FollowsAny
<1>4. CASE kind = "create"
    <2>1. "createEnv" \in Left  BY <1>2, <1>4 DEF Follows, Duties
    <2> QED  BY <1>2, <1>3, <1>4, <2>1 DEF Applies
<1>5. CASE kind # "create"
    <2>1. world.env # None  BY <1>2, <1>3, <1>5 DEF Admitted
    <2> QED  BY <1>5, <2>1 DEF Applies
<1> QED  BY <1>4, <1>5

\* What a step does to the journal and to the server under it.
Announces == /\ journal = NoJournal /\ journal' # NoJournal
             /\ world' = world /\ before' = world
             /\ Applies(IntentOf(journal'), world)
Works == /\ journal # NoJournal /\ journal' # NoJournal
         /\ IntentOf(journal') = IntentOf(journal) /\ before' = before
Withdraws == /\ journal # NoJournal /\ journal' = NoJournal /\ world' = world
             /\ world = before \/ Reached(journal, before, world)
Rests == /\ journal = NoJournal /\ journal' = NoJournal
         /\ world' = world \/ Whole(world, world')

LEMMA JournalKept ==
    ASSUME journal' = journal, before' = before,
           journal = NoJournal => world' = world \/ Whole(world, world')
    PROVE  Works \/ Rests
BY DEF Works, Rests

LEMMA ServerChanges ==
    ASSUME TypeInv, BooksInv, Clean, Course, StepDone \/ StepRefused \/ StepFails
    PROVE  Works \/ Rests
<1>1. /\ Running /\ UNCHANGED <<record, deferred, before, prep, journal>>
      /\ Step \notin {"journal", "clear", "succeed", "cancel"}
    BY DEF StepDone, StepRefused, StepFails, OwnSteps, books
<1>2. \/ /\ StepDone /\ Advance /\ world' = After(Step, work.call.target, world)
         /\ Accepts(Step, work.call.target, world)
      \/ Fail /\ world' \in {world, Marked(world)}
      \/ /\ Fail /\ Accepts(Step, work.call.target, world)
         /\ \E w \in Leaves(Step, work.call.target, world) : world' \in {w, Marked(w)}
    BY DEF StepDone, StepRefused, StepFails
<1>3. /\ world \in Leaves(Step, work.call.target, world)
      /\ Leaves(Step, work.call.target, world) \subseteq
             Outcomes(Step, work.call.target, world)
      /\ After(Step, work.call.target, world) \in Outcomes(Step, work.call.target, world)
    BY DEF Leaves, Outcomes
<1>4. CASE work.prog = QuietPatchProgram
    <2>1. PICK w \in Leaves(Step, work.call.target, world) :
              \/ Fail /\ world' \in {w, Marked(w)}
              \/ /\ Advance /\ world' = After(Step, work.call.target, world)
                 /\ Accepts(Step, work.call.target, world)
        BY <1>2, <1>3
    <2>2. Whole(world, world') \/ world' = world
        BY <1>1, <1>4, <2>1, QuietStep
    <2> QED  BY <1>1, <2>2, JournalKept
<1>5. CASE work.prog # QuietPatchProgram
    <2>1. PICK w \in Outcomes(Step, work.call.target, world) :
              /\ w # world => Accepts(Step, work.call.target, world)
              /\ world' \in {w, Marked(w)}
        BY <1>2, <1>3
    <2>2. PICK v \in {w, Marked(w)} : v = world'  BY <2>1
    <2>3. PICK kind, t : kind = work.call.kind /\ t = work.call.target
        OBVIOUS
    <2>4. journal = NoJournal => world' = world
        BY <1>1, <1>5, <2>1, <2>2, <2>3, OutcomeCourse
    <2> QED  BY <1>1, <2>4, JournalKept
<1> QED  BY <1>4, <1>5

LEMMA JournalChanges ==
    ASSUME TypeInv, BooksInv, Clean, Course, Admitted, NEW ok \in BOOLEAN,
           \/ WriteJournal(ok) \/ AdvanceJournal(ok) \/ ClearStep(ok) \/ SettleJournal(ok)
           \/ CreateEnvFails
    PROVE  Announces \/ Works \/ Withdraws \/ Rests
<1>1. CASE WriteJournal(ok)
    <2>1. Applies(work.call, world)  BY <1>1, WrittenApplies DEF WriteJournal
    <2>2. journal' # NoJournal => IntentOf(journal') = work.call
        BY <1>1, JournalWritten
    <2> QED  BY <1>1, <2>1, <2>2 DEF WriteJournal, Announces, Rests
<1>2. CASE AdvanceJournal(ok)
    <2> DEFINE new == [journal EXCEPT !.stage = StageOf(Step)]
    <2>1. /\ journal # NoJournal /\ journal \in Journal /\ before' = before
          /\ Step \in {"stageEnv", "stageRegistry", "stageDown"}
          /\ journal' \in {journal, new}
        BY <1>2 DEF AdvanceJournal, TypeInv, TypeOK
    <2>2. /\ new \in Journal /\ new.op = journal.op /\ new.kind = journal.kind
          /\ new.target = journal.target
        BY <2>1 DEF Journal, StageOf
    <2> HIDE DEF new
    <2>3. journal' # NoJournal /\ IntentOf(journal') = IntentOf(journal)
        BY <2>1, <2>2, LifecycleAssumption DEF IntentOf
    <2> QED  BY <2>1, <2>3 DEF Works
<1>3. CASE ClearStep(ok) \/ CreateEnvFails
    <2>1. /\ Running /\ Step \in {"clear", "createEnv"} /\ world' = world
          /\ journal' = NoJournal \/ (journal' = journal /\ before' = before)
        BY <1>3 DEF ClearStep, CreateEnvFails, Clear
    <2>2. journal # NoJournal => world = before \/ Reached(journal, before, world)
        BY <2>1, ClearFinds
    <2> QED  BY <2>1, <2>2 DEF Works, Withdraws, Rests
<1>4. CASE SettleJournal(ok)
    <2>1. /\ work # NoWork /\ work.phase = "settle" /\ world' = world
          /\ journal' = NoJournal \/ (journal' = journal /\ before' = before)
        BY <1>4 DEF SettleJournal, Clear
    <2>2. journal # NoJournal /\ Reached(journal, before, world)
        BY <2>1 DEF Course, Settling
    <2> QED  BY <2>1, <2>2 DEF Works, Withdraws
<1> QED  BY <1>1, <1>2, <1>3, <1>4

LEMMA AnyChange ==
    ASSUME TypeInv, BooksInv, Clean, Course, Admitted, [Next]_vars
    PROVE  Announces \/ Works \/ Withdraws \/ Rests
<1>1. ASSUME UNCHANGED <<world, journal, before>> PROVE Works \/ Rests
    BY <1>1, JournalKept
<1>2. ASSUME NEW c \in Calls, Prepare(c) \/ Begin(c) PROVE Works \/ Rests
    BY <1>1, <1>2 DEF Prepare, Begin, history
<1>3. ASSUME Preparing PROVE Works \/ Rests
    BY <1>1, <1>3 DEF Preparing, ReserveRecord, Reject, PromoteRefused, ReserveJob,
                      Promote, history
<1>4. ASSUME NEW ok \in BOOLEAN, \/ Start(ok) \/ RejectStarted(ok) \/ RecordRepair(ok)
                                 \/ RecordResult(ok) \/ RepairFails(ok)
      PROVE  Works \/ Rests
    BY <1>1, <1>4 DEF Start, RejectStarted, RecordRepair, RecordResult, RepairFails, history
<1>5. ASSUME FinishJob \/ Return PROVE Works \/ Rests
    BY <1>1, <1>5 DEF FinishJob, Return, history
<1>6. ASSUME Working PROVE Announces \/ Works \/ Withdraws \/ Rests
    BY <1>4, <1>5, <1>6, ServerChanges, JournalChanges DEF Working
<1>7. ASSUME NEW op \in Ops, CancelJob(op) \/ \E ok \in BOOLEAN : Retry(op, ok)
      PROVE  Works \/ Rests
    BY <1>1, <1>7 DEF CancelJob, Retry, history
<1>8. ASSUME BeginRepair \/ Interrupt \/ UNCHANGED vars PROVE Works \/ Rests
    BY <1>1, <1>8 DEF BeginRepair, Interrupt, vars, history
<1>9. ASSUME Crash PROVE Works \/ Rests
    <2>1. journal = NoJournal => world' = world  BY <1>9, CrashLeft
    <2> QED  BY <1>9, <2>1, JournalKept DEF Crash
<1> QED  BY <1>2, <1>3, <1>6, <1>7, <1>8, <1>9 DEF Next

LEMMA ChangeStep ==
    ASSUME TypeInv, Announces \/ Works \/ Withdraws \/ Rests, TypeInv'
    PROVE  [Change!ChangeNext]_(Change!changeVars)
<1>1. /\ journal # NoJournal => IntentOf(journal) # NoJournal
      /\ journal' # NoJournal => IntentOf(journal') # NoJournal
      /\ journal = NoJournal => IntentOf(journal) = NoJournal
      /\ journal' = NoJournal => IntentOf(journal') = NoJournal
    <2>1. \A c \in Calls : c # NoJournal  BY LifecycleAssumption
    <2>2. journal # NoJournal => IntentOf(journal) \in Calls
        BY DEF TypeInv, Requested
    <2>3. journal' # NoJournal => IntentOf(journal') \in Calls
        BY DEF TypeInv, Requested, IntentOf
    <2> QED  BY <2>1, <2>2, <2>3 DEF IntentOf
<1>2. CASE Announces
    BY <1>1, <1>2 DEF Announces, Change!ChangeNext, Change!Announce
<1>3. CASE Works
    BY <1>1, <1>3 DEF Works, Change!ChangeNext, Change!Work, IntentOf
<1>4. CASE Withdraws
    <2>1. Reached(journal, before, world) = Reached(IntentOf(journal), before, world)
        BY <1>4 DEF Withdraws, IntentOf, Reached
    <2> QED  BY <1>1, <1>4, <2>1 DEF Withdraws, Change!ChangeNext, Change!Withdraw
<1>5. CASE Rests
    BY <1>1, <1>5 DEF Rests, Change!ChangeNext, Change!Touch, Change!changeVars
<1> QED  BY <1>2, <1>3, <1>4, <1>5

\* The deployer makes journalled changes (JournalledChange): a journal is written only
\* for a server its request is meant for, a server is changed only under a journal that
\* names the change, or in one whole step, and a journal is removed only when the server
\* is as it was before or as the journal wants it.
THEOREM ChangesAreJournalled == Spec => ChangeSpec
<1>1. Init => Change!ChangeInit
    BY DEF Init, Change!ChangeInit, IntentOf
<1>2. TypeInv /\ BooksInv /\ Clean /\ Course /\ Admitted /\ [Next]_vars /\ TypeInv' =>
          [Change!ChangeNext]_(Change!changeVars)
    BY AnyChange, ChangeStep
<1> QED  BY <1>1, <1>2, CourseHolds, AdmittedHolds, PTL
         DEF Spec, ChangeSpec, Change!ChangeSpec
-----------------------------------------------------------------------------
(***************************************************************************)
(* The record is reduced here to its status.  What is left of it still     *)
(* keeps what the operation store promises.                                *)
(***************************************************************************)

\* The ledger entry of a status: of one request, that of the operation, and too
\* young to be pruned.
EntryOf(op, status) == [req |-> op, status |-> status, updated |-> 0]
Absent == EntryOf(NoOp, "none")
Ledger == INSTANCE OperationLedger
            WITH OpIds <- Ops, Retention <- 1, NoRecord <- Absent, now <- 0,
                 ledger <- [op \in Ops |-> IF record[op] = "none" THEN Absent
                                           ELSE EntryOf(op, record[op])]

\* A status moves on from nothing to "pending", and from there until it is final.
MovesOn(op) ==
    \/ record'[op] = record[op]
    \/ record[op] = "none" /\ record'[op] = "pending"
    \/ record[op] \in Unfinished /\ record'[op] \in Unfinished \cup Terminal

LEMMA TransitionMovesOn ==
    ASSUME TypeInv, NEW op \in Ops \cup {NoOp}, NEW status \in Unfinished \cup Terminal,
           NEW ok \in BOOLEAN, Transition(op, status, ok), NEW o \in Ops
    PROVE  MovesOn(o)
<1>1. CASE op = NoOp  BY <1>1, NoTransition DEF MovesOn
<1>2. CASE op \in Ops
    <2>1. status \in Statuses  BY DEF Statuses
    <2> QED  BY <1>2, <2>1, TransitionEffect DEF MovesOn
<1> QED  BY <1>1, <1>2

LEMMA PreparingMovesOn ==
    ASSUME TypeInv, BooksInv, NEW ok \in BOOLEAN,
           ReserveRecord(ok) \/ Reject(ok) \/ PromoteRefused(ok), NEW o \in Ops
    PROVE  MovesOn(o)
<1>1. /\ prep # NoWork /\ prep.call.op \in Ops \cup {NoOp} /\ record \in [Ops -> Statuses]
    BY PrepType DEF ReserveRecord, Reject, PromoteRefused, TypeInv, TypeOK
<1>2. CASE ReserveRecord(ok)
    <2>1. prep.call.op \in Ops => record[prep.call.op] = "none"
        BY <1>1, <1>2, LifecycleAssumption DEF ReserveRecord, BooksInv, Prepared
    <2> QED  BY <1>1, <1>2, <2>1 DEF ReserveRecord, MovesOn
<1>3. CASE Reject(ok)
    BY <1>1, <1>3, TransitionMovesOn DEF Reject, Terminal
<1>4. CASE PromoteRefused(ok)
    <2>1. CASE Transition(prep.call.op, "cancelled", ok)
        BY <1>1, <2>1, TransitionMovesOn DEF Terminal
    <2>2. CASE /\ prep.call.op # NoOp
               /\ record' = [record EXCEPT ![prep.call.op] = "failed"]
        <3>1. record[prep.call.op] = "pending"
            BY <1>1, <1>4, <2>2 DEF PromoteRefused, BooksInv, Prepared
        <3> QED  BY <1>1, <2>2, <3>1 DEF MovesOn, Unfinished, Terminal
    <2> QED  BY <1>4, <2>1, <2>2 DEF PromoteRefused
<1> QED  BY <1>2, <1>3, <1>4

LEMMA WorkingMovesOn ==
    ASSUME TypeInv, NEW ok \in BOOLEAN,
           \/ Start(ok) \/ RejectStarted(ok) \/ RecordRepair(ok) \/ RecordResult(ok)
           \/ RepairFails(ok),
           NEW o \in Ops
    PROVE  MovesOn(o)
<1>1. work.call.op \in Ops \cup {NoOp}
    BY WorkType DEF Start, RejectStarted, RecordRepair, RecordResult, RepairFails,
                    Running, Ended
<1>2. \/ UNCHANGED record
      \/ \E s \in {"running", "failed", "succeeded", "cancelled", "recovery_required"} :
           Transition(work.call.op, s, ok)
    BY OutcomeType DEF Start, RejectStarted, RecordRepair, RecordResult, RepairFails, books
<1>3. {"running", "failed", "succeeded", "cancelled", "recovery_required"}
          \subseteq Unfinished \cup Terminal
    BY DEF Unfinished, Terminal
<1> QED  BY <1>1, <1>2, <1>3, TransitionMovesOn DEF MovesOn

LEMMA NextMovesOn ==
    ASSUME TypeInv, BooksInv, [Next]_vars, NEW o \in Ops
    PROVE  MovesOn(o)
<1>1. ASSUME UNCHANGED record PROVE MovesOn(o)
    BY <1>1 DEF MovesOn
<1>2. ASSUME NEW c \in Calls, Prepare(c) \/ Begin(c) PROVE MovesOn(o)
    BY <1>1, <1>2 DEF Prepare, Begin, books
<1>3. ASSUME Preparing PROVE MovesOn(o)
    <2>1. ASSUME ReserveJob \/ Promote PROVE MovesOn(o)
        BY <1>1, <2>1 DEF ReserveJob, Promote, books
    <2> QED  BY <1>3, <2>1, PreparingMovesOn DEF Preparing
<1>4. ASSUME NEW ok \in BOOLEAN, \/ WriteJournal(ok) \/ AdvanceJournal(ok)
                                 \/ ClearStep(ok) \/ SettleJournal(ok)
      PROVE  MovesOn(o)
    BY <1>1, <1>4 DEF WriteJournal, AdvanceJournal, ClearStep, SettleJournal, books
<1>5. ASSUME StepDone \/ StepRefused \/ StepFails \/ CreateEnvFails \/ FinishJob \/ Return
      PROVE  MovesOn(o)
    BY <1>1, <1>5 DEF StepDone, StepRefused, StepFails, CreateEnvFails, FinishJob, Return,
                      books
<1>6. ASSUME Working PROVE MovesOn(o)
    BY <1>4, <1>5, <1>6, WorkingMovesOn DEF Working
<1>7. ASSUME NEW op \in Ops, NEW ok \in BOOLEAN, Retry(op, ok) PROVE MovesOn(o)
    BY <1>1, <1>7, StatusesApart DEF Retry, MovesOn, TypeInv, TypeOK, books
<1>8. ASSUME BeginRepair \/ Interrupt \/ (\E op \in Ops : CancelJob(op)) \/ UNCHANGED vars
      PROVE  MovesOn(o)
    BY <1>1, <1>8 DEF BeginRepair, Interrupt, CancelJob, vars, books
<1>9. ASSUME Crash PROVE MovesOn(o)
    BY <1>9 DEF Crash, Recovered, MovesOn, Unfinished, Terminal
<1> QED  BY <1>2, <1>3, <1>6, <1>7, <1>8, <1>9 DEF Next

LEMMA LedgerMoves ==
    ASSUME TypeInv, \A op \in Ops : MovesOn(op)
    PROVE  Ledger!LedgerStep
<1>1. SUFFICES ASSUME NEW op \in Ops
               PROVE  Ledger!Evolves(
                        IF record[op] = "none" THEN Absent ELSE EntryOf(op, record[op]),
                        IF record'[op] = "none" THEN Absent ELSE EntryOf(op, record'[op]))
    BY DEF Ledger!LedgerStep
<1>2. /\ Absent.status = "none" /\ \A s : /\ EntryOf(op, s).status = s
                                          /\ EntryOf(op, s).req = op
                                          /\ EntryOf(op, s) # Absent
    BY LifecycleAssumption DEF Absent, EntryOf
<1>3. CASE record'[op] = record[op]
    BY <1>3 DEF Ledger!Evolves
<1>4. CASE record[op] = "none" /\ record'[op] = "pending"
    BY <1>2, <1>4 DEF Ledger!Evolves, Ledger!Admitted
<1>5. CASE record[op] \in Unfinished /\ record'[op] \in Unfinished \cup Terminal
    <2>1. record[op] # "none" /\ record'[op] # "none"
        BY <1>5 DEF Unfinished, Terminal
    <2> QED  BY <1>2, <1>5, <2>1 DEF Ledger!Evolves, Ledger!Progressed,
                                     Ledger!UnfinishedStatus, Unfinished
<1> QED  BY <1>3, <1>4, <1>5 DEF MovesOn

\* The durable records of the server's operations are an operation ledger, like those of
\* the store itself: each is reserved pending, moves on until it is final, and neither
\* disappears nor changes again, through retries, repairs and crashes.
THEOREM RecordsAreLedger == Spec => Ledger!LedgerSpec
<1>1. Init => Ledger!LedgerInit
    BY DEF Init, Ledger!LedgerInit
<1>2. TypeInv /\ BooksInv /\ [Next]_vars => [Ledger!LedgerNext]_(Ledger!ledgerVars)
    BY NextMovesOn, LedgerMoves DEF Ledger!LedgerNext
<1> QED  BY <1>1, <1>2, BooksHold, PTL DEF Spec, Ledger!LedgerSpec
=============================================================================
