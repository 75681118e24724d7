------------------------- MODULE SharedRegistryProofs -------------------------
(***************************************************************************)
(* Theorems about the shared file, for any servers, settings and threads,  *)
(* and any number of operations, faults, edits, checks and crashes.        *)
(***************************************************************************)
EXTENDS SharedRegistry, TLAPS

Procs == Threads \cup {Check}
Reading == [kind |-> "read"]
Proc == [op : Operation \cup {NoOp, Reading}, at : {"idle", "read", "rewrite", "reread", "write"},
         lines : File \cup {None}, entries : Entries \cup {None}]

Shape == /\ file \in File /\ want \in File
         /\ lock \in Threads \cup {None} /\ stale \in BOOLEAN /\ edits \in Nat
         /\ proc \in [Procs -> Proc]

\* One thread at most is not idle: the one that holds the lock.
Locked == \A t \in Threads : lock = t <=> proc[t].at # "idle"

\* What a process between two of its steps is doing.
Doing(t) == IF t = Check THEN proc[t].op = Reading /\ proc[t].at \in {"read", "rewrite"}
            ELSE proc[t].op \in Operation

\* What it has read by then.
HasRead(t) ==
    /\ proc[t].at # "idle" => Doing(t)
    /\ proc[t].at = "rewrite" => /\ proc[t].lines \in File /\ proc[t].entries \in Entries
                                 /\ proc[t].op.kind # "patch"
                                 /\ t = Check => stale
    /\ proc[t].at = "reread" => /\ proc[t].entries \in Entries /\ proc[t].op.kind # "patch"
                                /\ Writes(proc[t].op, proc[t].entries)
    /\ proc[t].at = "write" => /\ proc[t].lines \in File
                               /\ proc[t].op.kind # "patch" =>
                                     proc[t].entries \in Entries /\ Writes(proc[t].op, proc[t].entries)

\* And, unless a check is about to write behind the lock, that it still holds.
StillHolds(t) ==
    /\ proc[t].at = "rewrite" => /\ file.form = "loose" /\ proc[t].lines = file
                                 /\ proc[t].entries = file.entries
    /\ proc[t].at = "reread" => file.form = "canonical" /\ proc[t].entries = file.entries
    /\ proc[t].at = "write" => /\ proc[t].lines = file
                               /\ proc[t].op.kind # "patch" =>
                                     file.form = "canonical" /\ proc[t].entries = file.entries

Knows == \A t \in Procs : HasRead(t)
Holds == ~stale => \A t \in Threads : StillHolds(t)

Inv == Shape /\ Locked /\ Knows /\ Holds /\ NoLostUpdate

-----------------------------------------------------------------------------
(***************************************************************************)
(* What the operations make of entries and files.                          *)
(***************************************************************************)

LEMMA OperationFields ==
    ASSUME NEW op \in Operation
    PROVE  /\ op.kind \in {"read", "upsert", "remove", "sync", "mark", "patch"}
           /\ op.kind # "patch" => op.id \in Servers
           /\ op.kind \in {"upsert", "sync"} => op.v \in Versions
           /\ op.kind = "mark" => op.flag \in BOOLEAN
           /\ op.kind = "patch" => op.key \in Keys /\ op.val \in Vals
BY DEF Operation

LEMMA ReadingWritesNothing == \A entries : ~Writes(Reading, entries)
<1>1. Reading.kind = "read"
    BY DEF Reading
<1> QED  BY <1>1 DEF Writes

LEMMA UpdatedEntries ==
    ASSUME NEW op \in Operation, NEW entries \in Entries, op.kind # "patch", Writes(op, entries)
    PROVE  Updated(op, entries) \in Entries
<1>1. op.id \in Servers /\ entries[op.id] \in Entry \cup {None}
    BY OperationFields DEF Entries
<1>2. CASE op.kind = "read"
    BY <1>2 DEF Writes
<1>3. CASE op.kind = "upsert"
    BY <1>1, <1>3, OperationFields DEF Updated, Entries, Entry
<1>4. CASE op.kind = "remove"
    BY <1>1, <1>4 DEF Updated, Entries
<1>5. CASE op.kind = "mark"
    <2>1. entries[op.id] \in Entry /\ op.flag \in BOOLEAN
        BY <1>1, <1>5, OperationFields DEF Writes
    <2>2. [entries[op.id] EXCEPT !.repair = op.flag] \in Entry
        BY <2>1 DEF Entry
    <2> QED  BY <1>1, <1>5, <2>2 DEF Updated, Entries
<1>6. CASE op.kind = "sync"
    <2>1. [v |-> op.v, repair |-> entries[op.id] # None /\ entries[op.id].repair] \in Entry
        BY <1>1, <1>6, OperationFields DEF Entry
    <2> QED  BY <1>1, <1>6, <2>1 DEF Updated, Entries
<1> QED  BY <1>2, <1>3, <1>4, <1>5, <1>6, OperationFields

LEMMA CanonicalFile ==
    ASSUME NEW f \in File
    PROVE  /\ Canonical(f) \in File /\ Canonical(f).form = "canonical"
           /\ Canonical(f).entries = f.entries
BY DEF Canonical, File

LEMMA PatchedFile ==
    ASSUME NEW f \in File, NEW k \in Keys, NEW x \in Vals
    PROVE  /\ [f EXCEPT !.settings[k] = x] \in File
           /\ [f EXCEPT !.settings[k] = x].form = f.form
           /\ [f EXCEPT !.settings[k] = x].entries = f.entries
BY DEF File

LEMMA UpdatedFile ==
    ASSUME NEW f \in File, NEW e \in Entries
    PROVE  [Canonical(f) EXCEPT !.entries = e] \in File
BY DEF Canonical, File

\* What an operation amounts to is a file, whatever the file was.
LEMMA EffectFile ==
    ASSUME NEW f \in File, NEW op \in Operation
    PROVE  Effect(op, f) \in File
<1>1. CASE op.kind = "patch"
    BY <1>1, OperationFields, PatchedFile DEF Effect
<1>2. CASE op.kind # "patch" /\ f.form = "broken"
    BY <1>2 DEF Effect
<1>3. CASE op.kind # "patch" /\ f.form # "broken"
    <2>1. f.entries \in Entries
        BY DEF File
    <2> QED  BY <1>3, <2>1, CanonicalFile, UpdatedEntries, UpdatedFile DEF Effect
<1> QED  BY <1>1, <1>2, <1>3

-----------------------------------------------------------------------------
LEMMA InitInv == Init => Inv
<1> SUFFICES ASSUME Init PROVE Inv
    OBVIOUS
<1>1. file \in File
    BY DEF Init, File, Entries, Entry
<1>2. proc = [t \in Procs |-> Idle] /\ Idle \in Proc /\ Idle.at = "idle"
    BY DEF Init, Procs, Proc, Idle
<1>3. \A t \in Procs : proc[t].at = "idle"
    BY <1>2
<1>4. Shape /\ NoLostUpdate
    BY <1>1, <1>2, RegistryAssumption DEF Init, Shape, NoLostUpdate
<1>5. Locked
    BY <1>3, RegistryAssumption DEF Init, Locked, Procs
<1>6. Knows /\ Holds
    BY <1>3 DEF Knows, Holds, HasRead, StillHolds, Procs
<1> QED  BY <1>4, <1>5, <1>6 DEF Inv

-----------------------------------------------------------------------------
(***************************************************************************)
(* A step of one process: the others are idle, or it is a check that only  *)
(* reads.                                                                  *)
(***************************************************************************)

LEMMA StepInv ==
    ASSUME Inv, NEW t \in Procs, Shape', NoLostUpdate', stale => stale',
           \A u \in Procs \ {t} : proc'[u] = proc[u], HasRead(t)',
           t = Check => lock' = lock /\ (~stale' => file' = file),
           t # Check => /\ lock \in {None, t} /\ lock' \in {None, t}
                        /\ lock' = t <=> proc'[t].at # "idle"
                        /\ ~stale' => StillHolds(t)'
    PROVE  Inv'
<1>1. Knows'
    <2> SUFFICES ASSUME NEW u \in Procs PROVE HasRead(u)'
        BY DEF Knows
    <2>1. CASE u # t
        BY <2>1 DEF Inv, Knows, HasRead, Doing
    <2> QED  BY <2>1
<1>2. Locked'
    BY RegistryAssumption DEF Inv, Locked, Procs
<1>3. Holds'
    <2> SUFFICES ASSUME ~stale', NEW u \in Threads PROVE StillHolds(u)'
        BY DEF Holds
    <2>1. CASE t = Check
        BY <2>1, RegistryAssumption DEF Inv, Holds, StillHolds, Procs
    <2>2. CASE t # Check /\ u # t
        <3>1. proc'[u].at = "idle"
            BY <2>2, RegistryAssumption DEF Inv, Locked, Procs
        <3> QED  BY <3>1 DEF StillHolds
    <2> QED  BY <2>1, <2>2
<1> QED  BY <1>1, <1>2, <1>3 DEF Inv

\* The process has read something and goes on.
LEMMA SetProc ==
    ASSUME Inv, NEW t \in Procs, NEW at \in {"read", "rewrite", "reread", "write"},
           NEW lines \in File \cup {None}, NEW entries \in Entries \cup {None},
           Set(t, at, lines, entries)
    PROVE  /\ proc' \in [Procs -> Proc]
           /\ \A u \in Procs \ {t} : proc'[u] = proc[u]
           /\ proc'[t].op = proc[t].op /\ proc'[t].at = at
           /\ proc'[t].lines = lines /\ proc'[t].entries = entries
BY DEF Inv, Shape, Set, Proc

\* The process is done.
LEMMA LeaveProc ==
    ASSUME Inv, NEW t \in Procs, proc[t].at # "idle", Leave(t)
    PROVE  /\ proc' \in [Procs -> Proc]
           /\ \A u \in Procs \ {t} : proc'[u] = proc[u]
           /\ proc'[t].at = "idle" /\ HasRead(t)' /\ StillHolds(t)'
           /\ lock' = IF t = Check THEN lock ELSE None
BY DEF Inv, Shape, Leave, Proc, Idle, HasRead, StillHolds

\* Whoever is not idle, but for a check, holds the lock.
LEMMA Holder ==
    ASSUME Inv, NEW t \in Procs, proc[t].at # "idle"
    PROVE  t # Check => t \in Threads /\ lock = t /\ None # t
BY RegistryAssumption DEF Inv, Locked, Procs

\* A process leaves, whatever it did to the file.
LEMMA LeaveInv ==
    ASSUME Inv, NEW t \in Procs, proc[t].at # "idle", Leave(t), stale' \in BOOLEAN, stale => stale',
           file' \in File, want' \in File, edits' = edits, NoLostUpdate',
           t = Check /\ ~stale' => file' = file
    PROVE  Inv'
<1>1. Shape'
    BY LeaveProc DEF Inv, Shape
<1>2. t = Check => lock' = lock
    BY LeaveProc
<1>3. t # Check => lock' = None /\ lock = t /\ None # t
    BY LeaveProc, Holder
<1>4. /\ \A u \in Procs \ {t} : proc'[u] = proc[u]
      /\ HasRead(t)' /\ StillHolds(t)' /\ proc'[t].at = "idle"
    BY LeaveProc
<1> QED  BY <1>1, <1>2, <1>3, <1>4, StepInv

\* A process goes on, holding what it held.
LEMMA SetInv ==
    ASSUME Inv, NEW t \in Procs, proc[t].at # "idle",
           NEW at \in {"read", "rewrite", "reread", "write"},
           NEW lines \in File \cup {None}, NEW entries \in Entries \cup {None},
           Set(t, at, lines, entries), lock' = lock,
           stale' \in BOOLEAN, stale => stale', file' \in File, want' \in File, edits' = edits,
           NoLostUpdate', HasRead(t)',
           t = Check /\ ~stale' => file' = file,
           t # Check /\ ~stale' => StillHolds(t)'
    PROVE  Inv'
<1>1. Shape'
    BY SetProc DEF Inv, Shape
<1>2. t # Check => lock = t
    BY Holder
<1>3. (\A u \in Procs \ {t} : proc'[u] = proc[u]) /\ proc'[t].at # "idle"
    BY SetProc
<1> QED  BY <1>1, <1>2, <1>3, StepInv

-----------------------------------------------------------------------------
(***************************************************************************)
(* The steps.                                                              *)
(***************************************************************************)

LEMMA StartInv == ASSUME NEW t \in Threads, NEW op \in Operation, Inv, Start(t, op) PROVE Inv'
<1>1. t \in Procs /\ t # Check /\ t # None
    BY RegistryAssumption DEF Procs
<1>2. /\ proc' \in [Procs -> Proc] /\ proc'[t].op = op /\ proc'[t].at = "read"
      /\ \A u \in Procs \ {t} : proc'[u] = proc[u]
    BY <1>1 DEF Start, Inv, Shape, Proc
<1>3. HasRead(t)' /\ StillHolds(t)'
    BY <1>1, <1>2 DEF HasRead, StillHolds, Doing
<1>4. Shape' /\ NoLostUpdate' /\ lock = None /\ lock' = t /\ stale' = stale
    BY <1>2 DEF Start, MayLock, Inv, Shape, NoLostUpdate
<1> QED  BY <1>1, <1>2, <1>3, <1>4, StepInv

LEMMA StartCheckInv == ASSUME Inv, StartCheck PROVE Inv'
<1>1. Check \in Procs
    BY DEF Procs
<1>2. /\ proc' \in [Procs -> Proc] /\ proc'[Check].op = Reading /\ proc'[Check].at = "read"
      /\ \A u \in Procs \ {Check} : proc'[u] = proc[u]
    BY <1>1 DEF StartCheck, Inv, Shape, Proc, Reading
<1>3. HasRead(Check)'
    BY <1>2 DEF HasRead, Doing
<1>4. Shape' /\ NoLostUpdate' /\ lock' = lock /\ stale' = stale /\ file' = file
    BY <1>2 DEF StartCheck, Inv, Shape, NoLostUpdate
<1> QED  BY <1>1, <1>2, <1>3, <1>4, StepInv

LEMMA ReadInv == ASSUME NEW t \in Procs, Inv, Read(t) PROVE Inv'
<1>1. /\ proc[t].at = "read" /\ UNCHANGED <<file, want, edits>>
      /\ stale' = (stale \/ (t = Check /\ file.form = "loose"))
    BY DEF Read
<1>2. /\ stale' \in BOOLEAN /\ (stale => stale') /\ file' \in File /\ want' \in File
      /\ NoLostUpdate' /\ file \in File /\ file.entries \in Entries
    BY <1>1 DEF Inv, Shape, NoLostUpdate, File
<1>3. Doing(t)
    BY <1>1 DEF Inv, Knows, HasRead
<1>4. CASE Leave(t)
    BY <1>1, <1>2, <1>4, LeaveInv
<1>5. CASE proc[t].op.kind = "patch" /\ Set(t, "write", file, None) /\ lock' = lock
    <2>1. t # Check
        BY <1>3, <1>5 DEF Doing, Reading
    <2>2. /\ proc'[t].op = proc[t].op /\ proc'[t].at = "write" /\ proc'[t].lines = file
        BY <1>2, <1>5, SetProc
    <2>3. HasRead(t)' /\ StillHolds(t)'
        BY <1>1, <1>2, <1>3, <1>5, <2>1, <2>2 DEF HasRead, StillHolds, Doing
    <2> QED  BY <1>1, <1>2, <1>5, <2>3, SetInv
<1>6. CASE /\ proc[t].op.kind # "patch" /\ file.form = "loose"
           /\ Set(t, "rewrite", file, file.entries) /\ lock' = lock
    <2>1. /\ proc'[t].op = proc[t].op /\ proc'[t].at = "rewrite" /\ proc'[t].lines = file
          /\ proc'[t].entries = file.entries
        BY <1>2, <1>6, SetProc
    <2>2. HasRead(t)' /\ StillHolds(t)'
        BY <1>1, <1>2, <1>3, <1>6, <2>1 DEF HasRead, StillHolds, Doing
    <2> QED  BY <1>1, <1>2, <1>6, <2>2, SetInv
<1>7. CASE /\ proc[t].op.kind # "patch" /\ file.form = "canonical"
           /\ Writes(proc[t].op, file.entries)
           /\ Set(t, "reread", None, file.entries) /\ lock' = lock
    <2>1. t # Check
        BY <1>3, <1>7, ReadingWritesNothing DEF Doing
    <2>2. /\ proc'[t].op = proc[t].op /\ proc'[t].at = "reread" /\ proc'[t].entries = file.entries
        BY <1>2, <1>7, SetProc
    <2>3. HasRead(t)' /\ StillHolds(t)'
        BY <1>1, <1>2, <1>3, <1>7, <2>1, <2>2 DEF HasRead, StillHolds, Doing, Writes
    <2> QED  BY <1>1, <1>2, <1>7, <2>3, SetInv
<1> QED  BY <1>4, <1>5, <1>6, <1>7 DEF Read

LEMMA RewriteInv == ASSUME NEW t \in Procs, Inv, Rewrite(t) PROVE Inv'
<1>1. /\ proc[t].at = "rewrite" /\ UNCHANGED <<stale, edits>> /\ proc[t].op.kind # "patch"
      /\ proc[t].lines \in File /\ proc[t].entries \in Entries /\ Doing(t)
      /\ t = Check => stale
    BY DEF Rewrite, Inv, Knows, HasRead
<1>2. stale' \in BOOLEAN /\ file \in File /\ want \in File
    BY <1>1 DEF Inv, Shape
<1>3. CASE Leave(t) /\ UNCHANGED <<file, want>>
    <2>1. NoLostUpdate'
        BY <1>1, <1>3 DEF Inv, NoLostUpdate
    <2> QED  BY <1>1, <1>2, <1>3, <2>1, LeaveInv
<1>4. CASE /\ file' = Canonical(proc[t].lines)
           /\ want' = IF t = Check THEN want ELSE Canonical(want)
    <2>1. /\ file' \in File /\ want' \in File /\ file'.form = "canonical"
          /\ file'.entries = proc[t].lines.entries
        BY <1>1, <1>2, <1>4, CanonicalFile
    <2>2. ~stale => t \in Threads /\ StillHolds(t) /\ t # Check
        BY <1>1 DEF Inv, Holds, Procs
    <2>3. NoLostUpdate'
        BY <1>1, <1>4, <2>2 DEF Inv, NoLostUpdate, StillHolds
    <2>4. CASE Leave(t)
        BY <1>1, <1>2, <2>1, <2>3, <2>4, LeaveInv
    <2>5. CASE Writes(proc[t].op, proc[t].entries) /\ Set(t, "reread", None, proc[t].entries)
               /\ lock' = lock
        <3>1. t # Check
            BY <1>1, <2>5, ReadingWritesNothing DEF Doing
        <3>2. /\ proc'[t].op = proc[t].op /\ proc'[t].at = "reread"
              /\ proc'[t].entries = proc[t].entries
            BY <1>1, <2>5, SetProc
        <3>3. HasRead(t)'
            BY <1>1, <2>5, <3>1, <3>2 DEF HasRead, Doing, Writes
        <3>4. ~stale' => StillHolds(t)'
            BY <1>1, <2>1, <2>2, <3>2 DEF StillHolds
        <3> QED  BY <1>1, <1>2, <2>1, <2>3, <2>5, <3>1, <3>3, <3>4, SetInv
    <2> QED  BY <1>4, <2>4, <2>5 DEF Rewrite, Leave
<1> QED  BY <1>3, <1>4 DEF Rewrite

LEMMA RereadInv == ASSUME NEW t \in Procs, Inv, Reread(t) PROVE Inv'
<1>1. /\ proc[t].at = "reread" /\ UNCHANGED <<file, lock, want, stale, edits>>
      /\ Set(t, "write", file, proc[t].entries)
      /\ proc[t].entries \in Entries /\ Doing(t) /\ Writes(proc[t].op, proc[t].entries)
      /\ proc[t].op.kind # "patch"
    BY DEF Reread, Inv, Knows, HasRead
<1>2. stale' \in BOOLEAN /\ file' \in File /\ want' \in File /\ NoLostUpdate' /\ file \in File
    BY <1>1 DEF Inv, Shape, NoLostUpdate
<1>3. t # Check /\ t \in Threads
    BY <1>1 DEF Doing, Procs
<1>4. /\ proc'[t].op = proc[t].op /\ proc'[t].at = "write" /\ proc'[t].lines = file
      /\ proc'[t].entries = proc[t].entries
    BY <1>1, <1>2, SetProc
<1>5. HasRead(t)'
    BY <1>1, <1>2, <1>3, <1>4 DEF HasRead, Doing, Writes
<1>6. ~stale' => StillHolds(t)'
    BY <1>1, <1>3, <1>4 DEF Inv, Holds, StillHolds
<1> QED  BY <1>1, <1>2, <1>3, <1>5, <1>6, SetInv

\* What is written is a file, and what the operation makes of the one there is.
LEMMA WrittenFile ==
    ASSUME NEW t \in Procs, Inv, proc[t].at = "write"
    PROVE  /\ t \in Threads /\ t # Check /\ proc[t].op \in Operation
           /\ Written(t) \in File
           /\ ~stale => Written(t) = Effect(proc[t].op, file)
<1>1. /\ t \in Threads /\ t # Check /\ proc[t].op \in Operation /\ proc[t].lines \in File
      /\ HasRead(t) /\ (~stale => StillHolds(t))
    BY DEF Inv, Knows, HasRead, Doing, Procs, Holds
<1>2. CASE proc[t].op.kind = "patch"
    <2>1. Written(t) \in File
        BY <1>1, <1>2, OperationFields, PatchedFile DEF Written
    <2>2. ~stale => Written(t) = Effect(proc[t].op, file)
        BY <1>1, <1>2 DEF Written, Effect, StillHolds
    <2> QED  BY <1>1, <2>1, <2>2
<1>3. CASE proc[t].op.kind # "patch"
    <2>1. proc[t].entries \in Entries /\ Writes(proc[t].op, proc[t].entries)
        BY <1>1, <1>3 DEF HasRead
    <2>2. Updated(proc[t].op, proc[t].entries) \in Entries
        BY <1>1, <1>3, <2>1, UpdatedEntries
    <2>3. Written(t) \in File
        BY <1>1, <1>3, <2>2, UpdatedFile DEF Written
    <2>4. ~stale => Written(t) = Effect(proc[t].op, file)
        BY <1>1, <1>3, <2>1 DEF Written, Effect, StillHolds
    <2> QED  BY <1>1, <2>3, <2>4
<1> QED  BY <1>2, <1>3

LEMMA WriteInv == ASSUME NEW t \in Procs, Inv, Write(t) PROVE Inv'
<1>1. proc[t].at = "write" /\ Leave(t) /\ UNCHANGED <<stale, edits>>
    BY DEF Write
<1>2. stale' \in BOOLEAN /\ file \in File /\ want \in File
    BY <1>1 DEF Inv, Shape
<1>3. t # Check
    BY <1>1, WrittenFile
<1>4. CASE UNCHANGED <<file, want>>
    <2>1. NoLostUpdate'
        BY <1>1, <1>4 DEF Inv, NoLostUpdate
    <2> QED  BY <1>1, <1>2, <1>3, <1>4, <2>1, LeaveInv
<1>5. CASE file' = Written(t) /\ Took(t)
    <2>1. want' = Effect(proc[t].op, want)
        BY <1>3, <1>5 DEF Took
    <2>2. file' \in File /\ want' \in File
        BY <1>1, <1>2, <1>5, <2>1, WrittenFile, EffectFile
    <2>3. NoLostUpdate'
        BY <1>1, <1>5, <2>1, WrittenFile DEF Inv, NoLostUpdate
    <2> QED  BY <1>1, <1>2, <1>3, <2>2, <2>3, LeaveInv
<1> QED  BY <1>4, <1>5 DEF Write

LEMMA HostEditInv ==
    ASSUME NEW form \in {"canonical", "loose", "broken"}, Inv, HostEdit(form)
    PROVE  Inv'
<1>1. /\ lock = None /\ UNCHANGED <<lock, proc, stale>> /\ edits' = edits + 1
      /\ file' = [file EXCEPT !.form = form] /\ want' = [want EXCEPT !.form = form]
    BY DEF HostEdit
<1>2. file' \in File /\ want' \in File
    BY <1>1 DEF Inv, Shape, File
<1>3. Shape' /\ NoLostUpdate'
    BY <1>1, <1>2 DEF Inv, Shape, NoLostUpdate
<1>4. \A t \in Threads : proc[t].at = "idle"
    BY <1>1, RegistryAssumption DEF Inv, Locked
<1>5. Locked' /\ Knows'
    BY <1>1 DEF Inv, Locked, Knows, HasRead, Doing
<1>6. Holds'
    BY <1>1, <1>4 DEF Holds, StillHolds
<1> QED  BY <1>3, <1>5, <1>6 DEF Inv

LEMMA CrashInv == ASSUME Inv, Crash PROVE Inv'
<1>1. /\ UNCHANGED <<file, want, stale, edits>> /\ lock' = None
      /\ proc' = [t \in Procs |-> IF t = Check THEN proc[t] ELSE Idle]
    BY DEF Crash, Procs
<1>2. /\ Idle \in Proc /\ Idle.at = "idle"
    BY DEF Proc, Idle
<1>3. proc' \in [Procs -> Proc]
    BY <1>1, <1>2 DEF Inv, Shape
<1>4. Shape' /\ NoLostUpdate'
    BY <1>1, <1>3 DEF Inv, Shape, NoLostUpdate
<1>5. \A t \in Procs : IF t = Check THEN proc'[t] = proc[t] ELSE proc'[t].at = "idle"
    BY <1>1, <1>2
<1>6. Locked' /\ Holds'
    BY <1>1, <1>5, RegistryAssumption DEF Locked, Holds, StillHolds, Procs
<1>7. Knows'
    BY <1>1, <1>5 DEF Inv, Knows, HasRead, Doing
<1> QED  BY <1>4, <1>6, <1>7 DEF Inv

LEMMA StutterInv == ASSUME Inv, UNCHANGED vars PROVE Inv'
<1>1. Shape' /\ NoLostUpdate' /\ Locked'
    BY DEF vars, Inv, Shape, NoLostUpdate, Locked
<1>2. Knows' /\ Holds'
    BY DEF vars, Inv, Knows, HasRead, Doing, Holds, StillHolds
<1> QED  BY <1>1, <1>2 DEF Inv

LEMMA NextInv == ASSUME Inv, [Next]_vars PROVE Inv'
<1>1. ASSUME NEW t \in Procs, ThreadStep(t) PROVE Inv'
    BY <1>1, ReadInv, RewriteInv, RereadInv, WriteInv DEF ThreadStep
<1> QED  BY <1>1, StartInv, StartCheckInv, HostEditInv, CrashInv, StutterInv DEF Next, Procs

-----------------------------------------------------------------------------
LEMMA Invariance == Spec => []Inv
BY InitInv, NextInv, PTL DEF Spec

\* The file is what the operations that took effect add up to, one after another,
\* for any threads, servers and settings, and any failures and crashes.
THEOREM FileHolds == Spec => []FileIsRight
<1>1. Inv => FileIsRight
    BY DEF Inv, Shape, FileIsRight, TypeOK, Procs, Proc
<1> QED  BY <1>1, Invariance, PTL

\* No step of any thread replaces a registry that cannot be read.
THEOREM BrokenKept == Spec => BrokenIsKept
<1> DEFINE Kept == file.form = "broken" /\ edits' = edits /\ ~stale
                       => file'.form = "broken" /\ file'.entries = file.entries
<1>1. ASSUME Inv, Next, file.form = "broken", edits' = edits, ~stale
      PROVE  file'.form = "broken" /\ file'.entries = file.entries
    <2>1. ASSUME NEW t \in Procs, Rewrite(t) PROVE file' = file
        BY <1>1, <2>1, RegistryAssumption
           DEF Rewrite, Inv, Knows, HasRead, Holds, StillHolds, Procs
    <2>2. ASSUME NEW t \in Procs, Write(t), file' # file
          PROVE  file'.form = "broken" /\ file'.entries = file.entries
        <3>1. /\ proc[t].at = "write" /\ file' = Written(t) /\ t \in Threads
              /\ proc[t].op \in Operation
            BY <1>1, <2>2, WrittenFile DEF Write
        <3>2. StillHolds(t)
            BY <1>1, <3>1 DEF Inv, Holds
        <3>3. proc[t].op.kind = "patch" /\ proc[t].lines = file
            BY <1>1, <3>1, <3>2 DEF StillHolds
        <3> QED  BY <1>1, <3>1, <3>3, OperationFields, PatchedFile DEF Written, Inv, Shape
    <2>3. ASSUME NEW form \in {"canonical", "loose", "broken"}, HostEdit(form) PROVE FALSE
        BY <1>1, <2>3 DEF HostEdit, Inv, Shape
    <2> QED  BY <1>1, <2>1, <2>2, <2>3
                DEF Next, ThreadStep, Start, StartCheck, Read, Reread, Crash, Procs
<1>2. Inv /\ [Next]_vars => [Kept]_vars
    BY <1>1
<1> QED  BY <1>2, Invariance, PTL DEF Spec, BrokenIsKept
=============================================================================
