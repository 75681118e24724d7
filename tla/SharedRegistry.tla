---------------------------- MODULE SharedRegistry ----------------------------
(***************************************************************************)
(* The shared env file: the server registry it holds in one setting, the   *)
(* other settings, and the threads that rewrite it whole.  The deployer's  *)
(* threads take sharedEnvMu; a registry check run as a second process does *)
(* not, and reading the registry may rewrite the file.                     *)
(*                                                                         *)
(* A file is what it means: the registry's entries, whether its text is    *)
(* canonical, loose (a read normalises it) or broken (a read fails), and   *)
(* the other settings.                                                     *)
(***************************************************************************)
EXTENDS Naturals, FiniteSets, Functions

CONSTANTS
    Servers, Versions,  \* server ids, and what an entry says of a server
    None,
    Keys, Vals,         \* other settings
    Threads, Check,     \* the deployer's threads; the check process
    NoOp,
    MaxOps, MaxFaults, MaxEdits, MaxChecks  \* bounds

ASSUME RegistryAssumption ==
    /\ None \notin Versions \cup Threads /\ Check \notin Threads
    /\ {MaxOps, MaxFaults, MaxEdits, MaxChecks} \subseteq Nat

VARIABLES
    file,    \* the shared env file
    lock,    \* the thread that holds sharedEnvMu, or None
    proc,    \* each thread's operation, step, and what it has read
    want,    \* history: the file the operations that took effect add up to
    stale,   \* history: a check has rewritten, or will rewrite, a loose file
    ops, faults, edits, checks  \* counted against the bounds

vars == <<file, lock, proc, want, stale, ops, faults, edits, checks>>

-----------------------------------------------------------------------------
Entry == [v : Versions, repair : BOOLEAN]
Entries == [Servers -> Entry \cup {None}]
File == [entries : Entries, form : {"canonical", "loose", "broken"}, settings : [Keys -> Vals]]

Operation == [kind : {"read", "upsert", "remove", "sync"}, id : Servers, v : Versions]
             \cup [kind : {"mark"}, id : Servers, flag : BOOLEAN]
             \cup [kind : {"patch"}, key : Keys, val : Vals]

\* Whether an operation that read these entries has anything to write.
Writes(op, entries) ==
    CASE op.kind = "read"   -> FALSE
      [] op.kind = "upsert" -> TRUE
      [] op.kind = "remove" -> entries[op.id] # None
      [] op.kind = "mark"   -> entries[op.id] # None
      [] op.kind = "sync"   -> ~(entries[op.id] # None /\ entries[op.id].v = op.v)

\* upsertRegistryEntry, removeRegistryEntry, setRegistryRepairRequired and
\* syncRegistryEntryFromEnv on what readRegistryLocked returned.
Updated(op, entries) ==
    CASE op.kind = "upsert" -> [entries EXCEPT ![op.id] = [v |-> op.v, repair |-> FALSE]]
      [] op.kind = "remove" -> [entries EXCEPT ![op.id] = None]
      [] op.kind = "mark"   -> [entries EXCEPT ![op.id].repair = op.flag]
      [] op.kind = "sync"   -> [entries EXCEPT ![op.id] =
              [v |-> op.v, repair |-> entries[op.id] # None /\ entries[op.id].repair]]

\* canonicalRegistryEntries written over the lines that were read.
Canonical(f) == [f EXCEPT !.form = "canonical"]

\* What an operation makes of a whole file, done alone.
Effect(op, f) ==
    CASE op.kind = "patch" -> [f EXCEPT !.settings[op.key] = op.val]
      [] op.kind # "patch" /\ f.form = "broken" -> f
      [] op.kind # "patch" /\ f.form # "broken" ->
           IF Writes(op, f.entries) THEN [Canonical(f) EXCEPT !.entries = Updated(op, f.entries)]
           ELSE Canonical(f)

Idle == [op |-> NoOp, at |-> "idle", lines |-> None, entries |-> None]

Init == /\ file \in [entries : [Servers -> [v : Versions, repair : {FALSE}] \cup {None}],
                     form : {"canonical", "loose", "broken"}, settings : [Keys -> Vals]]
        /\ lock = None
        /\ proc = [t \in Threads \cup {Check} |-> Idle]
        /\ want = file /\ stale = FALSE
        /\ ops = 0 /\ faults = 0 /\ edits = 0 /\ checks = 0

-----------------------------------------------------------------------------
Set(t, at, lines, entries) ==
    proc' = [proc EXCEPT ![t].at = at, ![t].lines = lines, ![t].entries = entries]

Leave(t) == /\ proc' = [proc EXCEPT ![t] = Idle]
            /\ lock' = IF t = Check THEN lock ELSE None

\* The operation takes effect, or reading alone normalises the file.
Took(t) == want' = IF t = Check THEN want ELSE Effect(proc[t].op, want)

MayLockMutant == \A t \in Threads : proc[t].at \notin {"rewrite", "write"}
MayLock == lock = None

Start(t, op) ==
    /\ t \in Threads /\ proc[t] = Idle /\ MayLock /\ ops < MaxOps
    /\ ops' = ops + 1 /\ lock' = t
    /\ proc' = [proc EXCEPT ![t] = [@ EXCEPT !.op = op, !.at = "read"]]
    /\ UNCHANGED <<file, want, stale, faults, edits, checks>>

\* A check (--check-registry, --check-running-registry-targets, or the sync of
\* the allowlist) only reads, and takes no lock another process sees.
StartCheck ==
    /\ proc[Check] = Idle /\ checks < MaxChecks
    /\ checks' = checks + 1
    /\ proc' = [proc EXCEPT ![Check].op = [kind |-> "read"], ![Check].at = "read"]
    /\ UNCHANGED <<file, lock, want, stale, ops, faults, edits>>

\* readEnvLines, and for a registry operation parseRawRegistryEntries.
Read(t) ==
    /\ proc[t].at = "read"
    /\ LET op == proc[t].op
       IN \/ op.kind = "patch" /\ Set(t, "write", file, None) /\ lock' = lock
          \/ op.kind # "patch" /\ file.form = "broken" /\ Leave(t)
          \/ op.kind # "patch" /\ file.form = "loose"
               /\ Set(t, "rewrite", file, file.entries) /\ lock' = lock
          \/ op.kind # "patch" /\ file.form = "canonical" /\ Writes(op, file.entries)
               /\ Set(t, "reread", None, file.entries) /\ lock' = lock
          \/ op.kind # "patch" /\ file.form = "canonical" /\ ~Writes(op, file.entries)
               /\ Leave(t)
    /\ stale' = (stale \/ (t = Check /\ file.form = "loose"))
    /\ UNCHANGED <<file, want, ops, faults, edits, checks>>

\* writeCanonicalRegistryLocked, from readRegistryLocked.
Rewrite(t) ==
    /\ proc[t].at = "rewrite"
    /\ \/ /\ file' = Canonical(proc[t].lines)
          /\ want' = IF t = Check THEN want ELSE Canonical(want)
          /\ IF Writes(proc[t].op, proc[t].entries)
             THEN Set(t, "reread", None, proc[t].entries) /\ lock' = lock
             ELSE Leave(t)
          /\ faults' = faults
       \/ /\ faults < MaxFaults /\ faults' = faults + 1
          /\ Leave(t) /\ UNCHANGED <<file, want>>
    /\ UNCHANGED <<stale, ops, edits, checks>>

\* writeRegistryLockedWithDurability reads the lines once more.
Reread(t) ==
    /\ proc[t].at = "reread"
    /\ Set(t, "write", file, proc[t].entries)
    /\ UNCHANGED <<file, lock, want, stale, ops, faults, edits, checks>>

\* The file the operation writes: patchEnvFile keeps the registry's text, a
\* registry operation keeps the other settings.
WrittenMutant(t) ==
    LET op == proc[t].op
    IN IF op.kind = "patch"
       THEN [Canonical(proc[t].lines) EXCEPT !.settings[op.key] = op.val]
       ELSE [Canonical(proc[t].lines) EXCEPT !.entries = Updated(op, proc[t].entries)]
Written(t) ==
    LET op == proc[t].op
    IN IF op.kind = "patch" THEN [proc[t].lines EXCEPT !.settings[op.key] = op.val]
       ELSE [Canonical(proc[t].lines) EXCEPT !.entries = Updated(op, proc[t].entries)]

\* A durable write may fail after the new file is in place.
Write(t) ==
    /\ proc[t].at = "write"
    /\ \/ file' = Written(t) /\ Took(t) /\ faults' = faults
       \/ /\ faults < MaxFaults /\ faults' = faults + 1
          /\ \/ UNCHANGED <<file, want>>
             \/ proc[t].op.kind = "mark" /\ file' = Written(t) /\ Took(t)
    /\ Leave(t)
    /\ UNCHANGED <<stale, ops, edits, checks>>

\* The operator edits the registry's text while no operation holds the file.
HostEdit(form) ==
    /\ lock = None /\ proc[Check] = Idle /\ edits < MaxEdits
    /\ form # file.form
    /\ file' = [file EXCEPT !.form = form]
    /\ want' = [want EXCEPT !.form = form]
    /\ edits' = edits + 1
    /\ UNCHANGED <<lock, proc, stale, ops, faults, checks>>

Crash ==
    /\ \E t \in Threads : proc[t] # Idle
    /\ proc' = [t \in Threads \cup {Check} |-> IF t = Check THEN proc[t] ELSE Idle]
    /\ lock' = None
    /\ UNCHANGED <<file, want, stale, ops, faults, edits, checks>>

ThreadStep(t) == Read(t) \/ Rewrite(t) \/ Reread(t) \/ Write(t)

Next == \/ \E t \in Threads, op \in Operation : Start(t, op)
        \/ StartCheck
        \/ \E t \in Threads \cup {Check} : ThreadStep(t)
        \/ \E form \in {"canonical", "loose", "broken"} : HostEdit(form)
        \/ Crash

Spec == Init /\ [][Next]_vars

-----------------------------------------------------------------------------
(***************************************************************************)
(* Properties.                                                             *)
(***************************************************************************)

\* The file, the lock and the threads keep their shape.
TypeOK ==
    /\ file \in File /\ want \in File
    /\ lock \in Threads \cup {None} /\ stale \in BOOLEAN
    /\ \A t \in Threads \cup {Check} :
         /\ proc[t].at \in {"idle", "read", "rewrite", "reread", "write"}
         /\ proc[t].lines \in File \cup {None}
         /\ proc[t].entries \in Entries \cup {None}

\* No update is lost: unless a check rewrites a file it found loose, the file
\* is always what the operations that took effect amount to, one after another,
\* in entries, settings and text, though each reads it twice and writes it whole.
NoLostUpdate == ~stale => file = want

FileIsRight == TypeOK /\ NoLostUpdate

\* A registry that cannot be read is never replaced by what was understood of
\* it: the text stays for the operator, whatever operations run.
BrokenIsKept ==
    [][file.form = "broken" /\ edits' = edits /\ ~stale => file'.form = "broken"
                                                       /\ file'.entries = file.entries]_vars

=============================================================================
