----------------------------- MODULE WebGameDeploy -----------------------------
(***************************************************************************)
(* The deployment of a web-game image to one server (/deploy/web-game) and *)
(* its repair: the env file's pin, the image the container runs, the       *)
(* journal between them, failures of every step, restarts, the deployer's  *)
(* other operations and edits of the env file made on the host.            *)
(*                                                                         *)
(* A pin stands for commit@digest; generation stands for the whole         *)
(* approved identity (world, generation, registry entry).  The pin and the *)
(* journal are written durably, so a restart and a power loss are the same *)
(* to them.                                                                *)
(***************************************************************************)
EXTENDS Naturals, FiniteSets

CONSTANTS
    Pins, NoImage,       \* web-game pins; no container
    Generations,
    Requests,            \* approved deployments
    NoJournal, NoRequest,
    MaxDeploys, MaxFaults, MaxEdits, MaxCrashes, MaxOthers  \* bounds

Request == [expected : Pins, approved : Pins, gen : Generations]
Journal == [req : Request, stage : {"prepared", "env-updated"}]

ASSUME WebDeployAssumption ==
    /\ NoImage \notin Pins /\ NoRequest \notin Request /\ NoJournal \notin Journal
    /\ Requests \subseteq Request
    /\ {MaxDeploys, MaxFaults, MaxEdits, MaxCrashes, MaxOthers} \subseteq Nat

VARIABLES
    pin,      \* WEB_GAME_TAG of the server's env file
    gen,      \* the identity the env file and the registry name
    running,  \* the image of the web-game container
    journal,  \* the lifecycle journal: a request and its stage
    latched,  \* the coordinator's journalPending
    proc,     \* the deployment or repair that holds the lease
    origin,   \* history: the world when the journal was written
    seen,     \* history: the edits there had been at the last check of the pin
    deploys, faults, edits, crashes, others  \* counted against the bounds

vars == <<pin, gen, running, journal, latched, proc, origin, seen,
          deploys, faults, edits, crashes, others>>

Value == [pin |-> pin, running |-> running, gen |-> gen, edits |-> edits]

Idle == [who |-> "none", at |-> "idle", req |-> NoRequest]

\* The coordinator admits no mutation while either holds.
Pending == latched \/ journal # NoJournal

Matches(req) == pin = req.expected /\ gen = req.gen

Init == /\ pin \in Pins /\ gen \in Generations /\ running \in Pins \cup {NoImage}
        /\ journal = NoJournal /\ latched = FALSE /\ proc = Idle
        /\ deploys = 0 /\ faults = 0 /\ edits = 0 /\ crashes = 0 /\ others = 0
        /\ origin = Value /\ seen = 0

-----------------------------------------------------------------------------
At(who, step) == proc.who = who /\ proc.at = step
Goto(step) == proc' = [proc EXCEPT !.at = step]
Stop == proc' = Idle
Fault == faults < MaxFaults /\ faults' = faults + 1

(***************************************************************************)
(* handleWebGameDeploy.                                                    *)
(***************************************************************************)
\* The lease is taken; the expected pin is read under it.
Admit(req) ==
    /\ proc = Idle /\ ~Pending /\ deploys < MaxDeploys
    /\ deploys' = deploys + 1
    /\ proc' = IF Matches(req)
               THEN [who |-> "deploy", at |-> "pull", req |-> req] ELSE Idle
    /\ UNCHANGED <<pin, gen, running, journal, latched, faults, edits, crashes, others>>

\* Pulled through a temporary env file.
Pull == /\ At("deploy", "pull")
        /\ \/ Goto("recheck") /\ faults' = faults
           \/ Stop /\ Fault
        /\ UNCHANGED <<pin, gen, running, journal, latched, deploys, edits, crashes, others>>

\* The pin is read again, and the lease has not been cancelled.
RecheckedMutant(req) == gen = req.gen
Rechecked(req) == Matches(req)

Recheck == /\ At("deploy", "recheck")
           /\ \/ /\ Rechecked(proc.req)
                 /\ Goto("journal") /\ faults' = faults
              \/ ~Rechecked(proc.req) /\ Stop /\ faults' = faults
              \/ Stop /\ Fault
           /\ UNCHANGED <<pin, gen, running, journal, latched, deploys, edits, crashes, others>>

WriteJournal ==
    LET new == [req |-> proc.req, stage |-> "prepared"]
    IN /\ At("deploy", "journal")
       /\ \/ journal' = new /\ latched' = TRUE /\ Goto("pin") /\ faults' = faults
          \/ /\ journal' \in {NoJournal, new} /\ latched' = latched
             /\ Stop /\ Fault
       /\ UNCHANGED <<pin, gen, running, deploys, edits, crashes, others>>

\* writeWebGamePinDurable: a cancelled lease, or an error after the rename.
WritePin ==
    /\ At("deploy", "pin")
    /\ \/ pin' = proc.req.approved /\ Goto("stage") /\ faults' = faults
       \/ pin' \in {pin, proc.req.approved} /\ Stop /\ Fault
    /\ UNCHANGED <<gen, running, journal, latched, deploys, edits, crashes, others>>

StageEnvMutant ==
    LET new == [journal EXCEPT !.stage = "verified"]
    IN /\ At("deploy", "stage")
       /\ journal' = new /\ Goto("up") /\ faults' = faults
       /\ UNCHANGED <<pin, gen, running, latched, deploys, edits, crashes, others>>

StageEnv ==
    LET new == [journal EXCEPT !.stage = "env-updated"]
    IN /\ At("deploy", "stage")
       /\ \/ journal' = new /\ Goto("up") /\ faults' = faults
          \/ journal' \in {journal, new} /\ Stop /\ Fault
       /\ UNCHANGED <<pin, gen, running, latched, deploys, edits, crashes, others>>

-----------------------------------------------------------------------------
(***************************************************************************)
(* Steps shared with the repair.                                           *)
(***************************************************************************)
\* upWebGame recreates the container from the pin the env file holds now; a
\* failed recreate may leave the old container, none, or the new one.
Up == /\ proc.at = "up"
      /\ \/ running' = pin /\ Goto("verify") /\ faults' = faults
         \/ running' \in {running, NoImage, pin} /\ Stop /\ Fault
      /\ UNCHANGED <<pin, gen, journal, latched, deploys, edits, crashes, others>>

\* verifyWebGamePin against the approved pin, or the old one at "verifyOld".
VerifiesMutant(want) == running # NoImage
Verifies(want) == running = want

Verify ==
    /\ proc.at \in {"verify", "verifyOld"}
    /\ \/ /\ Verifies(IF proc.at = "verify" THEN proc.req.approved ELSE proc.req.expected)
          /\ Goto("clear") /\ faults' = faults
       \/ /\ ~Verifies(IF proc.at = "verify" THEN proc.req.approved ELSE proc.req.expected)
          /\ Stop /\ faults' = faults
       \/ Stop /\ Fault
    /\ UNCHANGED <<pin, gen, running, journal, latched, deploys, edits, crashes, others>>

\* clearLifecycleJournal: the file may stay, or go without the latch.
Clear ==
    /\ proc.at = "clear" /\ Stop
    /\ \/ journal' = NoJournal /\ latched' = FALSE /\ faults' = faults
       \/ journal' \in {journal, NoJournal} /\ latched' = latched /\ Fault
    /\ UNCHANGED <<pin, gen, running, deploys, edits, crashes, others>>

(***************************************************************************)
(* repairWebGameDeploy, under repairLifecycleJournal.                      *)
(***************************************************************************)
BeginRepair ==
    /\ proc = Idle /\ journal # NoJournal
    /\ latched' = TRUE
    /\ proc' = [who |-> "repair", at |-> "decide", req |-> journal.req]
    /\ UNCHANGED <<pin, gen, running, journal, deploys, faults, edits, crashes, others>>

\* The pin was never written: only the old image has to be confirmed.
NeverWritten == /\ pin = journal.req.expected /\ pin # journal.req.approved
                /\ journal.stage = "prepared"

MayRecreateMutant == pin = journal.req.approved /\ journal.stage = "env-updated"
MayRecreate == pin = journal.req.approved

Decide ==
    /\ At("repair", "decide")
    /\ \/ gen # journal.req.gen /\ Stop /\ faults' = faults
       \/ gen = journal.req.gen /\ NeverWritten /\ Goto("verifyOld") /\ faults' = faults
       \/ /\ gen = journal.req.gen /\ ~NeverWritten /\ faults' = faults
          /\ IF MayRecreate THEN Goto("up") ELSE Stop
       \/ Stop /\ Fault
    /\ UNCHANGED <<pin, gen, running, journal, latched, deploys, edits, crashes, others>>

-----------------------------------------------------------------------------
(***************************************************************************)
(* Everything else that touches the server.                                *)
(***************************************************************************)
\* A complete deploy, patch or reset of the server, under the same lease.
OtherOperation(p, g) ==
    /\ proc = Idle /\ ~Pending /\ others < MaxOthers
    /\ pin' = p /\ running' = p /\ gen' = g
    /\ others' = others + 1
    /\ UNCHANGED <<journal, latched, proc, deploys, faults, edits, crashes>>

\* The operator edits the files.  Assumed not to happen between the recreate
\* and the settling of the journal: the code checks the pin no later than that.
HostEdit(p, g) ==
    /\ edits < MaxEdits /\ proc.at \notin {"verify", "verifyOld", "clear"}
    /\ <<p, g>> # <<pin, gen>>
    /\ pin' = p /\ gen' = g
    /\ edits' = edits + 1
    /\ UNCHANGED <<running, journal, latched, proc, deploys, faults, crashes, others>>

Crash == /\ crashes < MaxCrashes /\ crashes' = crashes + 1
         /\ latched' = (journal # NoJournal) /\ Stop
         /\ UNCHANGED <<pin, gen, running, journal, deploys, faults, edits, others>>

Work == Pull \/ Recheck \/ WriteJournal \/ WritePin \/ StageEnv
        \/ Up \/ Verify \/ Clear \/ Decide

Step == \/ \E req \in Requests : Admit(req)
        \/ Work
        \/ BeginRepair
        \/ \E p \in Pins, g \in Generations : OtherOperation(p, g) \/ HostEdit(p, g)
        \/ Crash

Remember ==
    /\ origin' = IF journal = NoJournal \/ journal' = NoJournal THEN Value' ELSE origin
    /\ seen' = IF At("deploy", "recheck") /\ proc'.at = "journal" THEN edits ELSE seen

Next == Step /\ Remember

Spec == Init /\ [][Next]_vars

\* Steps end, and the operator asks for the repair again until it succeeds.
FairSpec == Spec /\ WF_vars(Work /\ Remember) /\ WF_vars(BeginRepair /\ Remember)

-----------------------------------------------------------------------------
(***************************************************************************)
(* Properties.                                                             *)
(***************************************************************************)
Stages == {"idle", "pull", "recheck", "journal", "pin", "stage", "up", "verify",
           "verifyOld", "clear", "decide"}

\* Every variable keeps its shape.
TypeOK ==
    /\ pin \in Pins /\ gen \in Generations /\ running \in Pins \cup {NoImage}
    /\ journal \in Journal \cup {NoJournal}
    /\ latched \in BOOLEAN
    /\ proc \in [who : {"none", "deploy", "repair"}, at : Stages,
                 req : Request \cup {NoRequest}]
    /\ seen \in 0..MaxEdits

\* The deployment keeps the journal's promise: it is written only for a server
\* that has the expected pin and identity, unless edited since the last check;
\* pin and container change only under it, and it is settled only when the
\* container runs the pin of the env file and that pin is the approved one, or
\* still the expected one.
Expected(i, a) == a.edits = i.seen => a.pin = i.req.expected /\ a.gen = i.req.gen
Settled(i, a, b) == b.running = b.pin /\ b.pin \in {i.req.expected, i.req.approved}
OneStep(a, b) == b.edits # a.edits \/ b.running = b.pin
Journalled == INSTANCE JournalledChange
    WITH NoIntent <- [req |-> NoRequest, seen |-> 0],
         Applies <- Expected, Whole <- OneStep, Reached <- Settled,
         intent <- IF journal = NoJournal THEN [req |-> NoRequest, seen |-> 0]
                   ELSE [req |-> journal.req, seen |-> seen],
         value <- Value
ChangeSpec == Journalled!ChangeSpec

\* Only what was approved is done.  A deployment replaces the pin it was
\* approved against and no other: whatever was deployed or edited since, up to
\* the last check, is kept.  A restart or a repair never gives the container an
\* image nobody approved: under a journal it only changes to the approved pin, or
\* goes away, unless the env file was edited meanwhile.
OnlyApproved ==
    [][/\ pin' # pin /\ At("deploy", "pin") /\ edits' = edits /\ edits = seen
            => pin = proc.req.expected
       /\ journal # NoJournal /\ edits' = origin.edits /\ running' # running
            => running' \in {NoImage, journal.req.approved}]_vars

\* Repairs settle every journal, whatever step failed or was cut by a restart,
\* unless the files were edited after the last check, or the container did not
\* run its pin before a promotion whose pin was never written.
Drifted == \/ edits # seen
           \/ origin.running # origin.pin /\ journal.req.expected # journal.req.approved
RepairConverges == journal # NoJournal ~> (journal = NoJournal \/ Drifted)

=============================================================================
