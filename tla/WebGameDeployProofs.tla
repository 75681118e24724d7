-------------------------- MODULE WebGameDeployProofs --------------------------
(***************************************************************************)
(* Theorems about the web-game deployment, for any pins, generations and   *)
(* approved requests, and any number of failures, edits and restarts.      *)
(***************************************************************************)
EXTENDS WebGameDeploy, TLAPS

Before == {"pull", "recheck", "journal"}
Under  == {"pin", "stage", "up", "verify", "verifyOld", "clear", "decide"}

Shape == /\ TypeOK /\ edits \in 0..MaxEdits /\ seen =< edits
         /\ origin.edits \in Nat /\ origin.edits =< edits
         /\ proc.at # "idle" => proc.req \in Request

\* The journal is the one of the process at work, and origin what it began at.
Covered ==
    /\ journal = NoJournal => origin = Value
    /\ proc.at \in Before => journal = NoJournal
    /\ proc.at \in Under => journal # NoJournal /\ journal.req = proc.req

\* What the process has found out still holds, but for edits of the env file.
Known ==
    /\ proc.at \in {"journal", "pin"} /\ edits = seen =>
           pin = proc.req.expected /\ gen = proc.req.gen
    /\ proc.at \in {"stage", "up"} /\ edits = origin.edits => pin = proc.req.approved
    /\ proc.at = "verify" => running = pin
    /\ proc.at = "verifyOld" => pin = proc.req.expected
    /\ proc.at = "clear" => running = pin /\ pin \in {proc.req.expected, proc.req.approved}

Inv == Shape /\ Covered /\ Known

LEMMA InitInv == Init => Inv
<1> SUFFICES ASSUME Init PROVE Inv
    OBVIOUS
<1>1. Idle.at = "idle" /\ Idle \in [who : {"none", "deploy", "repair"}, at : Stages,
                                    req : Request \cup {NoRequest}]
    BY DEF Idle, Stages
<1>2. proc.at = "idle"
    BY <1>1 DEF Init
<1>3. Shape
    <2>1. edits = 0 /\ seen = 0 /\ origin.edits = 0 /\ 0 \in 0..MaxEdits
        BY WebDeployAssumption DEF Init, Value
    <2>2. proc = Idle
        BY DEF Init
    <2>3. TypeOK
        BY <1>1, <2>1, <2>2 DEF Init, TypeOK
    <2> QED  BY <1>2, <2>1, <2>3 DEF Shape
<1>4. Covered
    BY <1>2 DEF Init, Covered, Before, Under
<1>5. Known
    BY <1>2 DEF Known
<1> QED  BY <1>3, <1>4, <1>5 DEF Inv

-----------------------------------------------------------------------------
(***************************************************************************)
(* What is remembered of a step.                                           *)
(***************************************************************************)

LEMMA Remembered ==
    ASSUME Inv, Remember, edits' \in 0..MaxEdits, edits =< edits'
    PROVE  /\ seen' \in 0..MaxEdits /\ seen' =< edits'
           /\ origin'.edits \in Nat /\ origin'.edits =< edits'
           /\ journal' = NoJournal => origin' = Value'
BY WebDeployAssumption DEF Remember, Inv, Shape, TypeOK, Value

LEMMA Types ==
    ASSUME Inv
    PROVE  /\ pin \in Pins /\ gen \in Generations /\ running \in Pins \cup {NoImage}
           /\ journal \in Journal \cup {NoJournal} /\ latched \in BOOLEAN
           /\ edits \in 0..MaxEdits /\ edits =< edits
BY DEF Inv, Shape, TypeOK

LEMMA Settling ==
    ASSUME Inv, Remember, edits' = edits, journal' = NoJournal
    PROVE  origin' = Value'
BY Remembered, Types

LEMMA StopInv ==
    ASSUME Inv, Remember, Stop, pin' \in Pins, gen' \in Generations,
           running' \in Pins \cup {NoImage}, journal' \in Journal \cup {NoJournal},
           latched' \in BOOLEAN, edits' \in 0..MaxEdits, edits =< edits'
    PROVE  Inv'
<1>1. proc'.at = "idle" /\ proc' \in [who : {"none", "deploy", "repair"}, at : Stages,
                                      req : Request \cup {NoRequest}]
    BY DEF Stop, Idle, Stages
<1> QED  BY <1>1, Remembered DEF Inv, Shape, TypeOK, Covered, Known, Before, Under

LEMMA GotoProc ==
    ASSUME Inv, NEW step \in Stages, Goto(step)
    PROVE  /\ proc' \in [who : {"none", "deploy", "repair"}, at : Stages,
                         req : Request \cup {NoRequest}]
           /\ proc'.at = step /\ proc'.req = proc.req /\ proc'.who = proc.who
BY DEF Inv, Shape, TypeOK, Goto

\* The process goes on to a step of a request it has.
LEMMA GotoShape ==
    ASSUME Inv, Remember, NEW step \in Stages, Goto(step), proc.at # "idle", pin' \in Pins,
           gen' = gen, running' \in Pins \cup {NoImage}, journal' \in Journal \cup {NoJournal},
           latched' \in BOOLEAN, edits' = edits
    PROVE  Shape'
BY GotoProc, Remembered DEF Inv, Shape, TypeOK

\* A step that leaves the journal on file leaves what it began at.
LEMMA SameOrigin ==
    ASSUME Remember, journal # NoJournal, journal' # NoJournal
    PROVE  origin' = origin
BY DEF Remember

LEMMA SameSeen ==
    ASSUME Remember, ~At("deploy", "recheck")
    PROVE  seen' = seen
BY DEF Remember

-----------------------------------------------------------------------------
(***************************************************************************)
(* The deployment.                                                         *)
(***************************************************************************)

LEMMA AdmitInv == ASSUME NEW req \in Requests, Inv, Remember, Admit(req) PROVE Inv'
<1>1. CASE ~Matches(req)
    BY <1>1, StopInv, Types DEF Admit, Stop
<1>2. CASE Matches(req)
    <2>1. /\ proc' = [who |-> "deploy", at |-> "pull", req |-> req] /\ req \in Request
          /\ journal = NoJournal /\ UNCHANGED <<pin, gen, running, journal, latched, edits>>
        BY <1>2, WebDeployAssumption DEF Admit, Pending
    <2>2. Shape'
        BY <2>1, Remembered DEF Inv, Shape, TypeOK, Stages
    <2>3. Covered' /\ Known'
        BY <2>1, Remembered DEF Inv, Shape, Covered, Known, Before, Under
    <2> QED  BY <2>2, <2>3 DEF Inv
<1> QED  BY <1>1, <1>2

LEMMA PullInv == ASSUME Inv, Remember, Pull PROVE Inv'
<1>1. /\ proc.at = "pull" /\ journal = NoJournal
      /\ UNCHANGED <<pin, gen, running, journal, latched, edits>>
    BY DEF Pull, At, Inv, Covered, Before
<1>2. CASE Stop
    BY <1>1, <1>2, StopInv, Types
<1>3. CASE Goto("recheck")
    <2>1. Shape'
        BY <1>1, <1>3, GotoShape, Types DEF Stages
    <2>2. proc'.at = "recheck"
        BY <1>3, GotoProc DEF Stages
    <2>3. Covered' /\ Known'
        BY <1>1, <2>2, Settling DEF Covered, Known, Under
    <2> QED  BY <2>1, <2>3 DEF Inv
<1> QED  BY <1>2, <1>3 DEF Pull

LEMMA RecheckInv == ASSUME Inv, Remember, Recheck PROVE Inv'
<1>1. /\ proc.at = "recheck" /\ journal = NoJournal
      /\ UNCHANGED <<pin, gen, running, journal, latched, edits>>
    BY DEF Recheck, At, Inv, Covered, Before
<1>2. CASE Stop
    BY <1>1, <1>2, StopInv, Types
<1>3. CASE Rechecked(proc.req) /\ Goto("journal")
    <2>1. Shape'
        BY <1>1, <1>3, GotoShape, Types DEF Stages
    <2>2. /\ proc'.at = "journal" /\ proc'.req = proc.req
          /\ pin' = proc.req.expected /\ gen' = proc.req.gen
        BY <1>1, <1>3, GotoProc DEF Stages, Rechecked, Matches
    <2>3. Covered'
        BY <1>1, <2>2, Settling DEF Covered, Under
    <2>4. Known'
        BY <2>2 DEF Known
    <2> QED  BY <2>1, <2>3, <2>4 DEF Inv
<1> QED  BY <1>2, <1>3 DEF Recheck

LEMMA WriteJournalInv == ASSUME Inv, Remember, WriteJournal PROVE Inv'
<1> DEFINE new == [req |-> proc.req, stage |-> "prepared"]
<1>1. /\ proc.at = "journal" /\ journal = NoJournal /\ ~At("deploy", "recheck")
      /\ UNCHANGED <<pin, gen, running, edits>>
    BY DEF WriteJournal, At, Inv, Covered, Before
<1>2. new \in Journal
    BY <1>1 DEF Inv, Shape, Journal
<1>3. new # NoJournal
    BY <1>2, WebDeployAssumption
<1>4. CASE journal' \in {NoJournal, new} /\ latched' = latched /\ Stop
    BY <1>1, <1>2, <1>4, StopInv, Types
<1>5. CASE journal' = new /\ latched' = TRUE /\ Goto("pin")
    <2>1. Shape'
        BY <1>1, <1>2, <1>5, GotoShape, Types DEF Stages
    <2>2. proc'.at = "pin" /\ proc'.req = proc.req /\ seen' = seen
        BY <1>1, <1>5, GotoProc, SameSeen DEF Stages
    <2>3. Covered'
        BY <1>3, <1>5, <2>2 DEF Covered, Before
    <2>4. Known'
        BY <1>1, <2>2 DEF Inv, Known
    <2> QED  BY <2>1, <2>3, <2>4 DEF Inv
<1> QED  BY <1>4, <1>5 DEF WriteJournal

LEMMA WritePinInv == ASSUME Inv, Remember, WritePin PROVE Inv'
<1>1. /\ proc.at = "pin" /\ journal # NoJournal /\ journal \in Journal /\ proc.req \in Request
      /\ UNCHANGED <<gen, running, journal, latched, edits>>
    BY DEF WritePin, At, Inv, Covered, Under, Shape, TypeOK
<1>2. proc.req.approved \in Pins
    BY <1>1 DEF Request
<1>3. CASE pin' \in {pin, proc.req.approved} /\ Stop
    BY <1>1, <1>2, <1>3, StopInv, Types
<1>4. CASE pin' = proc.req.approved /\ Goto("stage")
    <2>1. Shape'
        BY <1>1, <1>2, <1>4, GotoShape, Types DEF Stages
    <2>2. proc'.at = "stage" /\ proc'.req = proc.req
        BY <1>4, GotoProc DEF Stages
    <2>3. Covered' /\ Known'
        BY <1>1, <1>4, <2>2 DEF Inv, Covered, Known, Before, Under
    <2> QED  BY <2>1, <2>3 DEF Inv
<1> QED  BY <1>3, <1>4 DEF WritePin

LEMMA StageEnvInv == ASSUME Inv, Remember, StageEnv PROVE Inv'
<1> DEFINE new == [journal EXCEPT !.stage = "env-updated"]
<1>1. /\ proc.at = "stage" /\ journal # NoJournal /\ journal \in Journal
      /\ UNCHANGED <<pin, gen, running, latched, edits>>
    BY DEF StageEnv, At, Inv, Covered, Under, Shape, TypeOK
<1>2. new \in Journal /\ new.req = journal.req
    BY <1>1 DEF Journal
<1>3. new # NoJournal
    BY <1>2, WebDeployAssumption
<1>4. CASE journal' \in {journal, new} /\ Stop
    BY <1>1, <1>2, <1>4, StopInv, Types
<1>5. CASE journal' = new /\ Goto("up")
    <2>1. Shape'
        BY <1>1, <1>2, <1>5, GotoShape, Types DEF Stages
    <2>2. proc'.at = "up" /\ proc'.req = proc.req /\ origin' = origin
        BY <1>1, <1>3, <1>5, GotoProc, SameOrigin DEF Stages
    <2>3. Covered'
        BY <1>1, <1>2, <1>3, <1>5, <2>2 DEF Inv, Covered, Before, Under
    <2>4. Known'
        BY <1>1, <2>2 DEF Inv, Known
    <2> QED  BY <2>1, <2>3, <2>4 DEF Inv
<1> QED  BY <1>4, <1>5 DEF StageEnv

-----------------------------------------------------------------------------
(***************************************************************************)
(* The steps shared with the repair, and the repair.                       *)
(***************************************************************************)

LEMMA UpInv == ASSUME Inv, Remember, Up PROVE Inv'
<1>1. /\ proc.at = "up" /\ journal # NoJournal /\ UNCHANGED <<pin, gen, journal, latched, edits>>
      /\ pin \in Pins /\ running \in Pins \cup {NoImage}
    BY DEF Up, Inv, Covered, Under, Shape, TypeOK
<1>2. CASE running' \in {running, NoImage, pin} /\ Stop
    BY <1>1, <1>2, StopInv, Types
<1>3. CASE running' = pin /\ Goto("verify")
    <2>1. Shape'
        BY <1>1, <1>3, GotoShape, Types DEF Stages
    <2>2. proc'.at = "verify" /\ proc'.req = proc.req
        BY <1>3, GotoProc DEF Stages
    <2>3. Covered' /\ Known'
        BY <1>1, <1>3, <2>2 DEF Inv, Covered, Known, Before, Under
    <2> QED  BY <2>1, <2>3 DEF Inv
<1> QED  BY <1>2, <1>3 DEF Up

LEMMA VerifyInv == ASSUME Inv, Remember, Verify PROVE Inv'
<1>1. /\ proc.at \in {"verify", "verifyOld"} /\ journal # NoJournal
      /\ UNCHANGED <<pin, gen, running, journal, latched, edits>>
    BY DEF Verify, Inv, Covered, Under
<1>2. CASE Stop
    BY <1>1, <1>2, StopInv, Types
<1>3. CASE /\ Verifies(IF proc.at = "verify" THEN proc.req.approved ELSE proc.req.expected)
           /\ Goto("clear")
    <2>1. Shape'
        BY <1>1, <1>3, GotoShape, Types DEF Stages
    <2>2. proc'.at = "clear" /\ proc'.req = proc.req
        BY <1>3, GotoProc DEF Stages
    <2>3. running = pin /\ pin \in {proc.req.expected, proc.req.approved}
        BY <1>1, <1>3 DEF Verifies, Inv, Known
    <2>4. Covered' /\ Known'
        BY <1>1, <2>2, <2>3 DEF Inv, Covered, Known, Before, Under
    <2> QED  BY <2>1, <2>4 DEF Inv
<1> QED  BY <1>2, <1>3 DEF Verify

LEMMA ClearInv == ASSUME Inv, Remember, Clear PROVE Inv'
BY StopInv, Types DEF Clear

LEMMA BeginRepairInv == ASSUME Inv, Remember, BeginRepair PROVE Inv'
<1>1. /\ journal # NoJournal /\ proc' = [who |-> "repair", at |-> "decide", req |-> journal.req]
      /\ latched' = TRUE /\ UNCHANGED <<pin, gen, running, journal, edits>>
    BY DEF BeginRepair
<1>2. journal.req \in Request
    BY <1>1 DEF Inv, Shape, TypeOK, Journal
<1>3. Shape'
    BY <1>1, <1>2, Remembered DEF Inv, Shape, TypeOK, Stages
<1>4. Covered' /\ Known'
    BY <1>1 DEF Covered, Known, Before, Under
<1> QED  BY <1>3, <1>4 DEF Inv

LEMMA DecideInv == ASSUME Inv, Remember, Decide PROVE Inv'
<1>1. /\ proc.at = "decide" /\ journal # NoJournal /\ journal.req = proc.req
      /\ UNCHANGED <<pin, gen, running, journal, latched, edits>>
    BY DEF Decide, At, Inv, Covered, Under
<1>2. CASE Stop
    BY <1>1, <1>2, StopInv, Types
<1>3. CASE NeverWritten /\ Goto("verifyOld")
    <2>1. Shape'
        BY <1>1, <1>3, GotoShape, Types DEF Stages
    <2>2. proc'.at = "verifyOld" /\ proc'.req = proc.req
        BY <1>3, GotoProc DEF Stages
    <2>3. Covered' /\ Known'
        BY <1>1, <1>3, <2>2 DEF NeverWritten, Inv, Covered, Known, Before, Under
    <2> QED  BY <2>1, <2>3 DEF Inv
<1>4. CASE MayRecreate /\ Goto("up")
    <2>1. Shape'
        BY <1>1, <1>4, GotoShape, Types DEF Stages
    <2>2. proc'.at = "up" /\ proc'.req = proc.req
        BY <1>4, GotoProc DEF Stages
    <2>3. Covered' /\ Known'
        BY <1>1, <1>4, <2>2 DEF MayRecreate, Inv, Covered, Known, Before, Under
    <2> QED  BY <2>1, <2>3 DEF Inv
<1> QED  BY <1>2, <1>3, <1>4 DEF Decide

-----------------------------------------------------------------------------
(***************************************************************************)
(* Everything else.                                                        *)
(***************************************************************************)

LEMMA OtherOperationInv ==
    ASSUME NEW p \in Pins, NEW g \in Generations, Inv, Remember, OtherOperation(p, g)
    PROVE  Inv'
BY StopInv, Types DEF OtherOperation, Stop

LEMMA HostEditInv ==
    ASSUME NEW p \in Pins, NEW g \in Generations, Inv, Remember, HostEdit(p, g)
    PROVE  Inv'
<1>1. /\ proc' = proc /\ pin' = p /\ gen' = g /\ edits' = edits + 1 /\ edits < MaxEdits
      /\ UNCHANGED <<running, journal, latched>>
      /\ proc.at \notin {"verify", "verifyOld", "clear"}
    BY DEF HostEdit
<1>2. edits' \in 0..MaxEdits /\ edits =< edits' /\ seen' = seen
    BY <1>1, WebDeployAssumption DEF Inv, Shape, Remember, At
<1>3. Shape'
    BY <1>1, <1>2, Remembered DEF Inv, Shape, TypeOK
<1>4. Covered'
    BY <1>1, <1>2, Remembered DEF Inv, Covered
<1>5. proc.at \in {"stage", "up"} => origin' = origin
    BY <1>1, SameOrigin DEF Inv, Covered, Under
<1>6. Known'
    BY <1>1, <1>2, <1>5 DEF Inv, Shape, Known
<1> QED  BY <1>3, <1>4, <1>6 DEF Inv

LEMMA CrashInv == ASSUME Inv, Remember, Crash PROVE Inv'
BY StopInv, Types DEF Crash

LEMMA NextInv == ASSUME Inv, [Next]_vars PROVE Inv'
<1>1. CASE Work /\ Remember
    BY <1>1, PullInv, RecheckInv, WriteJournalInv, WritePinInv, StageEnvInv, UpInv, VerifyInv,
       ClearInv, DecideInv DEF Work
<1>2. CASE UNCHANGED vars
    BY <1>2 DEF vars, Inv, Shape, TypeOK, Covered, Value, Known
<1> QED  BY <1>1, <1>2, AdmitInv, BeginRepairInv, OtherOperationInv, HostEditInv, CrashInv
            DEF Next, Step

-----------------------------------------------------------------------------
LEMMA Invariance == Spec => []Inv
BY InitInv, NextInv, PTL DEF Spec

\* Every variable keeps its shape.
THEOREM TypeCorrect == Spec => []TypeOK
BY Invariance, PTL DEF Inv, Shape

\* A deployment replaces the pin it was approved against and no other, and under a
\* journal the container only changes to the approved pin or goes away, for any
\* requests, failures, restarts and repairs, unless the files were edited meanwhile.
THEOREM OnlyApprovedHolds == Spec => OnlyApproved
<1> DEFINE Approved ==
        /\ pin' # pin /\ At("deploy", "pin") /\ edits' = edits /\ edits = seen
             => pin = proc.req.expected
        /\ journal # NoJournal /\ edits' = origin.edits /\ running' # running
             => running' \in {NoImage, journal.req.approved}
<1>1. Inv => (At("deploy", "pin") /\ edits = seen => pin = proc.req.expected)
    BY DEF Inv, Known, At
<1>2. ASSUME Inv, Next, journal # NoJournal, edits' = origin.edits, running' # running
      PROVE  running' \in {NoImage, journal.req.approved}
    <2>1. ASSUME Up PROVE running' \in {NoImage, journal.req.approved}
        BY <1>2, <2>1 DEF Up, Inv, Covered, Known, Under
    <2> QED  BY <1>2, <2>1
                DEF Next, Step, Work, Admit, Pull, Recheck, WriteJournal, WritePin, StageEnv, Verify,
                    Clear, Decide, BeginRepair, OtherOperation, Pending, HostEdit, Crash
<1>3. Inv /\ [Next]_vars => [Approved]_vars
    BY <1>1, <1>2
<1> QED  BY <1>3, Invariance, PTL DEF Spec, OnlyApproved

-----------------------------------------------------------------------------
(***************************************************************************)
(* The deployment keeps the promise of the journal.                        *)
(***************************************************************************)

NoIntent == [req |-> NoRequest, seen |-> 0]
Intent == IF journal = NoJournal THEN NoIntent ELSE [req |-> journal.req, seen |-> seen]

LEMMA IntentOnFile == ASSUME Inv PROVE Intent = NoIntent <=> journal = NoJournal
<1>1. journal # NoJournal => journal.req \in Request
    BY Types DEF Journal
<1>2. journal # NoJournal => Intent.req = journal.req
    BY DEF Intent
<1>3. NoIntent.req = NoRequest
    BY DEF NoIntent
<1> QED  BY <1>1, <1>2, <1>3, WebDeployAssumption DEF Intent

\* Without a journal before and after, a step is complete by itself.
LEMMA TouchStep ==
    ASSUME Inv, Next, journal = NoJournal, journal' = NoJournal
    PROVE  Value' = Value \/ OneStep(Value, Value')
<1>1. ASSUME NEW p \in Pins, NEW g \in Generations, OtherOperation(p, g)
      PROVE  Value'.running = Value'.pin
    BY <1>1 DEF OtherOperation, Value
<1>2. ASSUME NEW p \in Pins, NEW g \in Generations, HostEdit(p, g)
      PROVE  Value'.edits # Value.edits
    <2>1. edits' = edits + 1 /\ edits \in 0..MaxEdits
        BY <1>2, Types DEF HostEdit
    <2> QED  BY <2>1, WebDeployAssumption DEF Value
<1>3. ~Up /\ ~WritePin
    BY DEF Inv, Covered, Under, Up, WritePin, At
<1>4. ASSUME ~(\E p \in Pins, g \in Generations : OtherOperation(p, g) \/ HostEdit(p, g))
      PROVE  UNCHANGED <<pin, gen, running, edits>>
    BY <1>3, <1>4 DEF Next, Step, Work, Admit, Pull, Recheck, WriteJournal, StageEnv, Verify,
       Clear, Decide, BeginRepair, Crash
<1> QED  BY <1>1, <1>2, <1>4 DEF OneStep, Value

\* A step that writes or removes the journal changes nothing else.  It writes it only
\* for the pin and the identity its request expects, and removes it only when the
\* container runs one of the pins of the request.
LEMMA JournalStep ==
    ASSUME Inv, Next, (journal = NoJournal) # (journal' = NoJournal)
    PROVE  /\ Value' = Value
           /\ journal # NoJournal => Settled(Intent, origin, Value)
           /\ journal = NoJournal => Expected(Intent', Value)
<1>1. WriteJournal \/ Clear
    BY WebDeployAssumption, Types
       DEF Next, Step, Work, Admit, Pull, Recheck, WritePin, StageEnv, Up, Verify, Decide, BeginRepair,
           OtherOperation, HostEdit, Crash, Inv, Covered, Under, At, Journal
<1>2. CASE WriteJournal
    <2>1. /\ journal = NoJournal /\ journal' # NoJournal /\ Value' = Value
          /\ proc.at = "journal" /\ seen' = seen
        BY <1>2, SameSeen DEF WriteJournal, At, Inv, Covered, Before, Value, Next
    <2>2. journal' = [req |-> proc.req, stage |-> "prepared"]
        BY <1>2, <2>1 DEF WriteJournal
    <2>3. Intent' = [req |-> proc.req, seen |-> seen]
        BY <2>1, <2>2 DEF Intent
    <2>4. edits = seen => pin = proc.req.expected /\ gen = proc.req.gen
        BY <2>1 DEF Inv, Known
    <2>5. Expected(Intent', Value)
        BY <2>3, <2>4 DEF Expected, Value
    <2> QED  BY <2>1, <2>5
<1>3. CASE Clear
    <2>1. /\ journal # NoJournal /\ journal.req = proc.req /\ Value' = Value
          /\ running = pin /\ pin \in {proc.req.expected, proc.req.approved}
        BY <1>3 DEF Clear, Inv, Covered, Known, Under, Value
    <2>2. Intent.req = journal.req
        BY <2>1 DEF Intent
    <2> QED  BY <2>1, <2>2 DEF Settled, Value
<1> QED  BY <1>1, <1>2, <1>3

\* While a journal stays on file it names the same request and the same origin.
LEMMA WorkStep ==
    ASSUME Inv, Next, journal # NoJournal, journal' # NoJournal
    PROVE  Intent' = Intent /\ origin' = origin
<1>1. journal \in Journal
    BY Types
<1>2. ~WriteJournal /\ ~At("deploy", "recheck")
    BY DEF WriteJournal, At, Inv, Covered, Before
<1>3. journal' = journal \/ journal' = [journal EXCEPT !.stage = "env-updated"]
    BY <1>2 DEF Next, Step, Work, Admit, Pull, Recheck, WritePin, StageEnv, Up, Verify, Clear, Decide,
       BeginRepair, OtherOperation, HostEdit, Crash
<1>4. journal'.req = journal.req
    BY <1>1, <1>3 DEF Journal
<1>5. seen' = seen
    BY <1>2, SameSeen DEF Next
<1> QED  BY <1>4, <1>5, SameOrigin DEF Next, Intent

\* A deployment's journal is written only for a server that has the pin and the
\* identity it was approved against, unless edited since the last check; pin and
\* container change only under the journal, or completely in one step, and the journal
\* is withdrawn only when the container runs the pin of the env file and that is the
\* approved or still the expected one.
THEOREM KeepsJournalPromise == Spec => ChangeSpec
<1>1. Init => Journalled!ChangeInit
    BY DEF Init, Journalled!ChangeInit
<1>2. ASSUME Inv, Inv', [Next]_vars
      PROVE  [Journalled!ChangeNext]_(Journalled!changeVars)
    <2>1. CASE UNCHANGED vars
        BY <2>1 DEF vars, Journalled!changeVars, Value
    <2>2. CASE Next /\ journal = NoJournal /\ journal' = NoJournal
        <3>1. origin = Value /\ origin' = Value' /\ Intent = NoIntent /\ Intent' = NoIntent
            BY <1>2, <2>2 DEF Inv, Covered, Intent
        <3>2. Value' = Value \/ OneStep(Value, Value')
            BY <1>2, <2>2, TouchStep
        <3>3. CASE Value' = Value
            BY <3>1, <3>3 DEF Journalled!changeVars, Intent, NoIntent
        <3>4. CASE OneStep(Value, Value')
            BY <3>1, <3>4 DEF Journalled!ChangeNext, Journalled!Touch, Intent, NoIntent
        <3> QED  BY <3>2, <3>3, <3>4
    <2>3. CASE Next /\ journal = NoJournal /\ journal' # NoJournal
        <3>1. /\ Value' = Value /\ origin' = Value' /\ Intent = NoIntent
              /\ Intent' # NoIntent /\ Expected(Intent', Value)
            <4>1. journal'.req \in Request
                BY <1>2, <2>3 DEF Inv, Shape, TypeOK, Journal
            <4>2. Intent'.req = journal'.req /\ NoIntent.req = NoRequest
                BY <2>3 DEF Intent, NoIntent
            <4>3. Intent' # NoIntent
                BY <4>1, <4>2, WebDeployAssumption
            <4> QED  BY <1>2, <2>3, <4>3, JournalStep DEF Next, Remember, Intent
        <3> QED  BY <3>1 DEF Journalled!ChangeNext, Journalled!Announce, Intent, NoIntent
    <2>4. CASE Next /\ journal # NoJournal /\ journal' # NoJournal
        <3>1. Intent # NoIntent /\ Intent' = Intent /\ origin' = origin
            BY <1>2, <2>4, IntentOnFile, WorkStep DEF Intent
        <3> QED  BY <3>1 DEF Journalled!ChangeNext, Journalled!Work, Intent, NoIntent
    <2>5. CASE Next /\ journal # NoJournal /\ journal' = NoJournal
        <3>1. /\ Intent # NoIntent /\ Intent' = NoIntent
              /\ Value' = Value /\ origin' = Value'
              /\ Settled(Intent, origin, Value)
            BY <1>2, <2>5, IntentOnFile, JournalStep DEF Next, Remember, Intent
        <3> QED  BY <3>1 DEF Journalled!ChangeNext, Journalled!Withdraw, Intent, NoIntent
    <2> QED  BY <1>2, <2>1, <2>2, <2>3, <2>4, <2>5
<1> QED  BY <1>1, <1>2, Invariance, PTL DEF Spec, ChangeSpec, Journalled!ChangeSpec
=============================================================================
