------------------------ MODULE BattleWSAllowlistProofs ------------------------
(***************************************************************************)
(* Theorems about the allowlist, for any servers, any maps nginx refuses   *)
(* and any number of changes and faults.                                   *)
(***************************************************************************)
EXTENDS BattleWSAllowlist, TLAPS

\* What the running call has read still holds, and what it has tested is in place.
CallIsCurrent ==
    call # NoCall =>
        /\ call.content = Rendered(registry) /\ call.degraded = Degraded(registry)
        /\ call.at \in {"chmod", "test", "recreate", "hup"} => map = call.content
        /\ call.at \in {"recreate", "hup"} => Accepts(map)
        /\ answer \in Success => call.previous = map
        /\ ~cut => Accepts(call.previous)

\* A success was said of a map nginx accepts.
AnswerIsAccepted == answer \in Success => Accepts(map)

\* nginx keeps to the map until it is asked to look again.
Inv == TypeOK /\ CallIsCurrent /\ AnswerIsTrue /\ AnswerIsAccepted /\ MapIsTested

LEMMA RenderedServers == \A r : Rendered(r) \in SUBSET Servers /\ Degraded(r) \in BOOLEAN
BY DEF Rendered, Degraded

LEMMA InitInv == Init => Inv
<1> SUFFICES ASSUME Init PROVE Inv
    OBVIOUS
<1>1. Accepts(map)
    BY DEF Init, Accepts, Loaded
<1> QED  BY <1>1 DEF Init, Inv, TypeOK, CallIsCurrent, AnswerIsTrue, AnswerIsAccepted,
            MapIsTested, Success

-----------------------------------------------------------------------------
(***************************************************************************)
(* The steps of a call.                                                    *)
(***************************************************************************)

\* What the steps before the last have in common.
Quiet == UNCHANGED <<registry, routes, up, signalled>>

\* A call whose steps do not disturb the routes ends in failure, or not yet.
LEMMA FailedInv ==
    ASSUME Inv, Quiet, call # NoCall, call' = NoCall, answer' \in {"none", "failed"},
           map' \in {NoMap} \cup SUBSET Servers, ~cut' => Accepts(map')
    PROVE  Inv'
BY DEF Inv, TypeOK, CallIsCurrent, AnswerIsTrue, AnswerIsAccepted, MapIsTested, Success, Quiet

LEMMA BeginInv == ASSUME Inv, Begin PROVE Inv'
<1>1. CASE End("failed") /\ Fault
    BY <1>1 DEF Begin, End, Fault, Inv, TypeOK, CallIsCurrent, AnswerIsTrue, AnswerIsAccepted,
       MapIsTested, Success
<1>2. CASE ~(End("failed") /\ Fault)
    <2> DEFINE r == [at |-> "write", degraded |-> Degraded(registry),
                     content |-> Rendered(registry), previous |-> map]
    <2>1. call = NoCall /\ call' = r /\ UNCHANGED <<registry, map, routes, up, signalled, answer, cut>>
        BY <1>2 DEF Begin, NoFault
    <2>2. r \in CallRecord
        BY RenderedServers DEF Inv, TypeOK, CallRecord
    <2>3. TypeOK'   BY <2>1, <2>2 DEF Inv, TypeOK
    <2>4. CallIsCurrent'
        BY <2>1 DEF Inv, CallIsCurrent, MapIsTested, Accepts, Loaded, Rendered, Degraded
    <2> QED  BY <2>1, <2>2, <2>3, <2>4, AllowlistAssumption
                DEF Inv, AnswerIsTrue, AnswerIsAccepted, MapIsTested, Accepts, Loaded, Rendered,
                    Degraded
<1> QED  BY <1>1, <1>2

\* A step from one point of a call to another, the map and the answer as they were.
LEMMA GoInv ==
    ASSUME Inv, Quiet, call # NoCall, UNCHANGED <<answer, cut>>,
           NEW to \in {"write", "chmod", "test", "restore", "recreate", "hup"}, Go(to),
           map' = map \/ to = "chmod",
           to \in {"chmod", "test", "recreate", "hup"} => map' = call.content,
           to \in {"recreate", "hup"} => Accepts(map)
    PROVE  Inv'
<1>1. /\ call \in CallRecord /\ call' \in CallRecord
      /\ call'.at = to /\ call'.content = call.content /\ call'.degraded = call.degraded
      /\ call'.previous = call.previous
    BY DEF Inv, TypeOK, CallRecord, Go
<1>2. map' \in {NoMap} \cup SUBSET Servers
    BY <1>1, AllowlistAssumption DEF Inv, TypeOK, CallRecord
<1>3. TypeOK'
    BY <1>1, <1>2 DEF Inv, TypeOK, Quiet
<1>4. answer \in Success => map' = map
    BY <1>1 DEF Inv, CallIsCurrent, AnswerIsTrue
<1>5. CASE map' = map
    BY <1>1, <1>3, <1>5, AllowlistAssumption
       DEF Inv, CallIsCurrent, AnswerIsTrue, AnswerIsAccepted, MapIsTested, Quiet, Success,
           Accepts, Loaded, Rendered, Degraded
<1>6. CASE map' # map
    <2>1. answer \notin Success /\ to = "chmod" /\ map' = call.content
        BY <1>4, <1>6
    <2> QED  BY <1>1, <1>3, <2>1, AllowlistAssumption
                DEF Inv, CallIsCurrent, AnswerIsTrue, AnswerIsAccepted, MapIsTested, Quiet, Success,
                    Accepts, Loaded, Rendered, Degraded
<1> QED  BY <1>5, <1>6

\* The call ends well: what it says is what there is.
LEMMA SucceededInv ==
    ASSUME Inv, call # NoCall, UNCHANGED <<registry, map, routes, up, cut>>, signalled' \in BOOLEAN,
           call.at = "hup", call' = NoCall, answer' \in Success,
           answer' = "ok" => ~call.degraded, signalled'
    PROVE  Inv'
<1>1. /\ map = Rendered(registry) /\ call.degraded = Degraded(registry) /\ Accepts(map)
      /\ answer' = "ok" => ~Degraded(registry)
    BY DEF Inv, CallIsCurrent
<1> QED  BY <1>1 DEF Inv, TypeOK, CallIsCurrent, AnswerIsTrue, AnswerIsAccepted, MapIsTested,
            Success, Accepts, Loaded, Rendered, Degraded

LEMMA CallTypes == ASSUME Inv, call # NoCall PROVE call \in CallRecord
BY DEF Inv, TypeOK

LEMMA WriteInv == ASSUME Inv, Write PROVE Inv'
<1>1. call # NoCall /\ Quiet /\ call.at = "write"
    BY DEF Write, At, Quiet
<1>2. call.content \in SUBSET Servers
    BY <1>1, CallTypes DEF CallRecord
<1>3. CASE map' = call.content /\ Go("chmod") /\ UNCHANGED answer /\ NoFault
    BY <1>1, <1>3, GoInv DEF NoFault
<1>4. CASE map' \in {map, call.content} /\ CutShort /\ End("failed")
    BY <1>1, <1>2, <1>4, FailedInv DEF CutShort, End, Inv, TypeOK
<1> QED  BY <1>3, <1>4 DEF Write

LEMMA ChmodInv == ASSUME Inv, Chmod PROVE Inv'
<1>1. call # NoCall /\ Quiet /\ map' = map /\ map = call.content
    BY DEF Chmod, At, Quiet, Inv, CallIsCurrent
<1>2. CASE Go("test") /\ UNCHANGED answer /\ NoFault
    BY <1>1, <1>2, GoInv DEF NoFault
<1>3. CASE CutShort /\ End("failed")
    BY <1>1, <1>3, FailedInv DEF CutShort, End, Inv, TypeOK
<1> QED  BY <1>2, <1>3 DEF Chmod

LEMMA TestInv == ASSUME Inv, Test PROVE Inv'
<1>1. /\ call # NoCall /\ Quiet /\ map' = map /\ map = call.content /\ call.at = "test"
      /\ UNCHANGED <<registry, routes, up, signalled>>
    BY DEF Test, At, Quiet, Inv, CallIsCurrent
<1>2. CASE Accepts(map) /\ Go("recreate") /\ UNCHANGED answer /\ cut' = cut
    BY <1>1, <1>2, GoInv
<1>3. CASE Go("restore") /\ UNCHANGED answer /\ cut' = cut
    BY <1>1, <1>3, GoInv
<1> QED  BY <1>2, <1>3 DEF Test, NoFault, Fault

LEMMA RestoreInv == ASSUME Inv, Restore PROVE Inv'
<1>1. /\ call # NoCall /\ Quiet /\ call' = NoCall /\ answer' = "failed"
    BY DEF Restore, At, Quiet, End
<1>2. call.previous \in {NoMap} \cup SUBSET Servers /\ (~cut => Accepts(call.previous))
    BY <1>1, CallTypes DEF CallRecord, Inv, CallIsCurrent
<1>3. CASE map' = Restored(call) /\ NoFault
    <2>1. map' = call.previous /\ cut' = cut
        BY <1>3 DEF Restored, NoFault, Inv, TypeOK
    <2> QED  BY <1>1, <1>2, <2>1, FailedInv
<1>4. CASE map' \in {map, Restored(call)} /\ CutShort
    BY <1>1, <1>2, <1>4, FailedInv DEF Restored, CutShort, Inv, TypeOK
<1> QED  BY <1>3, <1>4 DEF Restore

LEMMA RecreateInv == ASSUME Inv, Recreate PROVE Inv'
<1>1. call # NoCall /\ Quiet /\ map' = map /\ map = call.content /\ Accepts(map) /\ cut' = cut
    BY DEF Recreate, At, Quiet, Inv, CallIsCurrent, NoFault, Fault
<1>2. CASE Go("hup") /\ UNCHANGED answer /\ NoFault
    BY <1>1, <1>2, GoInv
<1>3. CASE Fault /\ End("failed")
    <2>1. map' \in {NoMap} \cup SUBSET Servers /\ Accepts(map')
        BY <1>1 DEF Inv, TypeOK
    <2> QED  BY <1>1, <1>3, <2>1, FailedInv DEF End
<1> QED  BY <1>2, <1>3 DEF Recreate

LEMMA HupInv == ASSUME Inv, Hup PROVE Inv'
<1>1. /\ call # NoCall /\ call.at = "hup" /\ Accepts(map) /\ call' = NoCall /\ cut' = cut
      /\ UNCHANGED <<registry, map, routes, up>> /\ signalled' \in BOOLEAN
    BY DEF Hup, At, Inv, CallIsCurrent, NoFault, Fault, End, TypeOK
<1>2. CASE signalled' = TRUE /\ End(IF call.degraded THEN "degraded" ELSE "ok")
    <2>1. answer' \in Success /\ (answer' = "ok" => ~call.degraded)
        BY <1>2 DEF End, Success
    <2> QED  BY <1>1, <1>2, <2>1, SucceededInv
<1>3. CASE answer' = "failed"
    BY <1>1, <1>3 DEF Inv, TypeOK, CallIsCurrent, AnswerIsTrue, AnswerIsAccepted, MapIsTested,
       Success, Accepts, Loaded
<1> QED  BY <1>2, <1>3 DEF Hup, End

LEMMA CrashInv == ASSUME Inv, Crash PROVE Inv'
BY FailedInv DEF Crash, CutShort, Quiet, Inv, TypeOK

-----------------------------------------------------------------------------
(***************************************************************************)
(* The registry and nginx.                                                 *)
(***************************************************************************)

LEMMA ChangeRegistryInv == ASSUME NEW r \in Registry, Inv, ChangeRegistry(r) PROVE Inv'
BY DEF ChangeRegistry, Inv, TypeOK, CallIsCurrent, AnswerIsTrue, AnswerIsAccepted, MapIsTested,
   Success, Accepts, Loaded

\* nginx, whichever way it came to look, has the map it accepts.
LEMMA NginxInv ==
    ASSUME Inv, UNCHANGED <<registry, map, call, answer, cut>>, signalled' = FALSE,
           up' \in BOOLEAN, routes' \in SUBSET Servers,
           Accepts(map) => routes' = Loaded(map)
    PROVE  Inv'
<1>1. answer \in Success => routes' = Rendered(registry)
    BY AllowlistAssumption, RenderedServers
       DEF Inv, AnswerIsAccepted, AnswerIsTrue, Success, Loaded
<1> QED  BY <1>1 DEF Inv, TypeOK, CallIsCurrent, AnswerIsTrue, AnswerIsAccepted, MapIsTested,
            Success, Accepts, Loaded, Rendered, Degraded

LEMMA LoadedServers == ASSUME TypeOK PROVE Loaded(map) \in SUBSET Servers /\ Accepts(map) \in BOOLEAN
BY DEF TypeOK, Loaded, Accepts

LEMMA NextInv == ASSUME Inv, [Next]_vars PROVE Inv'
<1>1. CASE CallStep
    BY <1>1, WriteInv, ChmodInv, TestInv, RestoreInv, RecreateInv, HupInv DEF CallStep
<1>2. CASE HandleHup
    BY <1>2, NginxInv, LoadedServers DEF HandleHup, Inv, TypeOK
<1>3. CASE RestartNginx
    BY <1>3, NginxInv, LoadedServers DEF RestartNginx, Inv, TypeOK
<1>4. CASE UNCHANGED vars
    BY <1>4 DEF vars, Inv, TypeOK, CallIsCurrent, AnswerIsTrue, AnswerIsAccepted, MapIsTested,
       Accepts, Loaded, Rendered, Degraded
<1> QED  BY <1>1, <1>2, <1>3, <1>4, BeginInv, CrashInv, ChangeRegistryInv DEF Next

-----------------------------------------------------------------------------
LEMMA Invariance == Spec => []Inv
BY InitInv, NextInv, PTL DEF Spec

\* Whatever failed or was cut short before, the answer of a reload says what the map and
\* nginx's routes are: for any servers and any number of faults.
THEOREM AnswersHold == Spec => []AnswerIsTrue
BY Invariance, PTL DEF Inv

\* No call that was not cut short leaves nginx a map it will not start with.
THEOREM MapHolds == Spec => []MapIsSound
<1>1. Inv => MapIsSound
    BY DEF Inv, MapIsSound
<1> QED  BY <1>1, Invariance, PTL
=============================================================================
