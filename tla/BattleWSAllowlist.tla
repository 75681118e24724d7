--------------------------- MODULE BattleWSAllowlist ---------------------------
(***************************************************************************)
(* The map of servers that nginx lets battle WebSockets through to: what   *)
(* the registry says, the file rendered from it, the routes nginx runs     *)
(* with, and the reload that brings the first to the last.  Only           *)
(* reloadSharedRegistry publishes the map, under the active lease, so one  *)
(* call runs at a time: the command line's --sync-battle-ws-allowlist is   *)
(* refused by earlyCommand before its branch of main is reached.           *)
(***************************************************************************)
EXTENDS Naturals, FiniteSets

CONSTANTS
    Servers,
    Long,        \* servers whose line nginx does not accept (too long to hash)
    NoMap,       \* no file
    Broken,      \* a registry that cannot be read
    NoCall,
    MaxChanges, MaxFaults  \* bounds

\* What a running call is at and has read.
CallRecord == [degraded : BOOLEAN, content : SUBSET Servers,
               previous : {NoMap} \cup SUBSET Servers,
               at : {"write", "chmod", "test", "restore", "recreate", "hup"}]

ASSUME AllowlistAssumption ==
    /\ Long \subseteq Servers /\ NoCall \notin CallRecord
    /\ (\A m \in SUBSET Servers : m # NoMap) /\ {MaxChanges, MaxFaults} \subseteq Nat

VARIABLES
    registry,   \* what the registry says of each server, or Broken
    map,        \* the map file
    routes,     \* the servers nginx routes to
    up,         \* nginx is running
    signalled,  \* a HUP that nginx has not handled
    call,       \* the running reload: its step, and what it has read
    answer,     \* what the last call said, "none" once the registry changed
    cut,        \* history: a crash or a fault has cut a call short
    changes, faults  \* counted against the bounds

vars == <<registry, map, routes, up, signalled, call, answer, cut, changes, faults>>

-----------------------------------------------------------------------------
Registry == {Broken} \cup [Servers -> {"absent", "ok", "repair", "foreign"}]

\* An unreadable registry, or one entry that is not canonical, closes everything.
Degraded(r) == r = Broken \/ \E s \in Servers : r[s] = "foreign"

\* renderBattleWSAllowlist
Rendered(r) == IF Degraded(r) THEN {} ELSE {s \in Servers : r[s] = "ok"}

\* What nginx makes of the file; a missing one is an empty map.
Loaded(m) == IF m = NoMap THEN {} ELSE m

\* Whether a test, a HUP or a start with this file succeeds.
Accepts(m) == Loaded(m) \cap Long = {}

Init == /\ registry \in Registry
        /\ map \in {NoMap, {}}
        /\ routes = {} /\ up = TRUE /\ signalled = FALSE
        /\ call = NoCall /\ answer = "none" /\ cut = FALSE
        /\ changes = 0 /\ faults = 0

-----------------------------------------------------------------------------
At(step) == call # NoCall /\ call.at = step
Go(step) == call' = [call EXCEPT !.at = step]
End(a) == call' = NoCall /\ answer' = a

Fault == faults < MaxFaults /\ faults' = faults + 1 /\ cut' = cut
CutShort == faults < MaxFaults /\ faults' = faults + 1 /\ cut' = TRUE
NoFault == UNCHANGED <<faults, cut>>

Success == {"ok", "degraded"}

\* A lifecycle worker, or an operator by hand, changes the registry.
ChangeRegistry(r) ==
    /\ call = NoCall /\ changes < MaxChanges /\ r # registry
    /\ registry' = r /\ changes' = changes + 1 /\ answer' = "none"
    /\ UNCHANGED <<map, routes, up, signalled, call, cut, faults>>

\* reloadSharedRegistry reads the registry and the map there is.
Begin ==
    /\ call = NoCall
    /\ \/ /\ call' = [at |-> "write", degraded |-> Degraded(registry),
                      content |-> Rendered(registry), previous |-> map]
          /\ UNCHANGED answer /\ NoFault
       \/ Fault /\ End("failed")
    /\ UNCHANGED <<registry, map, routes, up, signalled, changes>>

\* writeFileAtomicDurable: a failed directory sync leaves the new map in place.
Write ==
    /\ At("write")
    /\ \/ map' = call.content /\ Go("chmod") /\ UNCHANGED answer /\ NoFault
       \/ map' \in {map, call.content} /\ CutShort /\ End("failed")
    /\ UNCHANGED <<registry, routes, up, signalled, changes>>

Chmod ==
    /\ At("chmod")
    /\ \/ Go("test") /\ UNCHANGED answer /\ NoFault
       \/ CutShort /\ End("failed")
    /\ UNCHANGED <<registry, map, routes, up, signalled, changes>>

\* nginx -t in a container of its own; what it says is not passed on.
Test ==
    /\ At("test")
    /\ \/ Accepts(map) /\ Go("recreate") /\ NoFault
       \/ ~Accepts(map) /\ Go("restore") /\ NoFault
       \/ Go("restore") /\ Fault
    /\ UNCHANGED answer
    /\ UNCHANGED <<registry, map, routes, up, signalled, changes>>

\* The map there was before, or none, and an error in any case.
RestoredMutant(c) == IF c.previous = NoMap THEN c.content ELSE c.previous
Restored(c) == c.previous

Restore ==
    /\ At("restore")
    /\ \/ map' = Restored(call) /\ NoFault
       \/ map' \in {map, Restored(call)} /\ CutShort
    /\ End("failed")
    /\ UNCHANGED <<registry, routes, up, signalled, changes>>

\* up -d --no-deps web-gateway
Recreate ==
    /\ At("recreate")
    /\ \/ Go("hup") /\ UNCHANGED answer /\ NoFault
       \/ Fault /\ End("failed")
    /\ UNCHANGED <<registry, map, routes, up, signalled, changes>>

\* kill --signal HUP nginx fails when there is no nginx to signal.
HupMutant ==
    /\ At("hup")
    /\ \/ /\ up /\ signalled' = TRUE /\ NoFault
       \/ ~up /\ signalled' = FALSE /\ NoFault
       \/ Fault /\ signalled' \in {signalled, up}
    /\ End(IF call.degraded THEN "degraded" ELSE "ok")
    /\ UNCHANGED <<registry, map, routes, up, changes>>
Hup ==
    /\ At("hup")
    /\ \/ /\ up /\ signalled' = TRUE /\ NoFault
          /\ End(IF call.degraded THEN "degraded" ELSE "ok")
       \/ ~up /\ signalled' = FALSE /\ NoFault /\ End("failed")
       \/ Fault /\ End("failed") /\ signalled' \in {signalled, up}
    /\ UNCHANGED <<registry, map, routes, up, changes>>

\* nginx handles a HUP when it gets to it, and keeps what it has when the
\* configuration is refused.
HandleHup ==
    /\ signalled /\ signalled' = FALSE
    /\ routes' = IF ~Accepts(map) THEN routes ELSE Loaded(map)
    /\ UNCHANGED <<registry, map, up, call, answer, cut, changes, faults>>

\* nginx is started again by the host or an operator, and does not come up with
\* a refused configuration.
RestartNginx ==
    /\ signalled' = FALSE
    /\ up' = Accepts(map)
    /\ routes' = IF ~Accepts(map) THEN {} ELSE Loaded(map)
    /\ UNCHANGED <<registry, map, call, answer, cut, changes, faults>>

\* The process running the call dies between two steps.
Crash ==
    /\ call # NoCall /\ CutShort
    /\ call' = NoCall /\ answer' = "none"
    /\ UNCHANGED <<registry, map, routes, up, signalled, changes>>

CallStep == Write \/ Chmod \/ Test \/ Restore \/ Recreate \/ Hup

Next == \/ \E r \in Registry : ChangeRegistry(r)
        \/ Begin
        \/ CallStep \/ HandleHup \/ RestartNginx \/ Crash

Spec == Init /\ [][Next]_vars

\* Calls go on once begun, nginx handles its signals, and the reload is asked
\* for after a change, and again, by the lifecycle or by a repair, until one has
\* answered that the map is published.
FairSpec == /\ Spec /\ WF_vars(CallStep) /\ WF_vars(HandleHup)
            /\ WF_vars(RestartNginx /\ ~up)
            /\ SF_vars(Begin /\ answer \notin Success)

-----------------------------------------------------------------------------
(***************************************************************************)
(* Properties.                                                             *)
(***************************************************************************)

\* The map, the routes and the calls keep their shape.
TypeOK ==
    /\ registry \in Registry /\ map \in {NoMap} \cup SUBSET Servers
    /\ routes \in SUBSET Servers /\ up \in BOOLEAN /\ signalled \in BOOLEAN
    /\ call \in {NoCall} \cup CallRecord
    /\ answer \in {"none", "failed"} \cup Success

\* A reload that answers says what is there, whatever failed or was cut short
\* before.  The map is the one the registry renders to, with no route at all and
\* not called a success when the registry was unavailable, and nginx, once it
\* has handled its signal, routes to exactly those servers, also after it was
\* started again.
AnswerIsTrue ==
    /\ answer \in Success => map = Rendered(registry)
    /\ answer = "ok" => ~Degraded(registry)
    /\ answer \in Success /\ up /\ ~signalled => routes = Rendered(registry)

\* Nothing nginx was never allowed to load is left for its next start: between
\* calls the map is one that passes the test, unless one was cut short.
MapIsTested == call = NoCall /\ ~cut => Accepts(map)

MapIsSound == TypeOK /\ MapIsTested

\* A registry that stays as it is, with a map nginx accepts, is what nginx
\* routes by in the end, after any failure, restart or refused map before.
EventuallyPublished ==
    \A r \in Registry :
        <>[](registry = r) /\ Accepts(Rendered(r))
            => <>(routes = Rendered(r) /\ answer \in Success)

\* battle_ws_allowlist.go: "A failed config test restores the last valid map."
RestoresLastValid == [][At("restore") /\ call' = NoCall /\ faults' = faults => Accepts(map')]_vars

=============================================================================
