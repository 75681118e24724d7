------------------------- MODULE OperationPollerProofs -------------------------
(***************************************************************************)
(* Theorems about the poller, for any deadlines, intervals, request limit, *)
(* outages and slowness of the host.                                       *)
(***************************************************************************)
EXTENDS OperationPoller, TLAPS

\* The types, the deadlines of the run included.
Shape == /\ TypeOK
         /\ deadline \in Nat /\ interval \in Nat /\ slow \in Nat /\ won \in Nat
         /\ clock >= 1

\* The request and the sleep under way end before the deadline, and the clock is
\* past it by no more than the host was slow.
InTime ==
    /\ at = "check" => clock =< 1 + slow \/ clock =< deadline + slow
    /\ at \in {"request", "asking", "pause", "sleep"} => clock =< deadline + slow
    /\ at = "request" => clock + timeout =< deadline + slow
    /\ at \in {"asking", "sleep"} => due =< deadline + slow

\* What the script has heard still holds.
Heard ==
    /\ answer \in Terminal => status = answer
    /\ won # Never <=> status = "succeeded"
    /\ exit = "succeeded" => status = "succeeded"
    /\ exit = "terminal" => status \in {"failed", "cancelled"}

\* How long ago the operation may have succeeded without the script knowing: an
\* answer that says otherwise was given before, in the request's time limit.
Round == won + RequestTimeout + slow
Lately ==
    /\ at \in {"request", "asking"} => timeout =< RequestTimeout
    /\ at = "request" => answer = "none"
    /\ at = "asking" => due =< clock + timeout
    /\ at = "sleep" => due =< clock + interval
    /\ at = "asking" /\ answer \in Waiting /\ won # Never => due =< won + timeout
    /\ at = "pause" /\ won # Never => clock =< Round
    /\ at = "sleep" /\ won # Never => due =< Round + interval /\ clock =< Round + interval
    /\ at = "check" /\ won # Never => clock =< Round + interval
    /\ exit = "deadline" => /\ deadline =< clock
                            /\ won # Never => deadline =< Round + interval

Inv == Shape /\ InTime /\ Heard /\ Lately

LEMMA InitInv == Init => Inv
BY PollerAssumption
   DEF Init, Inv, Shape, TypeOK, InTime, Heard, Lately, Never, Statuses, Waiting, Terminal

-----------------------------------------------------------------------------
(***************************************************************************)
(* Each step of the script, the deployer, the clock and the operation      *)
(* preserves the invariant.                                                *)
(***************************************************************************)

LEMMA CheckInv == ASSUME Inv, Check PROVE Inv'
<1>1. CASE Expired /\ End("deadline")
    BY <1>1, PollerAssumption DEF Check, Expired, End, Inv, Shape, TypeOK, InTime, Heard,
       Lately, Round, world, Never
<1>2. CASE ~Expired /\ at' = "request" /\ timeout' = Limit /\ answer' = "none"
             /\ UNCHANGED <<due, exit>>
    <2>1. /\ Limit \in Nat /\ Limit =< RequestTimeout /\ clock + Limit =< deadline
        BY <1>2, PollerAssumption DEF Limit, Least, Remaining, Expired, Inv, Shape, TypeOK
    <2> QED  BY <1>2, <2>1, PollerAssumption DEF Check, Inv, Shape, TypeOK, InTime, Heard,
                Lately, Round, world, Never, Waiting, Terminal, Statuses
<1> QED  BY <1>1, <1>2 DEF Check

LEMMA RequestInv == ASSUME Inv, Request PROVE Inv'
<1>1. Shape'   BY DEF Request, Inv, Shape, TypeOK, world
<1>2. InTime'  BY DEF Request, Inv, Shape, TypeOK, InTime, world
<1>3. Heard'   BY DEF Request, Inv, Heard, world
<1>4. Lately'
    BY PollerAssumption DEF Request, Inv, Shape, TypeOK, Heard, Lately, Round, world, Never, Waiting
<1> QED  BY <1>1, <1>2, <1>3, <1>4 DEF Inv

LEMMA ServeInv == ASSUME Inv, Serve PROVE Inv'
<1>1. Shape'   BY DEF Serve, Inv, Shape, TypeOK, world
<1>2. InTime'  BY DEF Serve, Inv, Shape, TypeOK, InTime, world
<1>3. Heard'   BY DEF Serve, Inv, Heard, world
<1>4. Lately'
    BY PollerAssumption DEF Serve, Inv, Shape, TypeOK, Heard, Lately, Round, world, Never, Waiting
<1> QED  BY <1>1, <1>2, <1>3, <1>4 DEF Inv

LEMMA NoAnswerInv == ASSUME Inv, NoAnswer PROVE Inv'
<1>1. Shape'   BY DEF NoAnswer, End, Inv, Shape, TypeOK, world
<1>2. InTime'  BY DEF NoAnswer, End, Inv, Shape, TypeOK, InTime, world
<1>3. Heard'   BY DEF NoAnswer, End, Inv, Heard, world
<1>4. Lately'  BY DEF NoAnswer, End, Inv, Shape, TypeOK, Lately, Round, world, Never
<1> QED  BY <1>1, <1>2, <1>3, <1>4 DEF Inv

LEMMA AnsweredInv == ASSUME Inv, Answered PROVE Inv'
<1>1. CASE Verdict(answer) = "none"
    <2>0. answer \in Waiting
        BY <1>1 DEF Verdict
    <2>1. /\ at = "asking" /\ clock =< due
          /\ at' = "pause" \/ at' = "check"
          /\ UNCHANGED <<timeout, due, answer, exit, deadline, interval, clock, status, won, slow>>
        BY <1>1 DEF Answered, world
    <2>2. Shape'   BY <2>1 DEF Inv, Shape, TypeOK
    <2>3. InTime'  BY <2>1 DEF Inv, Shape, TypeOK, InTime
    <2>4. Heard'   BY <2>1 DEF Inv, Heard
    <2>5. won # Never => clock =< Round
        BY <2>0, <2>1, PollerAssumption DEF Inv, Shape, TypeOK, Lately, Round, Never
    <2>6. Lately'
        BY <2>1, <2>5, PollerAssumption DEF Inv, Shape, TypeOK, Lately, Round, Never
    <2> QED  BY <2>2, <2>3, <2>4, <2>6 DEF Inv
<1>2. CASE Verdict(answer) # "none"
    <2>1. /\ at' = "done" /\ exit' = Verdict(answer)
          /\ UNCHANGED <<timeout, due, answer, deadline, interval, clock, status, won, slow>>
        BY <1>2 DEF Answered, End, world
    <2>2. /\ answer \in Terminal /\ status = answer
          /\ Verdict(answer) = "succeeded" => status = "succeeded"
          /\ Verdict(answer) = "terminal" => status \in {"failed", "cancelled"}
          /\ Verdict(answer) \in {"succeeded", "terminal"}
        BY <1>2 DEF Answered, Verdict, Inv, Shape, TypeOK, Heard, Statuses, Waiting, Terminal
    <2>3. Shape'   BY <2>1, <2>2 DEF Inv, Shape, TypeOK
    <2>4. InTime'  BY <2>1 DEF Inv, Shape, TypeOK, InTime
    <2>5. Heard'   BY <2>1, <2>2 DEF Inv, Heard
    <2>6. Lately'  BY <2>1, <2>2 DEF Inv, Shape, TypeOK, Lately, Round, Never
    <2> QED  BY <2>3, <2>4, <2>5, <2>6 DEF Inv
<1> QED  BY <1>1, <1>2

LEMMA PauseInv == ASSUME Inv, Pause PROVE Inv'
<1>1. CASE Expired /\ End("deadline")
    <2>1. Shape'   BY <1>1 DEF Pause, End, Inv, Shape, TypeOK, world
    <2>2. InTime'  BY <1>1 DEF Pause, End, Inv, Shape, TypeOK, InTime, world
    <2>3. Heard'   BY <1>1 DEF Pause, End, Inv, Heard, world
    <2>4. Lately'
        BY <1>1, PollerAssumption
           DEF Pause, Expired, End, Inv, Shape, TypeOK, Lately, Round, world, Never
    <2> QED  BY <2>1, <2>2, <2>3, <2>4 DEF Inv
<1>2. CASE ~Expired /\ at' = "sleep" /\ timeout' = Nap /\ due' = clock + Nap
             /\ UNCHANGED <<answer, exit>>
    <2>0. /\ Nap \in Nat /\ Nap =< interval /\ clock + Nap =< deadline
        BY <1>2 DEF Nap, Least, Remaining, Expired, Inv, Shape, TypeOK
    <2>1. Shape'   BY <1>2, <2>0 DEF Pause, Inv, Shape, TypeOK, world
    <2>2. InTime'  BY <1>2, <2>0 DEF Pause, Inv, Shape, TypeOK, InTime, world
    <2>3. Heard'   BY <1>2 DEF Pause, Inv, Heard, world
    <2>4. Lately'
        BY <1>2, <2>0, PollerAssumption DEF Pause, Inv, Shape, TypeOK, Lately, Round, world, Never
    <2> QED  BY <2>1, <2>2, <2>3, <2>4 DEF Inv
<1> QED  BY <1>1, <1>2 DEF Pause

LEMMA WakeInv == ASSUME Inv, Wake PROVE Inv'
<1>1. Shape'   BY DEF Wake, Inv, Shape, TypeOK, world
<1>2. InTime'  BY DEF Wake, Inv, Shape, TypeOK, InTime, world
<1>3. Heard'   BY DEF Wake, Inv, Heard, world
<1>4. Lately'  BY PollerAssumption DEF Wake, Inv, Shape, TypeOK, Lately, Round, world, Never
<1> QED  BY <1>1, <1>2, <1>3, <1>4 DEF Inv

LEMMA TickInv == ASSUME Inv, Tick PROVE Inv'
<1>1. Shape'   BY DEF Tick, Inv, Shape, TypeOK, world, script
<1>2. InTime'  BY DEF Tick, Inv, Shape, TypeOK, InTime, world, script
<1>3. Heard'   BY DEF Tick, Inv, Heard, world, script
<1>4. Lately'
    BY PollerAssumption DEF Tick, Inv, Shape, TypeOK, Lately, Round, world, script, Never
<1> QED  BY <1>1, <1>2, <1>3, <1>4 DEF Inv

LEMMA OperationMovesInv == ASSUME Inv, OperationMoves PROVE Inv'
<1>0. PICK s \in Becomes(status) : status' = s /\ won' = IF s = "succeeded" THEN clock ELSE won
    BY DEF OperationMoves
<1>1. /\ status \in Waiting /\ s \in Statuses /\ won = Never
      /\ status = "recovery_required" => s = "succeeded"
    BY <1>0 DEF Becomes, Waiting, Statuses, Terminal, Inv, Heard
<1>2. UNCHANGED <<at, timeout, due, answer, exit, deadline, interval, clock, slow>>
    BY DEF OperationMoves, script
<1>3. Shape'   BY <1>0, <1>1, <1>2 DEF Inv, Shape, TypeOK, Never
<1>4. InTime'  BY <1>2 DEF Inv, Shape, TypeOK, InTime
<1>5. Heard'
    BY <1>0, <1>1, <1>2 DEF Inv, Shape, TypeOK, Heard, Never, Waiting, Statuses, Terminal
<1>6. Lately'
    BY <1>0, <1>1, <1>2, PollerAssumption DEF Inv, Shape, TypeOK, Lately, Round, Never
<1> QED  BY <1>3, <1>4, <1>5, <1>6 DEF Inv

LEMMA UnmovedInv ==
    ASSUME Inv, UNCHANGED <<script, deadline, interval, clock, status, won, slow>>
    PROVE  Inv'
<1>1. Shape'   BY DEF Inv, Shape, TypeOK, script
<1>2. InTime'  BY DEF Inv, Shape, TypeOK, InTime, script
<1>3. Heard'   BY DEF Inv, Heard, script
<1>4. Lately'  BY DEF Inv, Lately, Round, script, Never
<1> QED  BY <1>1, <1>2, <1>3, <1>4 DEF Inv

LEMMA NextInv == ASSUME Inv, [Next]_vars PROVE Inv'
<1>1. CASE Script
    BY <1>1, CheckInv, RequestInv, NoAnswerInv, AnsweredInv, PauseInv, WakeInv DEF Script
<1>2. CASE Outage \/ UNCHANGED vars
    BY <1>2, UnmovedInv DEF Outage, vars, script
<1> QED  BY <1>1, <1>2, ServeInv, TickInv, OperationMovesInv DEF Next

-----------------------------------------------------------------------------
LEMMA Invariance == Spec => []Inv
BY InitInv, NextInv, PTL DEF Spec

\* What the script's exit status says has happened, for any deadline, interval and
\* request limit and however slow the host and the deployer.
THEOREM ExitHolds == Spec => []ExitIsTrue
<1>1. Inv => ExitIsTrue
    BY PollerAssumption DEF Inv, Shape, TypeOK, Heard, Lately, Round, ExitIsTrue, Never
<1> QED  BY <1>1, Invariance, PTL

\* The script keeps its shape and is over by the deadline and the seconds the host
\* itself was slow: no request and no pause outlasts it.
THEOREM EndsInTimeHolds == Spec => []EndsInTime
<1>1. Inv => EndsInTime
    BY DEF Inv, Shape, TypeOK, InTime, EndsInTime
<1> QED  BY <1>1, Invariance, PTL
=============================================================================
