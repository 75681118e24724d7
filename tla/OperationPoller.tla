---------------------------- MODULE OperationPoller ----------------------------
(***************************************************************************)
(* The workflow's wait for a durable operation: a shell loop that asks the *)
(* deployer for the operation's status until it has ended, an answer is    *)
(* missing or malformed, or an absolute deadline has passed.  The          *)
(* operation goes on meanwhile, and the host may be slow between two of    *)
(* the script's commands.                                                  *)
(***************************************************************************)
EXTENDS Naturals

CONSTANTS
    Deadlines, Intervals,  \* the script's last two arguments, in seconds
    RequestTimeout,        \* ten seconds in the script
    MaxSlow, MaxOutages    \* bounds

ASSUME PollerAssumption ==
    /\ Deadlines \subseteq Nat /\ Intervals \subseteq Nat
    /\ RequestTimeout \in Nat \ {0} /\ {MaxSlow, MaxOutages} \subseteq Nat

VARIABLES
    deadline, interval,
    clock,    \* the host's epoch seconds
    at,       \* the script's step
    timeout,  \* of the request or the sleep that was computed
    due,      \* when the request or the sleep under way ends
    answer,   \* what the deployer answered, "none" before it has
    exit,     \* how the script ended, "none" before it has
    status,   \* the operation's durable status
    reachable,
    won,      \* history: when the operation succeeded
    slow, outages  \* counted against the bounds

vars == <<deadline, interval, clock, at, timeout, due, answer, exit,
          status, reachable, won, slow, outages>>
script == <<at, timeout, due, answer, exit>>
world == <<status, reachable, won, outages>>

-----------------------------------------------------------------------------
Waiting == {"pending", "running", "recovery_required"}
Terminal == {"succeeded", "failed", "cancelled"}
Statuses == Waiting \cup Terminal

\* What becomes of an operation: a restart and a repair included.
Becomes(s) == CASE s = "pending" -> {"running", "failed", "cancelled", "recovery_required"}
                [] s = "running" -> {"succeeded", "failed", "cancelled", "recovery_required"}
                [] s = "recovery_required" -> {"succeeded"}
                [] OTHER -> {}

Least(a, b) == IF a < b THEN a ELSE b

Never == 0

Init == /\ deadline \in Deadlines /\ interval \in Intervals
        /\ clock = 1
        /\ at = "check" /\ timeout = 0 /\ due = 0 /\ answer = "none" /\ exit = "none"
        /\ status \in Waiting /\ reachable = TRUE /\ won = Never
        /\ slow = 0 /\ outages = 0

-----------------------------------------------------------------------------
Remaining == deadline - clock
Expired == deadline <= clock

End(how) == exit' = how /\ at' = "done" /\ UNCHANGED <<timeout, due, answer>>

\* The top of the loop: the request may take what is left, and no more than its own limit.
LimitMutant == RequestTimeout
Limit == Least(RequestTimeout, Remaining)

Check ==
    /\ at = "check"
    /\ \/ Expired /\ End("deadline")
       \/ /\ ~Expired
          /\ at' = "request" /\ timeout' = Limit /\ answer' = "none"
          /\ UNCHANGED <<due, exit>>
    /\ UNCHANGED <<deadline, interval, clock, world, slow>>

Request ==
    /\ at = "request"
    /\ at' = "asking" /\ due' = clock + timeout
    /\ UNCHANGED <<timeout, answer, exit, deadline, interval, clock, world, slow>>

\* The deployer looks the operation up: the answer says what holds now.
Serve ==
    /\ at = "asking" /\ answer = "none" /\ reachable
    /\ answer' = status
    /\ UNCHANGED <<at, timeout, due, exit, deadline, interval, clock, world, slow>>

\* curl --fail: refused, timed out, redirected or an error status; or an answer
\* that is not this operation's.
NoAnswer ==
    /\ at = "asking" /\ (~reachable \/ clock >= due)
    /\ End("unanswered")
    /\ UNCHANGED <<deadline, interval, clock, world, slow>>

\* The answer arrives.
VerdictMutant(s) == IF s \in Waiting \ {"recovery_required"} THEN "none"
                    ELSE IF s = "failed" \/ s = "cancelled" THEN "terminal" ELSE "succeeded"
Verdict(s) == IF s \in Waiting THEN "none"
              ELSE IF s = "succeeded" THEN "succeeded" ELSE "terminal"

Answered ==
    /\ at = "asking" /\ answer # "none" /\ clock <= due
    /\ IF Verdict(answer) = "none"
       THEN /\ at' = IF interval > 0 THEN "pause" ELSE "check"
            /\ UNCHANGED <<timeout, due, answer, exit>>
       ELSE End(Verdict(answer))
    /\ UNCHANGED <<deadline, interval, clock, world, slow>>

\* The deadline is looked at once more before the sleep, which it cuts short.
Nap == Least(interval, Remaining)

Pause ==
    /\ at = "pause"
    /\ \/ Expired /\ End("deadline")
       \/ /\ ~Expired
          /\ at' = "sleep" /\ timeout' = Nap /\ due' = clock + Nap
          /\ UNCHANGED <<answer, exit>>
    /\ UNCHANGED <<deadline, interval, clock, world, slow>>

Wake ==
    /\ at = "sleep" /\ clock >= due
    /\ at' = "check"
    /\ UNCHANGED <<timeout, due, answer, exit, deadline, interval, clock, world, slow>>

\* Time passes while the script waits; or, the host being slow, while it should not.
Tick ==
    /\ exit = "none"
    /\ \/ at \in {"asking", "sleep"} /\ clock < due /\ slow' = slow
       \/ ~(at \in {"asking", "sleep"} /\ clock < due) /\ slow < MaxSlow /\ slow' = slow + 1
    /\ clock' = clock + 1
    /\ UNCHANGED <<script, deadline, interval, world>>

OperationMoves ==
    /\ \E s \in Becomes(status) :
         status' = s /\ won' = IF s = "succeeded" THEN clock ELSE won
    /\ UNCHANGED <<script, deadline, interval, clock, reachable, outages, slow>>

\* The deployer stops answering, or answers nothing well formed, or comes back.
Outage ==
    /\ reachable => outages < MaxOutages
    /\ outages' = IF reachable THEN outages + 1 ELSE outages
    /\ reachable' = ~reachable
    /\ UNCHANGED <<script, deadline, interval, clock, status, won, slow>>

Script == Check \/ Request \/ NoAnswer \/ Answered \/ Pause \/ Wake

Next == Script \/ Serve \/ Tick \/ OperationMoves \/ Outage

Spec == Init /\ [][Next]_vars

-----------------------------------------------------------------------------
(***************************************************************************)
(* Properties.                                                             *)
(***************************************************************************)

\* The script's state and the operation's keep their shape.
TypeOK ==
    /\ clock \in Nat /\ timeout \in Nat /\ due \in Nat
    /\ at \in {"check", "request", "asking", "pause", "sleep", "done"}
    /\ answer \in Statuses \cup {"none"} /\ status \in Statuses
    /\ exit \in {"none", "deadline", "unanswered", "succeeded", "terminal"}
    /\ exit # "none" <=> at = "done"

\* The exit status is what happened: success is reported only of an operation
\* that has succeeded, an end only of one that ended otherwise (recovery is
\* waited for, and an answer that was overtaken is not taken for the last word),
\* and a deadline only when the operation had not succeeded in time for one
\* more round, that is within the deadline less a request and a pause.
ExitIsTrue ==
    /\ exit = "succeeded" => status = "succeeded"
    /\ exit = "terminal"  => status \in {"failed", "cancelled"}
    /\ exit = "deadline" /\ won # Never => won + RequestTimeout + interval + slow >= deadline

\* However slow the answers, the script is over when the deadline is, but for
\* the seconds the host itself was slow.
EndsInTime == TypeOK /\ (exit = "none" /\ clock > 1 + slow => clock <= deadline + slow)

=============================================================================
