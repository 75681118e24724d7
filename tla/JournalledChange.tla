--------------------------- MODULE JournalledChange ---------------------------
(***************************************************************************)
(* What the deployer's lifecycle journal promises about the state it       *)
(* guards, whatever fails or restarts: the state is only changed while an  *)
(* intent is on file, at most one intent is on file and it applies to the  *)
(* state it was recorded in, however long its request waited for that, and *)
(* it is withdrawn only when the state is as it was before or as the       *)
(* intent wants it.  Without an intent only a change complete in one step  *)
(* is made.                                                                *)
(***************************************************************************)
CONSTANTS
    NoIntent,           \* no journal is on file
    Applies(_, _),      \* Applies(i, a): a is a state intent i is meant for
    Whole(_, _),        \* Whole(a, b): b is a complete change of a by itself
    Reached(_, _, _)    \* Reached(i, a, b): b completes intent i begun at a

VARIABLES intent, origin, value

changeVars == <<intent, origin, value>>

ChangeInit == intent = NoIntent /\ origin = value

\* An intent is recorded before the first change it announces.
Announce == /\ intent = NoIntent /\ intent' # NoIntent
            /\ Applies(intent', value)
            /\ origin' = value /\ value' = value

\* Work, repairs and failures of either may do anything under an intent.
Work == /\ intent # NoIntent /\ intent' = intent /\ origin' = origin

Withdraw == /\ intent # NoIntent /\ intent' = NoIntent
            /\ value' = value
            /\ value = origin \/ Reached(intent, origin, value)
            /\ origin' = value

Touch == /\ intent = NoIntent /\ intent' = NoIntent
         /\ Whole(value, value') /\ origin' = value'

ChangeNext == Announce \/ Work \/ Withdraw \/ Touch

ChangeSpec == ChangeInit /\ [][ChangeNext]_changeVars
=============================================================================
