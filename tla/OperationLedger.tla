--------------------------- MODULE OperationLedger ---------------------------
(***************************************************************************)
(* What the deployer promises about an operation identifier, whatever the  *)
(* disk, the process and the retrying callers do: an identifier is bound   *)
(* to one request, its record only moves forward, a terminal record is     *)
(* never rewritten, an unfinished record never disappears, and a terminal  *)
(* one disappears only when its retention has passed.                      *)
(***************************************************************************)
EXTENDS Naturals

CONSTANTS OpIds,      \* operation identifiers
          Retention,  \* how long a terminal record is kept
          NoRecord    \* the absence of a record

VARIABLES ledger, now

ledgerVars == <<ledger, now>>

UnfinishedStatus == {"pending", "running", "recovery_required"}
TerminalStatus == {"succeeded", "failed", "cancelled"}

LedgerInit == /\ ledger = [op \in OpIds |-> NoRecord]
              /\ now = 0

\* A new record is either unfinished work or the tombstone of a refusal.
Admitted(new) == new.status \in {"pending", "cancelled"}

Progressed(old, new) == /\ old.status \in UnfinishedStatus
                        /\ new # NoRecord
                        /\ new.req = old.req

Expired(old) == /\ old.status \in TerminalStatus
                /\ now >= old.updated + Retention

Evolves(old, new) ==
    \/ new = old
    \/ old = NoRecord /\ Admitted(new)
    \/ old # NoRecord /\ Progressed(old, new)
    \/ old # NoRecord /\ new = NoRecord /\ Expired(old)

LedgerStep == /\ \A op \in OpIds : Evolves(ledger[op], ledger'[op])
              /\ now' = now

LedgerTick == now' = now + 1 /\ ledger' = ledger

LedgerNext == LedgerStep \/ LedgerTick

LedgerSpec == LedgerInit /\ [][LedgerNext]_ledgerVars
=============================================================================
