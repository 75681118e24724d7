\* Every interleaving of two operations with write faults, crashes and one power
\* loss, in one retention period.
CONSTANTS
    o1 = o1 o2 = o2 r1 = r1 r2 = r2
    OpIds = {o1, o2}
    Requests = {r1, r2}
    MaxEntries = 2
    Retention = 1
    NoRecord = NoRecord
    NoOp = NoOp
    ProbeAllowed = FALSE
    MaxClock = 1
    MaxFaults = 1
    MaxRestarts = 1
    MaxOutages = 1
SPECIFICATION Spec
SYMMETRY StoreSymmetry
INVARIANT TypeOK
INVARIANT MirrorsFile
INVARIANT AnswersMatchFile
INVARIANT SettledSurvives
PROPERTY BootReconciles
PROPERTY LedgerSpec
CHECK_DEADLOCK FALSE
