\* A registry check reconciles the live file.
CONSTANTS
    o1 = o1 o2 = o2 r1 = r1 r2 = r2
    OpIds = {o1, o2}
    Requests = {r1}
    MaxEntries = 2
    Retention = 1
    NoRecord = NoRecord
    NoOp = NoOp
    ProbeAllowed = TRUE
    MaxClock = 1
    MaxFaults = 0
    MaxRestarts = 0
    MaxOutages = 0
SPECIFICATION Spec
CHECK_DEADLOCK FALSE
INVARIANT JournalledWorkNotInterrupted
