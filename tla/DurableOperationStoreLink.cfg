\* A success whose journal outlives the retention of its record.
CONSTANTS
    o1 = o1 o2 = o2 r1 = r1 r2 = r2
    OpIds = {o1, o2}
    Requests = {r1}
    MaxEntries = 2
    Retention = 1
    NoRecord = NoRecord
    NoOp = NoOp
    ProbeAllowed = FALSE
    MaxClock = 2
    MaxFaults = 0
    MaxRestarts = 1
    MaxOutages = 0
SPECIFICATION Spec
CHECK_DEADLOCK FALSE
PROPERTY JournalLinkResolves
