CONSTANTS
    o1 = o1 o2 = o2 r1 = r1 r2 = r2
    OpIds = {o1, o2}
    Requests = {r1}
    MaxEntries = 1
    Retention = 1
    NoRecord = NoRecord
    NoOp = NoOp
    ProbeAllowed = TRUE
    MaxClock = 1
    MaxFaults = 2
    MaxRestarts = 1
    MaxOutages = 1
SPECIFICATION FairSpec
CHECK_DEADLOCK FALSE
INVARIANT NextBootAccepts
PROPERTY ServesAgain
