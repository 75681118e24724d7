SPECIFICATION Spec
CONSTANTS
    e1 = e1
    e2 = e2
    o1 = o1
    o2 = o2
    o3 = o3
    Envs = {e1, e2}
    None = None
    Ops = {o1, o2, o3}
    NoOp = NoOp
    NoJournal = NoJournal
    NoWork = NoWork
    Calls <- MCResetCalls
    StartEnvs = {e1}
    MaxCalls = 1
    MaxFaults = 1
    MaxCancels = 0
    MaxCrashes = 0
INVARIANT EarlyResetRollsBack
CHECK_DEADLOCK FALSE
