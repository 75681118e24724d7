SPECIFICATION FairSpec
CONSTANTS
    e1 = e1
    e2 = e2
    o1 = o1
    o2 = o2
    o3 = o3
    Envs = {e1, e2}
    None = None
    Ops = {o1, o2, o3}
    NoOp = NoOp
    NoJournal = NoJournal
    NoWork = NoWork
    Calls <- MCAllCalls
    StartEnvs = {None, e1}
    MaxCalls = 2
    MaxFaults = 2
    MaxCancels = 1
    MaxCrashes = 1
INVARIANT TypeOK
INVARIANT NothingHalfDone
INVARIANT RefusalIsClean
INVARIANT NoOrphan
INVARIANT JobNeverOverclaims
PROPERTY ChangeSpec
PROPERTY SuccessMeansReached
PROPERTY CompletedNotReplayed
PROPERTY RepairConverges
CHECK_DEADLOCK FALSE
