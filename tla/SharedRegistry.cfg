SPECIFICATION Spec
CONSTANTS
    s1 = s1  s2 = s2  v1 = v1  v2 = v2
    k1 = k1  x1 = x1  x2 = x2  t1 = t1  t2 = t2
    Servers <- MCServers
    Versions <- MCVersions
    None = None
    Keys = {k1}
    Vals = {x1, x2}
    Threads <- MCThreads
    Check = Check
    NoOp = NoOp
    MaxOps = 2
    MaxFaults = 1
    MaxEdits = 1
    MaxChecks = 1
INVARIANT FileIsRight
PROPERTY BrokenIsKept
CHECK_DEADLOCK FALSE
