\* Three goroutines race through every kind of request, with every kind of fault and a crash.
CONSTANTS
    p1 = p1 p2 = p2 p3 = p3
    Procs = {p1, p2, p3}
    Nobody = Nobody
    Kinds = {"create", "reset", "close", "deploy", "patch", "repair", "enter", "enterIfIdle", "leave"}
    Faults = {"io", "sync", "settle"}
    MaxCalls = 4
    MaxCrashes = 1
SPECIFICATION Spec
SYMMETRY ProcSymmetry
INVARIANT TypeOK
INVARIANT OneMutator
INVARIANT FailClosed
INVARIANT BarrierExcludes
PROPERTY LeaseSingleUse
