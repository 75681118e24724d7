CONSTANTS
    p1 = p1 p2 = p2 p3 = p3
    Procs = {p1, p2, p3}
    Nobody = Nobody
    Kinds = {"create", "deploy", "repair", "enter", "leave"}
    Faults = {"io", "settle"}
    MaxCalls = 4
    MaxCrashes = 0
SPECIFICATION FairSpec
PROPERTY AdmissionFailsClosed
PROPERTY EveryCallReturns
