\* No fault and no crash: files are only read at an unlucky moment.
CONSTANTS
    p1 = p1 p2 = p2 p3 = p3
    Procs = {p1, p2, p3}
    Nobody = Nobody
    Kinds = {"create", "deploy", "repair"}
    Faults = {}
    MaxCalls = 3
    MaxCrashes = 0
SPECIFICATION Spec
SYMMETRY ProcSymmetry
INVARIANT RecoveryHasJournal
