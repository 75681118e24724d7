\* Enter races leave.
CONSTANTS
    p1 = p1 p2 = p2 p3 = p3
    Procs = {p1, p2, p3}
    Nobody = Nobody
    Kinds = {"create", "enter", "leave"}
    Faults = {}
    MaxCalls = 3
    MaxCrashes = 0
SPECIFICATION Spec
SYMMETRY ProcSymmetry
PROPERTY EnterReturnsDrained
