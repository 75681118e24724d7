\* A journal whose directory sync failed.
CONSTANTS
    p1 = p1 p2 = p2 p3 = p3
    Procs = {p1, p2, p3}
    Nobody = Nobody
    Kinds = {"create", "enter", "leave"}
    Faults = {"sync"}
    MaxCalls = 5
    MaxCrashes = 0
SPECIFICATION Spec
SYMMETRY ProcSymmetry
PROPERTY AdmissionFailsClosed
