SPECIFICATION Spec
CONSTANTS
    p1 = p1
    p2 = p2
    p3 = p3
    p4 = p4
    NoProcess = NoProcess
    Process = {p1, p2, p3, p4}
    MaxAttempts = 2
SYMMETRY Symmetry
INVARIANT OneHolder
