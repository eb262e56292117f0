SPECIFICATION Spec
CONSTANTS
    Provisioners = {q1, q2}
    Deleters = {}
    RowMax = 2
    Credentials = {c1, c2, c3}
    NoCredential = NoCredential
    Attempts = 3
    Settling = 2
    Faults = {}
SYMMETRY MCSymmetry
INVARIANT NoLockout
CHECK_DEADLOCK FALSE
