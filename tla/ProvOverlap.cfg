SPECIFICATION Spec
CONSTANTS
    Provisioners = {q1, q2, q3}
    Deleters = {q1, q2, q3}
    RowMax = 2
    Credentials = {c1, c2, c3}
    NoCredential = NoCredential
    Attempts = 3
    Settling = 2
    Faults = {"auth0", "crash", "commit"}
SYMMETRY MCSymmetry
INVARIANTS ClosedStaysClosed OneLiveAccount NoLockoutAlone TogetherOrNotAtAll RetryNotRefused
CHECK_DEADLOCK FALSE
