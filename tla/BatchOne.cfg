SPECIFICATION FairSpec
CONSTANTS
    b1 = b1  b2 = b2  u1 = u1  u2 = u2  r1 = r1  r2 = r2
    NoOne = NoOne  NoRow = NoRow
    Rows = {r1, r2}
    Batches = {b1}
    Users = {u1}
    Workers = {w1}
    Requests = {q1}
    Receivers <- MCReceivers
    BatchOf <- MCOneBatchOf
    OwnerOf <- MCOneOwnerOf
    Rejected <- MCOneRejected
    MaxReceive = 2
    PageMax = 2
    DrainMax = 2
    MaxFaults = 1
INVARIANTS OvershootBounded
PROPERTIES ImplementsContract EveryRowSettles CancelledRowsLeave
