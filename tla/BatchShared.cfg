SPECIFICATION Spec
CONSTANTS
    b1 = b1  b2 = b2  u1 = u1  u2 = u2  r1 = r1  r2 = r2
    NoOne = NoOne  NoRow = NoRow
    Rows = {r1, r2}
    Batches = {b1, b2}
    Users = {u1, u2}
    Workers = {w1, w2}
    Requests = {q1}
    Receivers <- MCReceivers
    BatchOf <- MCTwoBatchOf
    OwnerOf <- MCTwoOwnerOf
    Rejected <- MCTwoRejected
    MaxReceive = 2
    PageMax = 2
    DrainMax = 1
    MaxFaults = 1
SYMMETRY WorkerSymmetry
INVARIANTS NoRowLost LateChecksBounded
PROPERTIES DeleteCancelsTheUnfinished
