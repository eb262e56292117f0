--------------------------- MODULE MCBatchPipeline ---------------------------
(* Small instances of BatchPipeline: either one batch of two valid rows and  *)
(* a rejected one, or two users with a batch of one valid row each.          *)
EXTENDS BatchPipeline, TLC

CONSTANTS b1, b2, u1, u2, r1, r2

MCReceivers == Workers \cup Requests

MCOneBatchOf == (r1 :> b1) @@ (r2 :> b1)
MCOneOwnerOf == b1 :> u1
MCOneRejected == b1 :> 1

MCTwoBatchOf == (r1 :> b1) @@ (r2 :> b2)
MCTwoOwnerOf == (b1 :> u1) @@ (b2 :> u2)
MCTwoRejected == (b1 :> 0) @@ (b2 :> 1)

(* Workers are interchangeable, and only safety is checked with them.        *)
WorkerSymmetry == Permutations(Workers)
=============================================================================
