------------------------------ MODULE MCTeams ------------------------------
(* Small instances of Teams: two instructors and an assistant they may share. *)
EXTENDS Teams, TLC

CONSTANTS i1, i2, t1

MCFirstRole == [u \in Users |-> IF u = t1 THEN "ta" ELSE "instructor"]

(* Rows are interchangeable until they are used, and so are requests.        *)
MCSymmetry == Permutations(Links) \cup Permutations(Sessions) \cup Permutations(Requests)
=============================================================================
