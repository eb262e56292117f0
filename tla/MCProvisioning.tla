--------------------------- MODULE MCProvisioning ---------------------------
(* Small instances of Provisioning. *)
EXTENDS Provisioning, TLC

(* Every request may do both, or all of them one thing.                      *)
MCSymmetry == Permutations(Credentials) \cup Permutations(Requests)
=============================================================================
