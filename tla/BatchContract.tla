---------------------------- MODULE BatchContract ----------------------------
(* What the batches API promises of a row, with no queue, page, receipt or   *)
(* crash in sight: a row of an accepted batch may be claimed for scoring     *)
(* while its batch is not cancelled, a check is the end of such a claim, and *)
(* a row is closed only once it has an outcome or its batch is cancelled.    *)
(* BatchPipeline implements it.                                              *)
EXTENDS Naturals

CONSTANTS Rows, Batches, Workers, BatchOf, NoRow

VARIABLES accepted,   \* batches that exist
          cancelled,  \* cancelled_at is not null
          checks,     \* checks stored for a row
          failures,   \* failures recorded for a row
          claims,     \* the row each Worker is scoring
          closed      \* rows that will not be offered again

contractVars == <<accepted, cancelled, checks, failures, claims, closed>>

Init ==
    /\ accepted = {}
    /\ cancelled = [b \in Batches |-> FALSE]
    /\ checks = [r \in Rows |-> 0]
    /\ failures = [r \in Rows |-> 0]
    /\ claims = [w \in Workers |-> NoRow]
    /\ closed = {}

Accept(b) ==
    /\ b \notin accepted
    /\ accepted' = accepted \cup {b}
    /\ UNCHANGED <<cancelled, checks, failures, claims, closed>>

(* Cancelling is one-way; a user's deletion cancels several batches at once. *)
Cancel(B) ==
    /\ B \subseteq accepted
    /\ cancelled' = [b \in Batches |-> cancelled[b] \/ b \in B]
    /\ UNCHANGED <<accepted, checks, failures, claims, closed>>

Claim(w, r) ==
    /\ claims[w] = NoRow
    /\ BatchOf[r] \in accepted
    /\ ~cancelled[BatchOf[r]]
    /\ claims' = [claims EXCEPT ![w] = r]
    /\ UNCHANGED <<accepted, cancelled, checks, failures, closed>>

(* The batch may have been cancelled since the claim.                        *)
Score(w) ==
    /\ claims[w] # NoRow
    /\ checks' = [checks EXCEPT ![claims[w]] = @ + 1]
    /\ claims' = [claims EXCEPT ![w] = NoRow]
    /\ UNCHANGED <<accepted, cancelled, failures, closed>>

Release(w) ==
    /\ claims[w] # NoRow
    /\ claims' = [claims EXCEPT ![w] = NoRow]
    /\ UNCHANGED <<accepted, cancelled, checks, failures, closed>>

Fail(S) ==
    /\ \A r \in S : BatchOf[r] \in accepted
    /\ failures' = [r \in Rows |-> IF r \in S THEN failures[r] + 1 ELSE failures[r]]
    /\ UNCHANGED <<accepted, cancelled, checks, claims, closed>>

Close(r) ==
    /\ checks[r] > 0 \/ failures[r] > 0 \/ cancelled[BatchOf[r]]
    /\ closed' = closed \cup {r}
    /\ UNCHANGED <<accepted, cancelled, checks, failures, claims>>

Next ==
    \/ \E b \in Batches : Accept(b)
    \/ \E B \in SUBSET Batches : Cancel(B)
    \/ \E w \in Workers, r \in Rows : Claim(w, r)
    \/ \E w \in Workers : Score(w) \/ Release(w)
    \/ \E S \in SUBSET Rows : Fail(S)
    \/ \E r \in Rows : Close(r)

Spec == Init /\ [][Next]_contractVars
=============================================================================
