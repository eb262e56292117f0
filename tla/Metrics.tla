------------------------------- MODULE Metrics -------------------------------
(* ml-training/metrics.py: the operating point of a detector.  A split is a   *)
(* set of rows, ai[r] says who wrote row r and score[r] is its score, an      *)
(* integer; rates are compared as counts.  The area measures (AUROC, AUPRC),  *)
(* calibration errors and bootstrap intervals are numbers nothing decides on  *)
(* here and are left out.  An operator X_Slip is X with a plausible slip.     *)
EXTENDS Integers, FiniteSets, FiniteSetsExt

Wrote(rows, ai) == [humans |-> {r \in rows : ~ai[r]}, ais |-> {r \in rows : ai[r]}]

(* operating_point_metrics: answers scored at the threshold are flagged.      *)
Flagged(rows, score, t) == {r \in rows : score[r] >= t}
OperatingPoint(rows, ai, score, t) ==
    LET w == Wrote(rows, ai) flagged == Flagged(rows, score, t)
    IN  [fp |-> Cardinality(flagged \cap w.humans), tp |-> Cardinality(flagged \cap w.ais),
         negatives |-> Cardinality(w.humans), positives |-> Cardinality(w.ais)]
FalseAlarms(rows, ai, score, t) == OperatingPoint(rows, ai, score, t).fp
Caught(rows, ai, score, t) == OperatingPoint(rows, ai, score, t).tp

(* A false positive rate at or under num/den; without human answers the rate  *)
(* is nan and nothing is under the budget.                                    *)
InBudget(rows, ai, score, t, num, den) ==
    LET p == OperatingPoint(rows, ai, score, t) IN p.negatives > 0 /\ p.fp * den <= num * p.negatives

(* The thresholds roc_curve reports: the scores that occur, except those      *)
(* where the curve goes on straight (drop_intermediate), and infinity, which  *)
(* flags nothing: here the number above every score.                          *)
Levels(rows, score) == {score[r] : r \in rows}
Above(rows, score) == Max(Levels(rows, score)) + 1
Straight(rows, ai, score, t) ==
    LET levels == Levels(rows, score)
        higher == {l \in levels : l > t} lower == {l \in levels : l < t}
    IN  /\ higher # {} /\ lower # {}
        /\ LET h == Min(higher) l == Max(lower) IN
            /\ FalseAlarms(rows, ai, score, l) + FalseAlarms(rows, ai, score, h) = 2 * FalseAlarms(rows, ai, score, t)
            /\ Caught(rows, ai, score, l) + Caught(rows, ai, score, h) = 2 * Caught(rows, ai, score, t)
RocThresholds(rows, ai, score) ==
    {Above(rows, score)} \cup {t \in Levels(rows, score) : ~Straight(rows, ai, score, t)}

(* threshold_at_fpr: of the thresholds within the budget the first, that is   *)
(* the highest, to catch the most; if there is none, just above every score.  *)
Usable(rows, ai, score, num, den) ==
    {t \in RocThresholds(rows, ai, score) : InBudget(rows, ai, score, t, num, den)}
Best(rows, ai, score, thresholds) ==
    {t \in thresholds : \A u \in thresholds : Caught(rows, ai, score, u) <= Caught(rows, ai, score, t)}
ThresholdAtFpr(rows, ai, score, num, den) ==
    LET usable == Usable(rows, ai, score, num, den)
    IN  IF usable = {} THEN Above(rows, score) ELSE Max(Best(rows, ai, score, usable))

(* oracle_tpr_at_fpr, as the number of AI answers caught.                     *)
OracleCaught(rows, ai, score, num, den) ==
    LET usable == Usable(rows, ai, score, num, den)
    IN  IF usable = {} THEN 0 ELSE Max({Caught(rows, ai, score, t) : t \in usable})
=============================================================================
