------------------------------- MODULE Scoring -------------------------------
(* From a trained adapter to a verdict in the history: Experiments releases   *)
(* into apps/detector/model, a deployment builds the detector from there, the *)
(* API's threshold is typed into docker-compose.ensemble.yml by hand, and     *)
(* Checks saves what the detector's scores mean under it.                     *)
EXTENDS Experiments, Checks

CONSTANTS
    Noise,      \* bound: how far the detector's CPU score and its rounding may be from the calibrated one
    Scores,     \* what a score can be at all
    Submission, \* bound: Submission[c] is the person and the answer of request c
    Walks       \* bound: who walks through whose history with which limit

ASSUME ScoringAssumption ==
    /\ {Noise, Band} \subseteq Nat /\ Noise <= Band     \* the abstention band is wider than the noise
    /\ Scores \subseteq Int
    /\ Nobody \notin Callers /\ WarmUp \notin Callers
    /\ Submission \in [Callers -> [actor : People, answer : Answers]]
    /\ Walks \subseteq [actor : People, of : People \cup {Everybody}, limit : Nat \ {0}]

scoringVars == <<experimentVars, detectorVars, checkVars>>

(* The detector's score.  Where the adapter is not the one the settings were  *)
(* fitted for, its logits are divided by another model's temperature.         *)
Untorn(img) == img.radar = img.settings.radar
Served(answer) ==
    {s \in Scores : Untorn(image) => Distance(s, ScoreOf[image.desklib][image.radar][answer]) \in {0, Noise}}

(* What a container can be built from, and what an earlier row must be for    *)
(* the budget to be kept from the start: an answer that was called AI         *)
(* generated with settings fitted for its detector scored above the threshold *)
(* when they were fitted.                                                     *)
Weights == 1..MaxEpochs
Settings ==
    {[desklib |-> v, radar |-> w, threshold |-> ThresholdAtFpr(Long, Ai, ScoreOf[v][w], Num, Den)] :
        v \in Versions, w \in Weights}
Images == [desklib : Versions, radar : Weights, settings : Settings]
Explained(r) ==
    /\ r.verdict = "ai_generated" /\ r.answer \in Wrote(Long, Ai).humans
    /\ Untorn(r.by) /\ r.threshold = r.by.settings.threshold
    => /\ r.by \in Images /\ Accepted(r.by)
       /\ ScoreOf[r.by.desklib][r.by.radar][r.answer] >= r.threshold
ASSUME EarlierRowsAssumption == \A r \in EarlierRows : Explained(r)

Built == [desklib |-> live, radar |-> folder.radar, settings |-> folder.settings]

Released == <<training, adapter, live, cal, folder>>

(* docker compose up --build: the old container ends with what it was doing.  *)
Deploy ==
    /\ AtRest \/ cal.stage = "settings"
    /\ Spend(1)
    /\ Started(Built)
    /\ call' = [c \in Callers |-> IF InDetector(c) THEN [NoCall EXCEPT !.at = "gone"] ELSE call[c]]
    /\ UNCHANGED <<Released, checkVars>>

(* By hand: the threshold in the folder's ensemble.json becomes the API's; it *)
(* is read when the API starts, whose requests end with the old process.      *)
ConfigureApi ==
    /\ AtRest /\ threshold # folder.settings.threshold
    /\ UNCHANGED effort
    /\ threshold' = folder.settings.threshold
    /\ request' = [c \in Callers |-> IF request[c].at \in {"asking", "scored"} THEN [NoRequest EXCEPT !.at = "lost"]
                                     ELSE request[c]]
    /\ UNCHANGED <<Released, detectorVars, rows, walk>>

Init ==
    /\ ExperimentInit
    /\ image = Built /\ status = "loading" /\ loaded = FALSE /\ holder = Nobody /\ warming = TRUE
    /\ call = [c \in Callers |-> NoCall]
    /\ request = [c \in Callers |-> NoRequest] /\ rows = EarlierRows
    /\ threshold = folder.settings.threshold /\ walk = NoWalk

DetectorStep(c) ==
    /\ TakeLock(c) \/ (call[c].at = "inside" /\ \E ok \in BOOLEAN, s \in Served(call[c].text) : ScoreText(c, ok, s, request[c].at = "asking"))
    /\ UNCHANGED checkVars
WarmUpStep ==
    /\ WarmUpBegins \/ \E ok \in BOOLEAN : WarmUpEnds(ok)
    /\ UNCHANGED checkVars
Begin ==        \* somebody submits an answer or opens the history, which counts as much as three
    /\ \/ \E c \in Callers : Ask(c, Submission[c].actor, Submission[c].answer) /\ Spend(1)
       \/ \E w \in Walks : StartWalk(w.actor, w.of, w.limit) /\ Spend(3)
    /\ UNCHANGED Released
Continue ==
    /\ \/ \E c \in Callers : TimeOut(c) \/ Hear(c) \/ DetectorStep(c) \/ \E id \in Ids, now \in Clock : Save(c, id, now)
       \/ WarmUpStep \/ NextPage \/ CloseWalk
    /\ UNCHANGED experimentVars

(* Bound: a model is trained before anything is served; the two share nothing *)
(* but the adapter folders.                                                   *)
Quiet ==
    /\ effort <= 1 /\ warming /\ walk.at = "none"
    /\ \A c \in Callers : request[c].at = "none"
Next ==
    \/ Quiet /\ TrainingStep /\ UNCHANGED <<detectorVars, checkVars>>
    \/ (ReleaseStep \/ Killed) /\ UNCHANGED <<detectorVars, checkVars>>
    \/ training.stage = "none" /\ (Begin \/ Continue)
    \/ Deploy \/ ConfigureApi

(* The detector's threads run; the timer of a request fires.                  *)
Serving(step) == training.stage = "none" /\ step /\ UNCHANGED experimentVars
Fairness ==
    /\ \A c \in Callers : WF_scoringVars(Serving(DetectorStep(c))) /\ WF_scoringVars(Serving(TimeOut(c) \/ Hear(c)))
    /\ WF_scoringVars(Serving(WarmUpStep))
Spec == Init /\ [][Next]_scoringVars /\ Fairness

(* -------------------------------- properties ------------------------------ *)
(* Where the detector runs the adapter its settings were fitted for and the   *)
(* API's threshold is from the same settings, the checks of the students'     *)
(* answers the threshold was fitted on flag no more of them than the budget:  *)
(* neither the detector's own arithmetic nor a new desklib can break that.    *)
BudgetKept ==
    \A r \in rows :
        (Untorn(r.by) /\ r.threshold = r.by.settings.threshold) =>
            LET alarms == {o \in rows : o.by = r.by /\ o.threshold = r.threshold /\ o.verdict = "ai_generated"}
            IN  Cardinality({o.answer : o \in alarms} \cap Wrote(Long, Ai).humans) * Den
                    <= Num * Cardinality(Wrote(Long, Ai).humans)

(* Every request is answered, and every text that reached the detector leaves *)
(* it, also when nobody waits for it any more.                                *)
NothingHangs ==
    /\ \A c \in Callers : (request[c].at = "asking") ~> (request[c].at # "asking")
    /\ \A c \in Callers : InDetector(c) ~> ~InDetector(c)
=============================================================================
