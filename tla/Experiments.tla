----------------------------- MODULE Experiments -----------------------------
(* ml-training at one terminal: the fine-tuning tools (finetune_radar.py,     *)
(* finetune_desklib_lora.py and trial-training.py) and calibrate_ensemble.py, *)
(* which releases desklib + RADAR into apps/detector/model.  Weights are      *)
(* named by the epoch they were reached after, 0 is the untouched model.  An  *)
(* epoch's measures on val are whatever training makes of them; the scores a  *)
(* pair of models gives the validation answers come from the table ScoreOf.   *)
(* A file is written whole.  An operator X_Slip is X with a plausible slip.   *)
EXTENDS Metrics, Sequences

CONSTANTS
    Seeds,              \* the seeds RADAR is trained with, numbers
    Versions,           \* the live desklib detectors the repository may come to hold
    MaxEpochs,          \* --epochs
    Measures,           \* the values a validation measure takes
    PaurocTie,          \* PAUROC_TIE, in the same unit
    Patience,           \* early_stopping_patience
    Answers, Ai, Words, \* the validation answers, who wrote them, how long they are
    MinWords,           \* MIN_WORDS, answers below are left out of every fit
    ScoreOf,            \* ScoreOf[desklib version][RADAR weights][answer]
    Num, Den,           \* TARGET_FPR as a fraction
    ShippedEpoch,       \* the epoch in the RADAR adapter released first
    MaxEffort           \* bound: what is started by hand, all counted together

ASSUME ExperimentsAssumption ==
    /\ IsFiniteSet(Seeds) /\ Seeds \subseteq Nat
    /\ IsFiniteSet(Versions) /\ Versions \subseteq Nat /\ Versions # {}
    /\ MaxEpochs \in Nat \ {0} /\ ShippedEpoch \in 1..MaxEpochs
    /\ Measures \subseteq Nat /\ PaurocTie \in Nat
    /\ IsFiniteSet(Answers)
    /\ \A v \in Versions, w \in 1..MaxEpochs, a \in Answers : ScoreOf[v][w][a] \in Int
    /\ {Num, Den} \subseteq Nat

None == -1              \* no such file, or nothing measured
Long == {a \in Answers : Words[a] >= MinWords}

VARIABLES
    training,   \* the fine-tuning run under way
    adapter,    \* RADAR seed -> the weights in its adapter folder, or None
    live,       \* the desklib version in apps/detector
    cal,        \* the calibration under way
    folder,     \* apps/detector/model: the RADAR adapter and ensemble.json
    effort      \* how much has been started
experimentVars == <<training, adapter, live, cal, folder, effort>>

AtRest == training.stage = "none" /\ cal.stage = "none"
Spend(n) == effort + n <= MaxEffort /\ effort' = effort + n
Nothing == -1 - PaurocTie   \* -1.0, below every measure and not tied with one
NoTraining == [tool |-> "radar", seed |-> None, stage |-> "none", weights |-> 0, seen |-> <<>>, best |-> Nothing,
               auroc |-> Nothing, kept |-> 0, stale |-> 0, ties |-> 0, baseline |-> None, tuned |-> None,
               saved |-> [baseline |-> None, tuned |-> None]]

(* ------------------------------ training ---------------------------------- *)
Only(stage) == training.stage = stage /\ UNCHANGED <<adapter, live, cal, folder, effort>>
Starts(tool, seed, stage) ==
    /\ AtRest /\ Spend(1)
    /\ training' = [NoTraining EXCEPT !.tool = tool, !.seed = seed, !.stage = stage]
    /\ UNCHANGED <<adapter, live, cal, folder>>
Is(tool) == training.tool = tool

(* main and run: the untouched model is loaded, with trial-training.py the    *)
(* adapter is on it at once.                                                  *)
StartRadar(seed) == Starts("radar", seed, "baseline")
StartDesklib(seed) == Starts("desklib", seed, "baseline")
StartTrial(seed) == Starts("trial", seed, "train")

(* Every row of val and test is scored with the untouched model before the    *)
(* adapter is put on it; --no-baseline leaves desklib's out.                  *)
RadarBaseline ==
    /\ Only("baseline") /\ Is("radar")
    /\ training' = [training EXCEPT !.stage = "train", !.baseline = training.weights]
DesklibBaseline ==
    /\ Only("baseline") /\ Is("desklib")
    /\ \E scored \in {training.weights, None} : training' = [training EXCEPT !.stage = "train", !.baseline = scored]

(* Which epoch is kept.  RADAR: the partial area; AUROC decides within        *)
(* PAUROC_TIE of the best so far, and the best becomes the new one's.         *)
(* desklib: a strictly better AUROC.  trial: the Trainer keeps the checkpoint *)
(* with a strictly better metric and counts the epochs without one.           *)
Measured(score, auroc) ==
    [training EXCEPT !.weights = Len(training.seen) + 1, !.seen = Append(@, [score |-> score, auroc |-> auroc])]
Keep(t, m) == [t EXCEPT !.best = m.score, !.auroc = m.auroc, !.kept = Len(t.seen), !.stale = 0]
ClearlyBetter(t, m) == m.score > t.best + PaurocTie
TiedButBetter(t, m) ==
    m.score \in (t.best - PaurocTie)..(t.best + PaurocTie) /\ m.auroc > t.auroc
RadarSelect(t, m) ==
    IF ClearlyBetter(t, m) THEN Keep(t, m)
    ELSE IF TiedButBetter(t, m) THEN [Keep(t, m) EXCEPT !.ties = @ + 1] ELSE t
DesklibSelect(t, m) == IF m.score > t.best THEN Keep(t, m) ELSE t
TrialSelect(t, m) == IF m.score > t.best THEN Keep(t, m) ELSE [t EXCEPT !.stale = @ + 1]

StopsEarly == Is("trial") /\ training.stale >= Patience
Trained == Len(training.seen) = MaxEpochs \/ StopsEarly
RadarEpoch(score, auroc) ==
    /\ Only("train") /\ Is("radar") /\ ~Trained
    /\ training' = RadarSelect(Measured(score, auroc), [score |-> score, auroc |-> auroc])
DesklibEpoch(auroc) ==
    /\ Only("train") /\ Is("desklib") /\ ~Trained
    /\ training' = DesklibSelect(Measured(auroc, auroc), [score |-> auroc, auroc |-> auroc])
TrialEpoch(metric) ==
    /\ Only("train") /\ Is("trial") /\ ~Trained
    /\ training' = TrialSelect(Measured(metric, metric), [score |-> metric, auroc |-> metric])

(* After the last epoch the kept one's tensors go back into the model, the    *)
(* Trainer loads its best checkpoint.                                         *)
Restored_Slip == [training EXCEPT !.stage = "score"]
Restored == [training EXCEPT !.stage = "score", !.weights = training.kept]
RadarRestore == Only("train") /\ Is("radar") /\ Trained /\ training' = Restored
DesklibRestore == Only("train") /\ Is("desklib") /\ Trained /\ training' = Restored
TrialRestore == Only("train") /\ Is("trial") /\ Trained /\ training' = Restored

(* Val is scored with these weights, temperature and threshold are fitted on  *)
(* it and frozen; then test is scored.                                        *)
Frozen == [training EXCEPT !.stage = "save", !.tuned = training.weights]
RadarProtocol == Only("score") /\ Is("radar") /\ training' = Frozen
DesklibProtocol == Only("score") /\ Is("desklib") /\ training' = Frozen
TrialProtocol == Only("score") /\ Is("trial") /\ training' = Frozen

(* The scores of every val and test row go to the run's scores file; the      *)
(* trial logs its tables of predictions instead.                              *)
SavedScores == [training EXCEPT !.stage = "adapter", !.saved = [baseline |-> training.baseline, tuned |-> training.tuned]]
RadarScores == Only("save") /\ Is("radar") /\ training' = SavedScores
DesklibScores == Only("save") /\ Is("desklib") /\ training' = SavedScores
TrialScores == Only("save") /\ Is("trial") /\ training' = SavedScores

(* The adapter goes into the run's folder, the last thing a tool does.        *)
RadarAdapter ==
    /\ training.stage = "adapter" /\ Is("radar") /\ training' = [training EXCEPT !.stage = "ended"]
    /\ adapter' = [adapter EXCEPT ![training.seed] = training.weights]
    /\ UNCHANGED <<live, cal, folder, effort>>
DesklibAdapter == Only("adapter") /\ Is("desklib") /\ training' = [training EXCEPT !.stage = "ended"]
TrialAdapter == Only("adapter") /\ Is("trial") /\ training' = [training EXCEPT !.stage = "ended"]

Exit == Only("ended") /\ training' = NoTraining

(* The process is killed: what it held is lost, what it wrote stays.          *)
Killed ==
    /\ training.stage \notin {"none", "ended"} \/ cal.stage # "none"
    /\ training' = NoTraining /\ cal' = [cal EXCEPT !.stage = "none"]
    /\ UNCHANGED <<adapter, live, folder, effort>>

(* ------------------------- calibration and release ------------------------ *)
(* One seed's combination with the live desklib: the scores of validation,    *)
(* and how many AI answers it catches within the budget.                      *)
Combined(weights) == ScoreOf[live][weights]
Catches(weights) == OracleCaught(Long, Ai, Combined(weights), Num, Den)
BestSeed(tried) ==      \* max takes the first of equals
    Min({s \in tried : \A o \in tried : Catches(adapter[o]) <= Catches(adapter[s])})

(* main: the seeds named on the command line, each with an adapter folder, are *)
(* scored together with the live desklib; the settings hold what the chosen   *)
(* one was fitted with.  --release then copies the adapter that was scored.   *)
CalibratedThreshold(weights) == ThresholdAtFpr(Long, Ai, Combined(weights), Num, Den)
Fitted(weights) == [desklib |-> live, radar |-> weights, threshold |-> CalibratedThreshold(weights)]
Calibrate(tried) ==
    LET weights == adapter[BestSeed(tried)]
    IN  /\ AtRest /\ Spend(1)
        /\ tried # {} /\ tried \subseteq {s \in Seeds : adapter[s] # None}
        /\ cal' = [stage |-> "copy", radar |-> weights, settings |-> Fitted(weights)]
        /\ UNCHANGED <<training, adapter, live, folder>>

ReleaseAdapter ==
    /\ cal.stage = "copy"
    /\ cal' = [cal EXCEPT !.stage = "settings"]
    /\ folder' = [folder EXCEPT !.radar = cal.radar]
    /\ UNCHANGED <<training, adapter, live, effort>>

ReleaseSettings ==
    /\ cal.stage = "settings"
    /\ cal' = [cal EXCEPT !.stage = "none"]
    /\ folder' = [folder EXCEPT !.settings = cal.settings]
    /\ UNCHANGED <<training, adapter, live, effort>>

(* By hand: a commit puts another fine-tuned desklib, with its version and    *)
(* temperature, into the detector.                                            *)
AdoptDesklib(v) ==
    /\ AtRest /\ v # live /\ live' = v /\ Spend(1)
    /\ UNCHANGED <<training, adapter, cal, folder>>

ExperimentInit ==       \* the repository as it is: one seed trained, calibrated and released
    /\ training = NoTraining /\ effort = 0 /\ live = Min(Versions)
    /\ adapter = [s \in Seeds |-> IF s = Min(Seeds) THEN ShippedEpoch ELSE None]
    /\ folder = [radar |-> ShippedEpoch, settings |-> Fitted(ShippedEpoch)]
    /\ cal = [stage |-> "none", radar |-> ShippedEpoch, settings |-> Fitted(ShippedEpoch)]

TrainingStep ==
    \/ \E s \in Seeds : StartRadar(s) \/ StartDesklib(s) \/ StartTrial(s)
    \/ RadarBaseline \/ DesklibBaseline
    \/ \E p, a \in Measures : RadarEpoch(p, a)
    \/ \E m \in Measures : DesklibEpoch(m) \/ TrialEpoch(m)
    \/ RadarRestore \/ DesklibRestore \/ TrialRestore
    \/ RadarProtocol \/ DesklibProtocol \/ TrialProtocol
    \/ RadarScores \/ DesklibScores \/ TrialScores
    \/ RadarAdapter \/ DesklibAdapter \/ TrialAdapter \/ Exit
ReleaseStep ==
    \/ \E tried \in SUBSET Seeds : Calibrate(tried)
    \/ ReleaseAdapter \/ ReleaseSettings
    \/ \E v \in Versions : AdoptDesklib(v)

(* -------------------------------- properties ------------------------------ *)
(* Of a training run that ended, the scores file, the threshold in it and the *)
(* adapter all hold the same epoch: the one kept, which for desklib and trial *)
(* no other epoch beat, and for RADAR by no more than the ties that AUROC     *)
(* decided, and the last that it did not, can explain.  A baseline is the     *)
(* untouched model's.                                                         *)
KeptEpochShips ==
    training.stage = "ended" =>
        /\ training.weights = training.kept /\ training.saved.tuned = training.kept
        /\ training.saved.baseline \in {None, 0}
        /\ training.tool = "radar" => adapter[training.seed] = training.kept
        /\ LET slack == IF training.tool = "radar" THEN PaurocTie * (training.ties + 1) ELSE 0
           IN  \A i \in DOMAIN training.seen : training.seen[i].score <= training.seen[training.kept].score + slack
=============================================================================
