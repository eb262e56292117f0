----------------------------- MODULE Evaluation -----------------------------
(* What is done with the corpus: the tools train on what the loaders accept  *)
(* and leave the scores of every val and test answer in a file; harness.py   *)
(* and ensemble_scores.py make tables of such files later, beside whatever   *)
(* corpus is on disk by then.  A run is the questions it was trained on and  *)
(* the answers it scored, and whether the files it loaded were of several    *)
(* builds; which epoch it kept and the scores themselves are module          *)
(* Experiments'.  The runs are over all datasets (no --train-on).  known and *)
(* mixed are records for the property: no file holds them.                   *)
EXTENDS Corpus

CONSTANTS
    Brief       \* answer_ids whose row on disk is below the harness's MIN_WORDS

VARIABLES
    runs        \* tool -> the run whose scores file it left

evaluationVars == <<revision, shuffle, disk, job, runs>>
Tools == {"radar", "desklib", "untouched"}
NoRun == [trained |-> {}, scores |-> {}, mixed |-> FALSE, known |-> TRUE]

(* load_corpus: by name; load_splits of trial-training.py reads the corpus   *)
(* alone.  A frame is the rows of one partition.                             *)
Frames(data) == IF data = "extended" THEN Everything ELSE Combined
Loads(data) == IF data = "extended" THEN ExtendedLoads ELSE CombinedLoads
FilesOf(data) == IF data = "extended" THEN Partitions ELSE {"corpus", "spliced"}
OneBuild(files) == \E n \in 1..MaxBuilds : \A f \in files : disk[f].build = n /\ disk[f].splices = n
SplitsLoad ==
    LET rows == disk["corpus"].rows
    IN  /\ Readable("corpus")
        /\ OnePartition(rows) /\ UniqueIds(rows)
        /\ {r.part : r \in rows} = Partitions
Frame(rows, p) == {r \in rows : r.part = p}

(* Balanced training rows: the larger class is thinned to the smaller one.   *)
Balanced(train) ==
    LET n == Least(Cardinality(Human(train)), Cardinality(Ai(train)))
    IN  Draw(Human(train), n) \cup Draw(Ai(train), n)

(* The rewritten answers RADAR also scores with the combined corpus: of test. *)
RobustnessLoads(data) == data = "combined" => Readable("paraphrased") /\ Readable("human_edited")
Robustness == Frame(disk["paraphrased"].rows \cup disk["human_edited"].rows, "test")

(* score_rows and validate: a row for each answer of val and test.  (A tool  *)
(* that trains also keeps rows of the model untouched, like those of the     *)
(* zero-shot scripts.)                                                       *)
ScoreRows(rows, split) ==
    {[id |-> r.id, q |-> r.q, split |-> split, human |-> r.slice = "human"] : r \in Frame(rows, split)}
Valid(scores) ==
    /\ {s.split : s \in scores} = {"val", "test"}
    /\ Cardinality({<<s.split, s.id>> : s \in scores}) = Cardinality(scores)

Run(data, train) ==
    [trained |-> {r.q : r \in train},
     scores |-> ScoreRows(Frames(data), "val") \cup ScoreRows(Frames(data), "test"),
     mixed |-> ~OneBuild(FilesOf(data)), known |-> TRUE]
Scores(tool, data, run) ==
    /\ job = <<>> /\ runs[tool] = NoRun
    /\ Loads(data)
    /\ Valid(run.scores)
    /\ runs' = [runs EXCEPT ![tool] = run]
    /\ UNCHANGED vars
RunRadar(data) == RobustnessLoads(data) /\ Scores("radar", data, Run(data, Frame(Frames(data), "train")))
RunDesklib(data) == Scores("desklib", data, Run(data, Balanced(Frame(Frames(data), "train"))))

(* eval_desklib_zeroshot.py or eval_radar_zeroshot.py: no training.          *)
RunDesklibUntouched(data) == Scores("untouched", data, Run(data, {}))
RunRadarUntouched(data) == RobustnessLoads(data) /\ Scores("untouched", data, Run(data, {}))

EvaluationInit == Init /\ runs = [t \in Tools |-> NoRun]
(* Bound: two runs are made, desklib's tuned one the second of them, and      *)
(* nothing is rebuilt after it.                                              *)
EvaluationNext ==
    \/ runs["desklib"] = NoRun /\ Next /\ UNCHANGED runs
    \/ \E data \in {"extended", "combined"} :
          \/ /\ \A tool \in Tools : runs[tool] = NoRun
             /\ RunRadar(data) \/ RunDesklibUntouched(data) \/ RunRadarUntouched(data)
          \/ (\E tool \in Tools : runs[tool] # NoRun) /\ RunDesklib(data)
EvaluationSpec == EvaluationInit /\ [][EvaluationNext]_evaluationVars

-----------------------------------------------------------------------------
(* load_meta: val and test of the extended corpus on disk now; attach_meta:  *)
(* for every row scored there is one of its answer_id, in the same partition *)
(* and with the same label.  Whether it is the same answer nobody asks.      *)
Meta == ScoreRows(disk["val"].rows, "val") \cup ScoreRows(disk["test"].rows, "test")
MetaLoads == Readable("val") /\ Readable("test") /\ Cardinality({s.id : s \in Meta}) = Cardinality(Meta)
Matched(scores) == {[id |-> s.id, split |-> s.split, human |-> s.human] : s \in scores}
AttachMeta(run) == Matched(run.scores) \subseteq Matched(Meta)
LoadRun(run) == run # NoRun /\ MetaLoads /\ AttachMeta(run)

(* What a table row rests on: the questions trained on, those the threshold  *)
(* was fitted on, those measured.  dropped: the answers min_words leaves out. *)
Filters == {{}, Brief}
RowsOf(run, split, dropped) == {s \in run.scores : s.split = split /\ s.id \notin dropped}
AsksOf(rows) == {s.q : s \in rows}
Evaluates(run, dropped) ==
    (\E s \in RowsOf(run, "val", dropped) : s.human) /\ RowsOf(run, "test", dropped) # {}
EvaluateModel(run, dropped) ==
    [trained |-> run.trained,
     fitted |-> AsksOf(RowsOf(run, "val", dropped)), measured |-> AsksOf(RowsOf(run, "test", dropped)),
     mixed |-> run.mixed, known |-> run.known, whole |-> TRUE]
(* compare_models: a row for every run by itself and filter.                 *)
CompareModels(loaded) ==
    {EvaluateModel(x[1], x[2]) : x \in {y \in loaded \X Filters : Evaluates(y[1], y[2])}}
(* Some answer of every question scored carries the question in its id.      *)
Named(rows) ==
    \A s \in rows : \E t \in rows : t.split = s.split /\ t.id[3] = "raw" /\ t.id[1] = s.q
(* compare_pair: two models whose test answers have the same ids, each with  *)
(* the threshold of its own row.                                             *)
Comparable(a, b, dropped) ==
    {s.id : s \in RowsOf(a, "test", dropped)} = {s.id : s \in RowsOf(b, "test", dropped)}
ComparePair(a, b, dropped) ==
    LET test == {RowsOf(run, "test", dropped) : run \in {a, b}}
    IN  [trained |-> a.trained \cup b.trained, fitted |-> {}, measured |-> AsksOf(UNION test),
         mixed |-> a.mixed \/ b.mixed, whole |-> dropped = {},
         known |-> a.known /\ b.known /\ \A rows \in test : Named(rows)]

(* ensemble_scores.py finds a run's file here or on the tracking server and   *)
(* takes the tuned model's rows; those of two runs that cover the same ids   *)
(* with the same labels become the scores of their combination, with the     *)
(* questions of the first; its weight is a number, or chosen on val as the   *)
(* threshold is.                                                             *)
TunedRows(tool) == runs[tool]
PairRows(a, b) == a # NoRun /\ b # NoRun /\ Matched(a.scores) = Matched(b.scores)
WriteCombination(a, b) ==
    [trained |-> a.trained \cup b.trained, scores |-> a.scores, mixed |-> a.mixed \/ b.mixed,
     known |-> Named(a.scores) /\ Named(b.scores)]

Table ==
    LET a == TunedRows("radar") b == TunedRows("desklib")
        files == {runs[tool] : tool \in Tools} \cup (IF PairRows(a, b) THEN {WriteCombination(a, b)} ELSE {})
        loaded == {run \in files : LoadRun(run)}
    IN  CompareModels(loaded) \cup
        {ComparePair(x[1], x[2], x[3]) :
            x \in {y \in loaded \X loaded \X Filters : Comparable(y[1], y[2], y[3])}}

(* What a question asks never reaches training and evaluation both: not in   *)
(* what the loaders accept of the files of one build, not in rewritten       *)
(* answers tested beside the corpus of their build, and not in a table made  *)
(* later: a run alone, two compared, or the combination of a run of one      *)
(* build with a run of another is measured on questions that nothing in it   *)
(* was trained on, also in other words, nor had its threshold fitted on.     *)
(* harness.py and ensemble_scores.py match answers by their ids alone, and a *)
(* splice's id is given again to another answer by the next build: runs that *)
(* meet are held to this where for every question an answer with an id of    *)
(* its own is scored too (known), which is always so when neither mixed      *)
(* builds and no answer is left out.  A run that mixed builds keeps at least *)
(* the questions themselves apart.                                           *)
Apart(S, T) == \A q \in S, r \in T : ~Alike(q, r)
Rewritten == {"paraphrased", "human_edited"}
NothingMeasuredWasSeen ==
    /\ \A data \in {"extended", "combined"} : Loads(data) /\ OneBuild(FilesOf(data)) => Fair(Frames(data))
    /\ SplitsLoad => Fair(disk["corpus"].rows)
    /\ CombinedLoads /\ OneBuild({"corpus", "spliced"} \cup Rewritten) => Fair(Combined \cup Robustness)
    /\ \A row \in Table :
        /\ row.known => row.trained \cap (row.fitted \cup row.measured) = {} /\ row.fitted \cap row.measured = {}
        /\ row.known /\ ~row.mixed => Apart(row.trained, row.fitted \cup row.measured) /\ Apart(row.fitted, row.measured)
        /\ ~row.mixed /\ row.whole => row.known

(* ensemble_scores.py is to check "that they cover the same answers, with    *)
(* the same labels" (ensemble_scores.py): it pairs the splices of two        *)
(* builds that share an id, whatever question they answer.                   *)
PairedAnswersAreTheSame ==
    LET answers(scores) == {<<s.id, s.q>> : s \in scores}
    IN  PairRows(TunedRows("radar"), TunedRows("desklib")) =>
            answers(runs["radar"].scores) = answers(runs["desklib"].scores)
=============================================================================
