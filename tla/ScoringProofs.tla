---------------------------- MODULE ScoringProofs ----------------------------
(* Theorems about training, release, scoring and the history (Scoring), for   *)
(* any models, answers, tables of scores, budgets, callers and pages: the     *)
(* epoch kept is the one that ships, a released detector keeps its budget of  *)
(* false alarms, and a walk through the history shows every check once.  Each *)
(* has an invariant of its own: TrainInv, ScoreInv, PagesInv.                 *)
EXTENDS Scoring, FiniteSetTheorems, TLAPS

(* ---------------------------- finite orders ------------------------------- *)
(* R is a strict order on S.                                                  *)
StrictOn(R, S) ==
    /\ \A x \in S : <<x, x>> \notin R
    /\ \A x, y, z \in S : <<x, y>> \in R /\ <<y, z>> \in R => <<x, z>> \in R

(* A finite set has a first element in it: the well-foundedness of strict     *)
(* inclusion, taken of the sets of elements before each.                      *)
LEMMA Extremal ==
    ASSUME NEW S, IsFiniteSet(S), S # {}, NEW R, StrictOn(R, S)
    PROVE  \E x \in S : \A y \in S : <<y, x>> \notin R
<1> DEFINE below(x) == {y \in S : <<y, x>> \in R}
           T == {below(x) : x \in S}
<1>1. T \subseteq FiniteSubsetsOf(S)
  BY FS_Subset DEF FiniteSubsetsOf
<1>2. T # {}
  OBVIOUS
<1>3. PICK U \in T : \A V \in T : <<V, U>> \notin StrictSubsetOrdering(S)
  <2> HIDE DEF T
  <2> QED BY <1>1, <1>2, FS_StrictSubsetOrderingWellFounded, WFMin
<1>4. PICK x \in S : U = below(x)
  BY <1>3
<1>5. ASSUME NEW y \in S, <<y, x>> \in R PROVE FALSE
  <2>1. below(y) \subseteq below(x) /\ y \in below(x) /\ y \notin below(y)
    BY <1>5 DEF StrictOn
  <2>2. <<below(y), U>> \in StrictSubsetOrdering(S)
    BY <2>1, <1>4, <1>1 DEF StrictSubsetOrdering
  <2> QED BY <2>2, <1>3
<1> QED BY <1>5

(* Max and Min are what their names say.                                      *)
LEMMA MaxIn ==
    ASSUME NEW S \in SUBSET Int, IsFiniteSet(S), S # {}
    PROVE  Max(S) \in S /\ \A y \in S : Max(S) >= y
<1> DEFINE R == {p \in S \X S : p[1] > p[2]}
<1>1. StrictOn(R, S)
  BY DEF StrictOn
<1>2. PICK x \in S : \A y \in S : <<y, x>> \notin R
  <2> HIDE DEF R
  <2> QED BY <1>1, Extremal
<1>3. ASSUME NEW y \in S, ~(x >= y) PROVE FALSE
  <2>1. <<y, x>> \in R
    BY <1>3
  <2> QED BY <2>1, <1>2
<1> QED BY <1>3 DEF Max

LEMMA MinIn ==
    ASSUME NEW S \in SUBSET Int, IsFiniteSet(S), S # {}
    PROVE  Min(S) \in S /\ \A y \in S : Min(S) =< y
<1> DEFINE R == {p \in S \X S : p[1] < p[2]}
<1>1. StrictOn(R, S)
  BY DEF StrictOn
<1>2. PICK x \in S : \A y \in S : <<y, x>> \notin R
  <2> HIDE DEF R
  <2> QED BY <1>1, Extremal
<1>3. ASSUME NEW y \in S, ~(x =< y) PROVE FALSE
  <2>1. <<y, x>> \in R
    BY <1>3
  <2> QED BY <2>1, <1>2
<1> QED BY <1>3 DEF Min

(* -------------------------- the operating point --------------------------- *)
(* Rates are counts.                                                          *)
LEMMA CountsOfFlagged ==
    ASSUME NEW data, IsFiniteSet(data), NEW ai, NEW score, NEW t
    PROVE  /\ FalseAlarms(data, ai, score, t) \in Nat
           /\ Caught(data, ai, score, t) \in Nat
           /\ Cardinality(Wrote(data, ai).humans) \in Nat
           /\ IsFiniteSet(Wrote(data, ai).humans)
<1> DEFINE w == Wrote(data, ai)
           flagged == Flagged(data, score, t)
<1>1. w.humans \in SUBSET data /\ w.ais \in SUBSET data
  BY DEF Wrote
<1>2. (flagged \cap w.humans) \in SUBSET data /\ (flagged \cap w.ais) \in SUBSET data
  BY <1>1
<1>3. IsFiniteSet(flagged \cap w.humans) /\ IsFiniteSet(flagged \cap w.ais) /\ IsFiniteSet(w.humans)
  BY <1>1, <1>2, FS_Subset
<1>4. Cardinality(flagged \cap w.humans) \in Nat /\ Cardinality(flagged \cap w.ais) \in Nat /\ Cardinality(w.humans) \in Nat
  BY <1>3, FS_CardinalityType
<1> QED BY <1>3, <1>4 DEF FalseAlarms, Caught, OperatingPoint

(* There are finitely many levels, and a number above them.                   *)
LEMMA LevelsFinite ==
    ASSUME NEW data, IsFiniteSet(data), NEW score, \A r \in data : score[r] \in Int
    PROVE  /\ IsFiniteSet(Levels(data, score)) /\ Levels(data, score) \subseteq Int
           /\ data # {} => /\ Above(data, score) \in Int
                           /\ \A r \in data : score[r] < Above(data, score)
<1> DEFINE f == [r \in data |-> score[r]]
<1>1. f \in Surjection(data, Levels(data, score))
  BY DEF Surjection, Levels
<1>2. IsFiniteSet(Levels(data, score))
  <2> HIDE DEF f
  <2> QED BY <1>1, FS_Surjection
<1>3. Levels(data, score) \subseteq Int
  BY DEF Levels
<1>4. ASSUME data # {} PROVE Above(data, score) \in Int /\ \A r \in data : score[r] < Above(data, score)
  <2>1. Levels(data, score) # {} /\ \A r \in data : score[r] \in Levels(data, score)
    BY <1>4 DEF Levels
  <2>2. Max(Levels(data, score)) \in Int /\ \A y \in Levels(data, score) : Max(Levels(data, score)) >= y
    BY <1>2, <1>3, <2>1, MaxIn
  <2> QED BY <2>1, <2>2, <1>3 DEF Above
<1> QED BY <1>2, <1>3, <1>4

(* threshold_at_fpr keeps what it promises: as a threshold t on the scores it *)
(* was fitted on, no more than num/den of the human answers score t or more.  *)
LEMMA ThresholdKeepsBudget ==
    ASSUME NEW data, IsFiniteSet(data), NEW ai, NEW score, \A r \in data : score[r] \in Int,
           NEW num \in Nat, NEW den \in Nat
    PROVE  LET t == ThresholdAtFpr(data, ai, score, num, den)
               humans == Wrote(data, ai).humans
           IN  humans # {} => /\ t \in Int
                              /\ Cardinality({r \in humans : score[r] >= t}) * den <= num * Cardinality(humans)
<1> DEFINE humans == Wrote(data, ai).humans
           usable == Usable(data, ai, score, num, den)
           best == Best(data, ai, score, usable)
           t == ThresholdAtFpr(data, ai, score, num, den)
           alarms(u) == {r \in humans : score[r] >= u}
<1> SUFFICES ASSUME humans # {}
             PROVE  t \in Int /\ Cardinality(alarms(t)) * den <= num * Cardinality(humans)
  OBVIOUS
<1>1. data # {} /\ humans \subseteq data /\ IsFiniteSet(humans) /\ Cardinality(humans) \in Nat
  BY CountsOfFlagged DEF Wrote
<1>2. \A u : FalseAlarms(data, ai, score, u) = Cardinality(alarms(u))
  <2>1. \A u : Flagged(data, score, u) \cap humans = alarms(u)
    BY <1>1 DEF Flagged
  <2> QED BY <2>1 DEF FalseAlarms, OperatingPoint
<1>3. CASE usable = {}
  <2>1. t = Above(data, score)
    BY <1>3 DEF ThresholdAtFpr
  <2>2. t \in Int /\ alarms(t) = {}
    <3>1. t \in Int /\ \A r \in data : score[r] < t
      BY <2>1, <1>1, LevelsFinite
    <3> HIDE DEF t
    <3> QED BY <3>1, <1>1
  <2>3. Cardinality(alarms(t)) = 0
    BY <2>2, FS_EmptySet
  <2>4. \A h \in Nat : 0 * den <= num * h
    OBVIOUS
  <2> QED BY <2>2, <2>3, <2>4, <1>1
<1>4. CASE usable # {}
  <2>1. usable \subseteq Int /\ IsFiniteSet(usable)
    <3> DEFINE some == Levels(data, score) \cup {Above(data, score)}
    <3>1. IsFiniteSet(some)
      BY LevelsFinite, FS_AddElement
    <3>3. some \subseteq Int
      BY <1>1, LevelsFinite
    <3>2. usable \in SUBSET some
      BY DEF Usable, RocThresholds
    <3> QED BY <3>1, <3>2, <3>3, FS_Subset
  <2>2. best \subseteq usable /\ best # {}
    <3> DEFINE R == {p \in usable \X usable : Caught(data, ai, score, p[1]) > Caught(data, ai, score, p[2])}
    <3>1. \A u : Caught(data, ai, score, u) \in Nat
      BY CountsOfFlagged
    <3>2. StrictOn(R, usable)
      BY <3>1 DEF StrictOn
    <3>3. PICK u \in usable : \A v \in usable : <<v, u>> \notin R
      <4> HIDE DEF R, usable
      <4> QED BY <3>2, <2>1, <1>4, Extremal
    <3>4. ASSUME NEW v \in usable, ~(Caught(data, ai, score, v) <= Caught(data, ai, score, u)) PROVE FALSE
      <4>1. <<v, u>> \in R
        BY <3>4, <3>1
      <4> QED BY <4>1, <3>3
    <3> QED BY <3>4 DEF Best
  <2>3. t = Max(best)
    BY <1>4 DEF ThresholdAtFpr
  <2>4. t \in usable
    <3>1. best \in SUBSET Int /\ IsFiniteSet(best)
      BY <2>1, <2>2, FS_Subset
    <3> HIDE DEF best, t, usable
    <3> QED BY <3>1, <2>2, <2>3, MaxIn
  <2>5. InBudget(data, ai, score, t, num, den)
    BY <2>4 DEF Usable
  <2>6. FalseAlarms(data, ai, score, t) * den <= num * Cardinality(humans)
    BY <2>5 DEF InBudget, FalseAlarms, OperatingPoint
  <2> QED BY <2>6, <1>2, <2>4, <2>1
<1> QED BY <1>3, <1>4

(* oracle_tpr_at_fpr is a number of answers.                                 *)
LEMMA OracleCounts ==
    ASSUME NEW data, IsFiniteSet(data), NEW ai, NEW score, \A r \in data : score[r] \in Int,
           NEW num \in Nat, NEW den \in Nat
    PROVE  OracleCaught(data, ai, score, num, den) \in Nat
<1> DEFINE usable == Usable(data, ai, score, num, den)
           caught == {Caught(data, ai, score, t) : t \in usable}
<1>1. CASE usable = {}
  BY <1>1 DEF OracleCaught
<1>2. CASE usable # {}
  <2>1. caught \subseteq 0..Cardinality(data) /\ Cardinality(data) \in Nat
    <3> SUFFICES ASSUME NEW t \in usable PROVE Caught(data, ai, score, t) \in 0..Cardinality(data)
      BY FS_CardinalityType
    <3> DEFINE hits == Flagged(data, score, t) \cap Wrote(data, ai).ais
    <3>1. hits \in SUBSET data
      BY DEF Flagged
    <3>2. Cardinality(hits) <= Cardinality(data) /\ IsFiniteSet(hits)
      BY <3>1, FS_Subset
    <3>3. Cardinality(hits) \in Nat /\ Cardinality(data) \in Nat
      BY <3>2, FS_CardinalityType
    <3>4. Caught(data, ai, score, t) = Cardinality(hits)
      BY DEF Caught, OperatingPoint
    <3> QED BY <3>2, <3>3, <3>4
  <2>2. IsFiniteSet(caught) /\ caught \subseteq Nat
    <3> HIDE DEF caught
    <3>1. IsFiniteSet(0..Cardinality(data))
      BY <2>1, FS_Interval
    <3>2. caught \in SUBSET (0..Cardinality(data))
      BY <2>1
    <3>3. IsFiniteSet(caught)
      BY <3>1, <3>2, FS_Subset
    <3> QED BY <2>1, <3>3
  <2>3. Max(caught) \in caught
    <3>1. caught # {}
      BY <1>2
    <3> HIDE DEF caught
    <3> QED BY <2>2, <3>1, MaxIn
  <2> HIDE DEF caught
  <2>4. OracleCaught(data, ai, score, num, den) = Max(caught)
    BY <1>2 DEF OracleCaught, caught
  <2> QED BY <2>2, <2>3, <2>4
<1> QED BY <1>1, <1>2

(* ------------------------------ the invariant ----------------------------- *)
(* Types of what the three properties depend on.                             *)
Tools == {"radar", "desklib", "trial"}
Stages == {"none", "baseline", "train", "score", "save", "adapter", "ended"}
Epochs == Seq([score : Measures, auroc : Measures])
Trainings ==
    [tool : Tools, seed : Seeds \cup {None}, stage : Stages, weights : Nat, seen : Epochs, best : Int,
     auroc : Int, kept : Nat, stale : Nat, ties : Nat, baseline : {None, 0}, tuned : Nat \cup {None},
     saved : [baseline : {None, 0}, tuned : Nat \cup {None}]]
ExperimentsTyped ==
    /\ training \in Trainings
    /\ adapter \in [Seeds -> Weights \cup {None}]
    /\ live \in Versions
    /\ cal \in [stage : {"none", "copy", "settings"}, radar : Weights, settings : Settings]
    /\ folder \in [radar : Weights, settings : Settings]

(* The best so far is the measure of the epoch kept, which no other epoch     *)
(* beats by more than its slack: one tie for each time a tie was decided by   *)
(* AUROC, and one for an epoch that tied and lost.                            *)
Slack(t) == IF t.tool = "radar" THEN PaurocTie * (t.ties + 1) ELSE 0
BestOK(t) ==
    /\ t.kept \in 0..Len(t.seen) /\ Len(t.seen) <= MaxEpochs
    /\ IF t.kept = 0 THEN t.best = Nothing /\ t.seen = <<>> ELSE t.best = t.seen[t.kept].score
    /\ \A i \in DOMAIN t.seen : t.seen[i].score <= t.best + Slack(t)

(* What each stage has already put where.                                    *)
StageOK(t) ==
    /\ t.stage \in {"none", "baseline"} => t.seen = <<>> /\ t.weights = 0
    /\ t.stage \in {"score", "save", "adapter", "ended"} => t.weights = t.kept
    /\ t.stage \in {"score", "save", "adapter", "ended"} /\ t.tool = "radar" => t.kept # 0
    /\ t.stage \in {"save", "adapter", "ended"} => t.tuned = t.kept
    /\ t.stage \in {"adapter", "ended"} => t.saved.tuned = t.kept
    /\ t.stage # "none" /\ t.tool = "radar" => t.seed \in Seeds
AdapterOK ==
    training.stage = "ended" /\ training.tool = "radar" => adapter[training.seed] = training.kept

TrainInv == ExperimentsTyped /\ BestOK(training) /\ StageOK(training) /\ AdapterOK

(* A score that came from the detector `by` is near the one its settings were *)
(* fitted on, when they were fitted for its adapter.                         *)
Near(score, by, answer) ==
    /\ by \in Images /\ Accepted(by) /\ score \in Scores
    /\ Untorn(by) => Distance(score, ScoreOf[by.desklib][by.radar][answer]) \in {0, Noise}

(* As long as a request waits for a score, its text is the one in the         *)
(* detector, and the detector's answer is a score of that text.               *)
RequestOK(c) ==
    /\ request[c].at = "asking" /\ InDetector(c) => call[c].text = request[c].answer
    /\ request[c].at = "asking" /\ call[c].at = "answered" => Near(call[c].score, call[c].by, request[c].answer)
    /\ request[c].at = "scored" => Near(request[c].score, request[c].by, request[c].answer)

Calls == [at : {"none", "waiting", "inside", "failed", "gone", "answered", "heard"},
          text : Answers \cup {0}, score : Int, by : Images \cup {NoImage}]
Requests == [at : {"none", "asking", "504", "503", "scored", "201", "lost"}, actor : People,
             answer : Answers \cup {0}, score : Int, by : Images \cup {NoImage}]
ScoringTyped == image \in Images /\ call \in [Callers -> Calls] /\ request \in [Callers -> Requests]

ScoreInv ==
    /\ ScoringTyped
    /\ \A c \in Callers : RequestOK(c)
    /\ \A r \in rows : Explained(r)

(* Rows are told apart by id, which is never 0: a cursor of 0 is no cursor.  *)
RowsOK ==
    /\ IsFiniteSet(rows)
    /\ \A r \in rows : r.id \in Nat \ {0} /\ r.created \in Int
    /\ \A r, o \in rows : r.id = o.id => r = o

(* What was shown is no older than the cursor's row, which was shown itself;  *)
(* of the rows that were there when the walk began, what was not shown is     *)
(* still older.                                                               *)
ShownRows == UNION {walk.shown[i] : i \in DOMAIN walk.shown}
WalkTyped ==
    walk \in [at : {"none", "walking", "ended", "closed"}, actor : People, of : People \cup {Everybody},
              limit : Nat \ {0}, cursor : Nat, shown : Seq(SUBSET rows), before : SUBSET rows]
WalkOK ==
    /\ WalkTyped
    /\ \A r \in ShownRows : Readable(walk.actor, r)
    /\ \A i, j \in DOMAIN walk.shown : i < j => \A a \in walk.shown[i], b \in walk.shown[j] : Older(b, a)
    /\ walk.at = "ended" => walk.before \subseteq ShownRows
    /\ walk.at = "walking" =>
        /\ walk.before \subseteq Listed(walk.actor, walk.of)
        /\ IF walk.cursor = 0 THEN walk.shown = <<>>
           ELSE \E r \in rows :
                    /\ r.id = walk.cursor
                    /\ \A a \in ShownRows : a = r \/ Older(r, a)
                    /\ \A b \in walk.before \ ShownRows : Older(b, r)
PagesInv == RowsOK /\ WalkOK

(* -------------------------------- training -------------------------------- *)
LEMMA SlackGrows ==
    /\ PaurocTie \in Nat
    /\ \A n \in Nat : /\ PaurocTie * (n + 1) \in Nat /\ PaurocTie * (n + 1) >= PaurocTie
                      /\ PaurocTie * (n + 1 + 1) = PaurocTie * (n + 1) + PaurocTie
<1>1. \A T, n \in Nat : /\ T * (n + 1) \in Nat /\ T * (n + 1) >= T
                        /\ T * (n + 1 + 1) = T * (n + 1) + T
  OBVIOUS
<1> QED BY <1>1, ExperimentsAssumption

(* The slack is a number.                                                     *)
LEMMA SlackTyped ==
    ASSUME NEW t \in Trainings
    PROVE  /\ Slack(t) \in Nat /\ Nothing \in Int
           /\ t.tool = "radar" => Slack(t) >= PaurocTie
<1>1. t.ties \in Nat
  BY DEF Trainings
<1> QED BY <1>1, SlackGrows DEF Slack, Nothing

(* One more epoch: it becomes the best, and no epoch gains on what may be     *)
(* above it, or it is within the slack of the one kept.                      *)
LEMMA Judged ==
    ASSUME NEW t \in Trainings, BestOK(t), Len(t.seen) < MaxEpochs,
           NEW m \in [score : Measures, auroc : Measures],
           NEW u \in Trainings, u.seen = Append(t.seen, m),
           \/ /\ u.kept = Len(t.seen) + 1 /\ u.best = m.score
              /\ t.best + Slack(t) <= u.best + Slack(u)
           \/ /\ u.kept = t.kept /\ u.best = t.best /\ t.kept # 0
              /\ Slack(u) = Slack(t) /\ m.score <= t.best + Slack(t)
    PROVE  BestOK(u)
<1> DEFINE n == Len(t.seen)
<1> DEFINE M == [score : Measures, auroc : Measures]
<1>a. t.seen \in Seq(M) /\ n \in Nat
  BY DEF Trainings, Epochs
<1>b. t.kept \in Nat /\ t.best \in Int /\ u.best \in Int
  BY DEF Trainings
<1>c. Slack(t) \in Nat /\ Slack(u) \in Nat
  BY SlackTyped
<1>d. MaxEpochs \in Nat /\ Measures \subseteq Nat
  BY ExperimentsAssumption
<1>1. /\ t.seen \in Seq(M) /\ n \in Nat
      /\ t.kept \in Nat /\ t.best \in Int /\ u.best \in Int
      /\ Slack(t) \in Nat /\ Slack(u) \in Nat /\ MaxEpochs \in Nat
  BY <1>a, <1>b, <1>c, <1>d
<1>2. /\ Len(u.seen) = n + 1 /\ u.seen[n + 1] = m
      /\ DOMAIN u.seen = 1..(n + 1) /\ DOMAIN t.seen = 1..n
      /\ \A i \in 1..n : u.seen[i] = t.seen[i]
  BY <1>1
<1>3. /\ t.kept \in 0..n /\ n <= MaxEpochs
      /\ t.kept # 0 => t.best = t.seen[t.kept].score
      /\ \A i \in 1..n : t.seen[i].score <= t.best + Slack(t)
  BY <1>2 DEF BestOK
<1>4. \A i \in 1..n : t.seen[i].score \in Int
  <2>1. \A i \in 1..n : t.seen[i] \in M
    <3> HIDE DEF M
    <3> QED BY <1>a
  <2>2. \A e \in M : e.score \in Measures
    OBVIOUS
  <2>3. \A x \in Measures : x \in Int
    BY <1>d
  <2> HIDE DEF M
  <2> QED BY <2>1, <2>2, <2>3
<1>5. m.score \in Int
  <2>1. m.score \in Measures
    OBVIOUS
  <2>2. \A x \in Measures : x \in Int
    BY <1>d
  <2> QED BY <2>1, <2>2
<1>6. u.kept \in 1..(n + 1) /\ n + 1 <= MaxEpochs /\ u.best = u.seen[u.kept].score
  BY <1>1, <1>2, <1>3
<1>7. \A i \in 1..(n + 1) : u.seen[i].score <= u.best + Slack(u)
  <2> SUFFICES ASSUME NEW i \in 1..(n + 1) PROVE u.seen[i].score <= u.best + Slack(u)
    OBVIOUS
  <2>1. CASE i \in 1..n
    BY <2>1, <1>1, <1>2, <1>3, <1>4, SMTT(60)
  <2>2. CASE i = n + 1
    BY <2>2, <1>1, <1>2, <1>5
  <2> QED BY <2>1, <2>2, <1>1
<1>8. DOMAIN u.seen = 1..(n + 1) /\ u.kept # 0 /\ u.kept \in 0..Len(u.seen) /\ Len(u.seen) <= MaxEpochs
  BY <1>1, <1>2, <1>6
<1> QED BY <1>6, <1>7, <1>8 DEF BestOK

(* A process that has not begun is well typed.                                *)
LEMMA StartsTyped ==
    /\ Nothing \in Int /\ None \notin Seeds /\ None = -1
    /\ NoTraining \in Trainings /\ <<>> \in Epochs
<1>1. Nothing \in Int
  BY SlackGrows DEF Nothing
<1>2. <<>> \in Epochs
  BY DEF Epochs
<1>3. None \notin Seeds
  BY ExperimentsAssumption DEF None
<1> QED BY <1>1, <1>2, <1>3 DEF NoTraining, Trainings, Tools, Stages, None

(* It has kept no epoch.                                                      *)
LEMMA NoTrainingOK == BestOK(NoTraining) /\ StageOK(NoTraining)
<1>1. /\ NoTraining.seen = <<>> /\ NoTraining.kept = 0 /\ NoTraining.best = Nothing
      /\ NoTraining.weights = 0 /\ NoTraining.stage = "none"
  BY DEF NoTraining
<1>2. Len(<<>>) = 0 /\ DOMAIN <<>> = {} /\ 0 \in 0..0 /\ 0 <= MaxEpochs
  BY ExperimentsAssumption
<1> QED BY <1>1, <1>2 DEF BestOK, StageOK

(* What a step that only moves the run on has to show.                       *)
LEMMA Moves ==
    ASSUME NEW t \in Trainings, BestOK(t), NEW u \in Trainings,
           u.seen = t.seen, u.kept = t.kept, u.best = t.best, u.ties = t.ties, u.tool = t.tool
    PROVE  BestOK(u)
BY DEF BestOK, Slack

(* A training run starts from nothing.                                        *)
LEMMA StartsStep ==
    ASSUME TrainInv, NEW tool \in Tools, NEW seed \in Seeds, NEW stage \in {"baseline", "train"},
           Starts(tool, seed, stage)
    PROVE  TrainInv'
<1>1. training' = [NoTraining EXCEPT !.tool = tool, !.seed = seed, !.stage = stage]
  BY DEF Starts
<1>2. training' \in Trainings
  <2>1. seed \in Seeds \cup {None} /\ stage \in Stages
    BY DEF Stages
  <2> QED BY <1>1, <2>1, StartsTyped DEF Trainings
<1>3. /\ training'.seen = <<>> /\ training'.kept = 0 /\ training'.best = Nothing /\ training'.weights = 0
      /\ training'.stage = stage /\ training'.seed = seed
  BY <1>1 DEF NoTraining
<1>4. Len(<<>>) = 0 /\ DOMAIN <<>> = {} /\ 0 \in 0..0 /\ 0 <= MaxEpochs
  BY ExperimentsAssumption
<1>5. BestOK(training')
  BY <1>3, <1>4 DEF BestOK
<1>6. StageOK(training')
  BY <1>3 DEF StageOK
<1>7. ExperimentsTyped'
  BY <1>2 DEF TrainInv, ExperimentsTyped, Starts
<1> QED BY <1>3, <1>5, <1>6, <1>7 DEF TrainInv, AdapterOK

(* The untouched model is scored before the adapter is put on it.             *)
LEMMA BaselineStep ==
    ASSUME TrainInv, RadarBaseline \/ DesklibBaseline
    PROVE  TrainInv'
<1>1. PICK b \in {training.weights, None} : training' = [training EXCEPT !.stage = "train", !.baseline = b]
  BY DEF RadarBaseline, DesklibBaseline
<1>2. training \in Trainings /\ training.stage = "baseline"
  BY DEF TrainInv, ExperimentsTyped, RadarBaseline, DesklibBaseline, Only
<1>3. b \in {None, 0}
  BY <1>2 DEF TrainInv, StageOK
<1>4. training' \in Trainings
  BY <1>1, <1>2, <1>3 DEF Trainings, Stages
<1>5. /\ training'.seen = training.seen /\ training'.kept = training.kept /\ training'.best = training.best
      /\ training'.ties = training.ties /\ training'.tool = training.tool
      /\ training'.seed = training.seed /\ training'.stage = "train"
  BY <1>1, <1>2 DEF Trainings
<1>6. BestOK(training')
  BY <1>2, <1>4, <1>5, Moves DEF TrainInv
<1>7. StageOK(training')
  BY <1>2, <1>5 DEF TrainInv, StageOK
<1>8. ExperimentsTyped'
  BY <1>4 DEF TrainInv, ExperimentsTyped, RadarBaseline, DesklibBaseline, Only
<1> QED BY <1>5, <1>6, <1>7, <1>8 DEF TrainInv, AdapterOK

(* Restore, freeze and save: each stage puts the epoch kept where StageOK     *)
(* says.                                                                     *)
LEMMA FreezeStep ==
    ASSUME TrainInv,
           \/ RadarRestore \/ DesklibRestore \/ TrialRestore
           \/ RadarProtocol \/ DesklibProtocol \/ TrialProtocol
           \/ RadarScores \/ DesklibScores \/ TrialScores
           \/ DesklibAdapter \/ TrialAdapter
    PROVE  TrainInv'
<1>1. training \in Trainings /\ UNCHANGED <<adapter, live, cal, folder, effort>>
  BY DEF TrainInv, ExperimentsTyped, Only, RadarRestore, DesklibRestore, TrialRestore, RadarProtocol,
     DesklibProtocol, TrialProtocol, RadarScores, DesklibScores, TrialScores, DesklibAdapter, TrialAdapter
<1>2. BestOK(training) /\ StageOK(training)
  BY DEF TrainInv
<1>3. training.kept \in Nat /\ training.tool \in Tools /\ training.baseline \in {None, 0} /\ training.weights \in Nat
  BY <1>1 DEF Trainings
<1>4. \/ /\ training.stage = "train" /\ Trained /\ training' = Restored
      \/ /\ training.stage = "score" /\ training' = Frozen
      \/ /\ training.stage = "save" /\ training' = SavedScores
      \/ /\ training.stage = "adapter" /\ training.tool # "radar" /\ training' = [training EXCEPT !.stage = "ended"]
  BY DEF Only, Is, RadarRestore, DesklibRestore, TrialRestore, RadarProtocol,
     DesklibProtocol, TrialProtocol, RadarScores, DesklibScores, TrialScores, DesklibAdapter, TrialAdapter
<1>5. training' \in Trainings
  <2>1. {"score", "save", "adapter", "ended"} \subseteq Stages
    BY DEF Stages
  <2>2. CASE training' = Restored
    BY <1>1, <1>3, <2>1, <2>2 DEF Restored, Trainings
  <2>3. CASE training' = Frozen
    BY <1>1, <1>3, <2>1, <2>3 DEF Frozen, Trainings
  <2>4. CASE training' = SavedScores /\ training.stage = "save"
    <3>1. training.tuned \in Nat \cup {None}
      BY <1>1 DEF Trainings
    <3> QED BY <1>1, <1>3, <3>1, <2>1, <2>4 DEF SavedScores, Trainings
  <2>5. CASE training' = [training EXCEPT !.stage = "ended"]
    BY <1>1, <2>1, <2>5 DEF Trainings
  <2> QED BY <1>4, <2>2, <2>3, <2>4, <2>5
<1>6. /\ training'.seen = training.seen /\ training'.kept = training.kept /\ training'.best = training.best
      /\ training'.ties = training.ties /\ training'.tool = training.tool /\ training'.seed = training.seed
  BY <1>1, <1>4, ZenonT(60) DEF Trainings, Restored, Frozen, SavedScores
<1>7. BestOK(training')
  BY <1>1, <1>2, <1>5, <1>6, Moves
<1>8. StageOK(training')
  <2>1. CASE training.stage = "train" /\ Trained /\ training' = Restored
    <3>1. training'.stage = "score" /\ training'.weights = training.kept
      BY <1>1, <2>1 DEF Restored, Trainings
    <3>2. training.tool = "radar" => training.kept # 0
      BY <1>2, <2>1, ExperimentsAssumption DEF Trained, StopsEarly, Is, BestOK
    <3> QED BY <1>2, <1>6, <2>1, <3>1, <3>2 DEF StageOK
  <2>2. CASE training.stage = "score" /\ training' = Frozen
    <3>1. training'.stage = "save" /\ training'.weights = training.weights /\ training'.tuned = training.weights
      BY <1>1, <2>2 DEF Frozen, Trainings
    <3> QED BY <1>2, <1>6, <2>2, <3>1 DEF StageOK
  <2>3. CASE training.stage = "save" /\ training' = SavedScores
    <3>1. /\ training'.stage = "adapter" /\ training'.weights = training.weights /\ training'.tuned = training.tuned
          /\ training'.saved.tuned = training.tuned
      BY <1>1, <2>3 DEF SavedScores, Trainings
    <3> QED BY <1>2, <1>6, <2>3, <3>1 DEF StageOK
  <2>4. CASE training.stage = "adapter" /\ training' = [training EXCEPT !.stage = "ended"]
    <3>1. /\ training'.stage = "ended" /\ training'.weights = training.weights /\ training'.tuned = training.tuned
          /\ training'.saved = training.saved
      BY <1>1, <2>4 DEF Trainings
    <3> QED BY <1>2, <1>6, <2>4, <3>1 DEF StageOK
  <2> QED BY <1>4, <2>1, <2>2, <2>3, <2>4
<1>9. AdapterOK'
  <2>1. training'.stage = "ended" => training.tool # "radar"
    BY <1>1, <1>4 DEF Trainings, Restored, Frozen, SavedScores
  <2> QED BY <1>6, <2>1 DEF AdapterOK
<1>10. ExperimentsTyped'
  BY <1>1, <1>5 DEF TrainInv, ExperimentsTyped
<1> QED BY <1>7, <1>8, <1>9, <1>10 DEF TrainInv

(* The epoch just measured, before it is judged.                             *)
LEMMA MeasuredTyped ==
    ASSUME TrainInv, NEW score \in Measures, NEW auroc \in Measures, training.stage = "train", ~Trained
    PROVE  LET t == Measured(score, auroc) IN
           /\ t \in Trainings /\ t.stage = "train" /\ t.kept = training.kept /\ t.best = training.best
           /\ t.ties = training.ties /\ t.tool = training.tool /\ t.seed = training.seed
           /\ t.auroc = training.auroc
           /\ t.seen = Append(training.seen, [score |-> score, auroc |-> auroc])
           /\ Len(t.seen) = Len(training.seen) + 1 /\ Len(training.seen) < MaxEpochs
<1> DEFINE t == Measured(score, auroc)
           m == [score |-> score, auroc |-> auroc]
<1>1. training \in Trainings
  BY DEF TrainInv, ExperimentsTyped
<1>2. training.seen \in Epochs /\ m \in [score : Measures, auroc : Measures]
  BY <1>1 DEF Trainings
<1>3. /\ Append(training.seen, m) \in Epochs /\ Len(training.seen) \in Nat
      /\ Len(Append(training.seen, m)) = Len(training.seen) + 1
  BY <1>2 DEF Epochs
<1>4. t = [training EXCEPT !.weights = Len(training.seen) + 1, !.seen = Append(training.seen, m)]
  BY DEF Measured
<1>5. t \in Trainings
  <2> HIDE DEF m, t
  <2>0. Len(training.seen) + 1 \in Nat /\ Append(training.seen, m) \in Epochs
    <3> HIDE DEF m, t
    <3> QED BY <1>3
  <2>1. PICK n \in Nat, s \in Epochs : n = Len(training.seen) + 1 /\ s = Append(training.seen, m)
    <3> HIDE DEF m, t
    <3> QED BY <2>0
  <2>2. t = [training EXCEPT !.weights = n, !.seen = s]
    BY <1>4, <2>1
  <2> QED BY <1>1, <2>2 DEF Trainings
<1>6. /\ t.stage = "train" /\ t.kept = training.kept /\ t.best = training.best
      /\ t.ties = training.ties /\ t.tool = training.tool /\ t.seed = training.seed
      /\ t.auroc = training.auroc /\ t.seen = Append(training.seen, m)
  <2> HIDE DEF m, t
  <2> QED BY <1>1, <1>4 DEF Trainings
<1>7. Len(training.seen) < MaxEpochs
  BY <1>3, ExperimentsAssumption DEF TrainInv, BestOK, Trained
<1> QED BY <1>3, <1>5, <1>6, <1>7

(* What the judgements make of it: the new epoch is kept, counted as a tie    *)
(* with RADAR when it won one, or the old one stays.                         *)
LEMMA EpochStep ==
    ASSUME TrainInv,
           \/ \E p, a \in Measures : RadarEpoch(p, a)
           \/ \E m \in Measures : DesklibEpoch(m) \/ TrialEpoch(m)
    PROVE  TrainInv'
<1>1. PICK p \in Measures, a \in Measures :
          /\ training.stage = "train" /\ ~Trained
          /\ \/ training.tool = "radar" /\ training' = RadarSelect(Measured(p, a), [score |-> p, auroc |-> a])
             \/ training.tool = "desklib" /\ training' = DesklibSelect(Measured(p, a), [score |-> p, auroc |-> a])
             \/ training.tool = "trial" /\ training' = TrialSelect(Measured(p, a), [score |-> p, auroc |-> a])
  <2>1. CASE \E q, b \in Measures : RadarEpoch(q, b)
    BY <2>1 DEF RadarEpoch, Only, Is
  <2>2. CASE \E m \in Measures : DesklibEpoch(m) \/ TrialEpoch(m)
    BY <2>2 DEF DesklibEpoch, TrialEpoch, Only, Is
  <2> QED BY <2>1, <2>2
<1> DEFINE m == [score |-> p, auroc |-> a]
<1>2. PICK t : t = Measured(p, a)
  OBVIOUS
<1>3. /\ t \in Trainings /\ t.stage = "train" /\ t.kept = training.kept /\ t.best = training.best
      /\ t.ties = training.ties /\ t.tool = training.tool /\ t.seed = training.seed
      /\ t.seen = Append(training.seen, m)
      /\ Len(t.seen) = Len(training.seen) + 1 /\ Len(training.seen) < MaxEpochs
  BY <1>1, <1>2, MeasuredTyped
<1>4. /\ training \in Trainings /\ BestOK(training) /\ StageOK(training)
      /\ UNCHANGED <<adapter, live, cal, folder, effort>>
  BY DEF TrainInv, ExperimentsTyped, RadarEpoch, DesklibEpoch, TrialEpoch, Only
<1>5. m \in [score : Measures, auroc : Measures] /\ p \in Nat /\ a \in Nat
  <2>1. \A x \in Measures : x \in Nat
    BY ExperimentsAssumption
  <2> QED BY <2>1
<1>6. /\ t.best \in Int /\ t.ties \in Nat /\ t.stale \in Nat /\ Len(t.seen) \in Nat /\ t.kept \in Nat
      /\ Len(training.seen) \in Nat
  BY <1>3, <1>4 DEF Trainings, Epochs
<1>7. Keep(t, m) \in Trainings /\ [Keep(t, m) EXCEPT !.ties = t.ties + 1] \in Trainings
      /\ [t EXCEPT !.stale = t.stale + 1] \in Trainings
  <2>1. Keep(t, m) = [t EXCEPT !.best = p, !.auroc = a, !.kept = Len(t.seen), !.stale = 0]
    BY DEF Keep
  <2>2. PICK i \in Int, j \in Int, k \in Nat, l \in Nat, n \in Nat :
            i = p /\ j = a /\ k = Len(t.seen) /\ l = t.ties + 1 /\ n = t.stale + 1
    <3>1. p \in Int /\ a \in Int /\ Len(t.seen) \in Nat /\ t.ties + 1 \in Nat /\ t.stale + 1 \in Nat
      BY <1>5, <1>6
    <3> HIDE DEF m
    <3> QED BY <3>1
  <2>6. t \in Trainings
    BY <1>3
  <2> HIDE DEF m
  <2>3. Keep(t, m) \in Trainings
    <3>1. PICK s : s = [t EXCEPT !.best = i, !.auroc = j]
      OBVIOUS
    <3>2. s \in Trainings
      BY <3>1, <2>6 DEF Trainings
    <3>3. Keep(t, m) = [s EXCEPT !.kept = k, !.stale = 0]
      BY <2>1, <2>2, <3>1
    <3>4. [s EXCEPT !.kept = k, !.stale = 0] \in Trainings
      BY <3>2 DEF Trainings
    <3> QED BY <3>3, <3>4
  <2>4. [t EXCEPT !.stale = n] \in Trainings
    BY <1>3 DEF Trainings
  <2>5. [Keep(t, m) EXCEPT !.ties = l] \in Trainings
    BY <2>3 DEF Trainings
  <2> QED BY <2>2, <2>3, <2>4, <2>5
<1>8. \/ training' = Keep(t, m) /\ (training.tool = "radar" => p > t.best + PaurocTie)
                                /\ (training.tool # "radar" => p > t.best)
      \/ training' = [Keep(t, m) EXCEPT !.ties = t.ties + 1] /\ training.tool = "radar"
                                /\ p \in (t.best - PaurocTie)..(t.best + PaurocTie)
      \/ training' = t /\ training.tool = "radar" /\ ~(p > t.best + PaurocTie)
                       /\ ~TiedButBetter(t, m)
      \/ training' = t /\ training.tool = "desklib" /\ ~(p > t.best)
      \/ training' = [t EXCEPT !.stale = t.stale + 1] /\ training.tool = "trial" /\ ~(p > t.best)
  <2>0. m.score = p /\ m.auroc = a
    OBVIOUS
  <2>1. CASE training.tool = "radar"
    <3>1. training' = RadarSelect(t, m)
      BY <2>1, <1>1, <1>2
    <3>2. RadarSelect(t, m) = IF p > t.best + PaurocTie THEN Keep(t, m)
                              ELSE IF TiedButBetter(t, m) THEN [Keep(t, m) EXCEPT !.ties = @ + 1] ELSE t
      BY <2>0 DEF RadarSelect, ClearlyBetter
    <3>3. Keep(t, m).ties = t.ties
      BY <1>3 DEF Keep, Trainings
    <3>4. TiedButBetter(t, m) => p \in (t.best - PaurocTie)..(t.best + PaurocTie)
      BY <2>0 DEF TiedButBetter
    <3> HIDE DEF m
    <3> QED BY <2>1, <3>1, <3>2, <3>3, <3>4
  <2>2. CASE training.tool = "desklib"
    BY <2>2, <1>1, <1>2 DEF DesklibSelect
  <2>3. CASE training.tool = "trial"
    BY <2>3, <1>1, <1>2 DEF TrialSelect
  <2> QED BY <1>1, <2>1, <2>2, <2>3
<1>9. /\ training' \in Trainings
      /\ training'.seen = t.seen /\ training'.stage = "train" /\ training'.tool = t.tool /\ training'.seed = t.seed
  <2>1. training' \in Trainings
    BY <1>3, <1>7, <1>8
  <2>2. \A k : k = Keep(t, m) => k.seen = t.seen /\ k.stage = t.stage /\ k.tool = t.tool /\ k.seed = t.seed
    BY <1>3 DEF Keep, Trainings
  <2>3. \A k : k = [Keep(t, m) EXCEPT !.ties = t.ties + 1] =>
            k.seen = t.seen /\ k.stage = t.stage /\ k.tool = t.tool /\ k.seed = t.seed
    BY <1>3 DEF Keep, Trainings
  <2>4. \A k : k = [t EXCEPT !.stale = t.stale + 1] => k.seen = t.seen /\ k.stage = t.stage /\ k.tool = t.tool /\ k.seed = t.seed
    BY <1>3 DEF Trainings
  <2> HIDE DEF m
  <2> QED BY <1>3, <1>8, <2>1, <2>2, <2>3, <2>4
<1>10. BestOK(training')
  <2> DEFINE T == PaurocTie
  <2>1. T \in Nat /\ \A k \in Nat : /\ T * (k + 1) \in Nat /\ T * (k + 1) >= T
                                    /\ T * (k + 1 + 1) = T * (k + 1) + T
    BY SlackGrows
  <2>2. t.kept = 0 => t.best = -1 - T
    BY <1>3, <1>4 DEF BestOK, Nothing
  <2>3. Slack(training) = Slack(t) /\ Slack(t) = (IF t.tool = "radar" THEN T * (t.ties + 1) ELSE 0)
    BY <1>3 DEF Slack
  <2>4. CASE training' = Keep(t, m) /\ p >= t.best
    <3>1. /\ training'.kept = Len(t.seen) /\ training'.best = p /\ training'.ties = t.ties /\ training'.tool = t.tool
      BY <2>4, <1>3 DEF Keep, Trainings
    <3>2. Slack(training') = Slack(t) /\ Slack(t) \in Nat
      BY <3>1, <2>1, <2>3, <1>6 DEF Slack
    <3>3. training.best + Slack(training) <= training'.best + Slack(training')
      BY <3>1, <3>2, <2>3, <2>4, <1>3, <1>5, <1>6
    <3> QED BY <3>1, <3>3, <1>3, <1>4, <1>5, <1>9, Judged
  <2>5. CASE training' = [Keep(t, m) EXCEPT !.ties = t.ties + 1] /\ training.tool = "radar"
             /\ p \in (t.best - PaurocTie)..(t.best + PaurocTie)
    <3>1. /\ training'.kept = Len(t.seen) /\ training'.best = p /\ training'.ties = t.ties + 1 /\ training'.tool = t.tool
      BY <2>5, <1>3 DEF Keep, Trainings
    <3>2. Slack(training') = T * (t.ties + 1 + 1) /\ Slack(t) = T * (t.ties + 1)
      BY <3>1, <2>3, <2>5, <1>3 DEF Slack
    <3>3. training.best + Slack(training) <= training'.best + Slack(training')
      <4> HIDE DEF m
      <4>1. \E k \in Nat : Slack(t) = k /\ Slack(training') = k + T
        BY <3>2, <2>1, <1>6
      <4>2. training.best = t.best /\ p >= t.best - T
        BY <2>5, <1>3, <1>5, <1>6, <2>1
      <4> QED BY <4>1, <4>2, <3>1, <2>1, <2>3, <1>5, <1>6, SMTT(60)
    <3> QED BY <3>1, <3>3, <1>3, <1>4, <1>5, <1>9, Judged
  <2>6. CASE /\ training'.kept = t.kept /\ training'.best = t.best /\ training'.ties = t.ties
             /\ ~(p > t.best + Slack(t)) /\ t.kept # 0
    <3>1. Slack(training') = Slack(training)
      BY <2>3, <2>6, <1>9 DEF Slack
    <3>2. Slack(t) \in Nat
      BY <2>1, <2>3, <1>6
    <3>3. p <= training.best + Slack(training)
      BY <2>3, <2>6, <3>2, <1>3, <1>5, <1>6
    <3> QED BY <2>6, <3>1, <3>3, <1>3, <1>4, <1>5, <1>9, Judged
  <2>7. CASE training' = t /\ training.tool = "radar" /\ ~(p > t.best + PaurocTie)
    <3>1. t.kept # 0
      BY <2>1, <2>2, <2>7, <1>5
    <3>2. ~(p > t.best + Slack(t))
      BY <2>1, <2>3, <2>7, <1>3, <1>5, <1>6, SMTT(60)
    <3> QED BY <2>6, <2>7, <3>1, <3>2
  <2>8. CASE (training' = t \/ training' = [t EXCEPT !.stale = t.stale + 1]) /\ training.tool # "radar" /\ ~(p > t.best)
    <3>1. t.kept # 0
      BY <2>1, <2>2, <2>8, <1>5
    <3>2. ~(p > t.best + Slack(t))
      BY <2>3, <2>8, <1>3, <1>5, <1>6
    <3>3. training'.kept = t.kept /\ training'.best = t.best /\ training'.ties = t.ties
      BY <2>8, <1>3 DEF Trainings
    <3> QED BY <2>6, <3>1, <3>2, <3>3
  <2> QED BY <1>8, <2>1, <1>5, <1>6, <1>1, <2>4, <2>5, <2>7, <2>8
<1>11. StageOK(training')
  BY <1>3, <1>4, <1>1, <1>9 DEF StageOK
<1>12. ExperimentsTyped' /\ AdapterOK'
  BY <1>4, <1>9 DEF TrainInv, ExperimentsTyped, AdapterOK
<1> QED BY <1>10, <1>11, <1>12 DEF TrainInv

(* The seed that is released has an adapter.                                  *)
LEMMA ReleaseSeed ==
    ASSUME TrainInv, NEW tried \in SUBSET Seeds, Calibrate(tried)
    PROVE  adapter[BestSeed(tried)] \in Weights
<1>1. /\ tried # {} /\ \A s \in tried : s \in Seeds /\ adapter[s] \in Weights /\ s \in Int
      /\ IsFiniteSet(tried)
  <2>1. tried # {} /\ \A s \in tried : adapter[s] # None
    BY DEF Calibrate
  <2>2. \A s \in tried : adapter[s] \in Weights \cup {None}
    BY DEF TrainInv, ExperimentsTyped
  <2>3. IsFiniteSet(tried) /\ \A s \in tried : s \in Int
    <3>1. \A s \in Seeds : s \in Int
      BY ExperimentsAssumption
    <3> QED BY <3>1, FS_Subset, ExperimentsAssumption
  <2> QED BY <2>1, <2>2, <2>3
<1>2. \A s \in tried : Catches(adapter[s]) \in Nat
  <2> SUFFICES ASSUME NEW s \in tried PROVE Catches(adapter[s]) \in Nat
    OBVIOUS
  <2>1. Long \in SUBSET Answers /\ IsFiniteSet(Long)
    BY FS_Subset, ExperimentsAssumption DEF Long
  <2>2. \A a \in Long : Combined(adapter[s])[a] \in Int
    BY <1>1, <2>1, ExperimentsAssumption DEF Combined, Weights, TrainInv, ExperimentsTyped
  <2>3. Num \in Nat /\ Den \in Nat
    BY ExperimentsAssumption
  <2> QED BY <2>1, <2>2, <2>3, OracleCounts DEF Catches
<1> DEFINE best == {s \in tried : \A o \in tried : Catches(adapter[o]) <= Catches(adapter[s])}
           R == {p \in tried \X tried : Catches(adapter[p[1]]) > Catches(adapter[p[2]])}
<1>3. StrictOn(R, tried)
  BY <1>2 DEF StrictOn
<1>4. PICK s \in tried : \A o \in tried : <<o, s>> \notin R
  <2> HIDE DEF R
  <2> QED BY <1>1, <1>3, Extremal
<1>5. ASSUME NEW o \in tried, ~(Catches(adapter[o]) <= Catches(adapter[s])) PROVE FALSE
  <2>1. <<o, s>> \in R
    BY <1>2, <1>5
  <2> QED BY <2>1, <1>4
<1>6. best # {} /\ best \in SUBSET Int /\ IsFiniteSet(best)
  <2>1. best \in SUBSET tried
    OBVIOUS
  <2> QED BY <1>1, <1>5, <2>1, FS_Subset
<1>7. BestSeed(tried) \in best
  <2>1. BestSeed(tried) = Min(best)
    BY DEF BestSeed
  <2> HIDE DEF best
  <2> QED BY <1>6, <2>1, MinIn
<1> QED BY <1>1, <1>7

(* A step outside of training leaves what TrainInv speaks of, or moves the    *)
(* release on.                                                               *)
LEMMA ReleaseTrain ==
    ASSUME TrainInv, ReleaseStep \/ Killed
    PROVE  TrainInv'
<1>1. CASE Killed
  <2>1. training' = NoTraining /\ UNCHANGED <<adapter, live, folder>> /\ cal' = [cal EXCEPT !.stage = "none"]
    BY <1>1 DEF Killed
  <2>2. ExperimentsTyped'
    BY <2>1, StartsTyped DEF TrainInv, ExperimentsTyped
  <2>3. training'.stage = "none"
    BY <2>1 DEF NoTraining
  <2>4. BestOK(training') /\ StageOK(training')
    BY <2>1, NoTrainingOK
  <2> QED BY <2>2, <2>3, <2>4 DEF TrainInv, AdapterOK
<1>2. CASE ReleaseStep
  <2>1. UNCHANGED <<training, adapter>>
    BY <1>2 DEF ReleaseStep, Calibrate, ReleaseAdapter, ReleaseSettings, AdoptDesklib
  <2>2. ExperimentsTyped'
    <3>1. CASE \E tried \in SUBSET Seeds : Calibrate(tried)
      <4>1. PICK tried \in SUBSET Seeds : Calibrate(tried)
        BY <3>1
      <4>2. PICK w \in Weights : w = adapter[BestSeed(tried)]
        BY <4>1, ReleaseSeed
      <4>3. Fitted(w) \in Settings
        BY <4>2 DEF TrainInv, ExperimentsTyped, Settings, Fitted, CalibratedThreshold, Combined
      <4>4. cal' = [stage |-> "copy", radar |-> w, settings |-> Fitted(w)] /\ UNCHANGED <<live, folder>>
        BY <4>1, <4>2 DEF Calibrate
      <4> QED BY <2>1, <4>3, <4>4 DEF TrainInv, ExperimentsTyped
    <3>2. CASE ReleaseAdapter
      BY <2>1, <3>2 DEF TrainInv, ExperimentsTyped, ReleaseAdapter
    <3>3. CASE ReleaseSettings
      BY <2>1, <3>3 DEF TrainInv, ExperimentsTyped, ReleaseSettings
    <3>4. CASE \E v \in Versions : AdoptDesklib(v)
      BY <2>1, <3>4 DEF TrainInv, ExperimentsTyped, AdoptDesklib
    <3> QED BY <1>2, <3>1, <3>2, <3>3, <3>4 DEF ReleaseStep
  <2> QED BY <2>1, <2>2 DEF TrainInv, AdapterOK
<1> QED BY <1>1, <1>2

(* All of a training run.                                                     *)
LEMMA TrainingTrain ==
    ASSUME TrainInv, TrainingStep
    PROVE  TrainInv'
<1>1. CASE \E s \in Seeds : StartRadar(s) \/ StartDesklib(s) \/ StartTrial(s)
  BY <1>1, StartsStep DEF StartRadar, StartDesklib, StartTrial, Tools
<1>2. CASE RadarBaseline \/ DesklibBaseline
  BY <1>2, BaselineStep
<1>3. CASE (\E p, a \in Measures : RadarEpoch(p, a)) \/ (\E m \in Measures : DesklibEpoch(m) \/ TrialEpoch(m))
  BY <1>3, EpochStep
<1>4. CASE \/ RadarRestore \/ DesklibRestore \/ TrialRestore
           \/ RadarProtocol \/ DesklibProtocol \/ TrialProtocol
           \/ RadarScores \/ DesklibScores \/ TrialScores
           \/ DesklibAdapter \/ TrialAdapter
  BY <1>4, FreezeStep
<1>5. CASE RadarAdapter
  <2>1. /\ training \in Trainings /\ training.stage = "adapter" /\ training.tool = "radar"
        /\ training' = [training EXCEPT !.stage = "ended"]
        /\ adapter' = [adapter EXCEPT ![training.seed] = training.weights] /\ UNCHANGED <<live, cal, folder>>
    BY <1>5 DEF TrainInv, ExperimentsTyped, RadarAdapter, Is
  <2>2. BestOK(training) /\ StageOK(training)
    BY DEF TrainInv
  <2>3. training' \in Trainings
    BY <2>1 DEF Trainings, Stages
  <2>4. /\ training'.stage = "ended" /\ training'.seen = training.seen /\ training'.kept = training.kept
        /\ training'.best = training.best /\ training'.ties = training.ties /\ training'.tool = training.tool
        /\ training'.seed = training.seed /\ training'.weights = training.weights /\ training'.tuned = training.tuned
        /\ training'.saved = training.saved
    BY <2>1 DEF Trainings
  <2>5. BestOK(training')
    BY <2>1, <2>2, <2>3, <2>4, Moves
  <2>6. StageOK(training')
    BY <2>1, <2>2, <2>4 DEF StageOK
  <2>7. training.seed \in Seeds /\ training.weights = training.kept /\ training.kept \in Weights
    <3>1. Len(training.seen) \in Nat /\ training.kept \in Nat
      BY <2>1 DEF Trainings, Epochs
    <3> QED BY <2>1, <2>2, <3>1, ExperimentsAssumption DEF StageOK, BestOK, Weights
  <2>8. adapter' \in [Seeds -> Weights \cup {None}] /\ adapter'[training.seed] = training.kept
    BY <2>1, <2>7 DEF TrainInv, ExperimentsTyped
  <2>9. ExperimentsTyped'
    BY <2>1, <2>3, <2>8 DEF TrainInv, ExperimentsTyped
  <2> QED BY <2>4, <2>5, <2>6, <2>8, <2>9 DEF TrainInv, AdapterOK
<1>6. CASE Exit
  <2>1. training' = NoTraining /\ UNCHANGED <<adapter, live, cal, folder, effort>>
    BY <1>6 DEF Exit, Only
  <2>2. training'.stage = "none"
    BY <2>1 DEF NoTraining
  <2> QED BY <2>1, <2>2, NoTrainingOK, StartsTyped DEF TrainInv, ExperimentsTyped, AdapterOK
<1> QED BY <1>1, <1>2, <1>3, <1>4, <1>5, <1>6 DEF TrainingStep

(* The repository as it is.                                                   *)
LEMMA InitTrain ==
    ASSUME Init
    PROVE  TrainInv
<1>1. Min(Versions) \in Versions
  BY ExperimentsAssumption, MinIn
<1>2. training = NoTraining /\ live \in Versions
  BY <1>1 DEF Init, ExperimentInit
<1>3. ShippedEpoch \in Weights
  BY ExperimentsAssumption DEF Weights
<1>4. Fitted(ShippedEpoch) \in Settings
  BY <1>2, <1>3 DEF Settings, Fitted, CalibratedThreshold, Combined
<1>5. ExperimentsTyped
  BY <1>2, <1>3, <1>4, StartsTyped DEF ExperimentsTyped, Init, ExperimentInit
<1>6. training.stage = "none"
  BY <1>2 DEF NoTraining
<1> QED BY <1>2, <1>5, <1>6, NoTrainingOK DEF TrainInv, AdapterOK

(* Every step keeps TrainInv.                                                 *)
LEMMA NextTrain ==
    ASSUME TrainInv, [Next]_scoringVars
    PROVE  TrainInv'
<1>1. CASE TrainingStep
  BY <1>1, TrainingTrain
<1>2. CASE ReleaseStep \/ Killed
  BY <1>2, ReleaseTrain
<1>3. CASE UNCHANGED <<training, adapter, live, cal, folder>>
  BY <1>3 DEF TrainInv, ExperimentsTyped, AdapterOK
<1>4. \/ TrainingStep \/ ReleaseStep \/ Killed
      \/ UNCHANGED <<training, adapter, live, cal, folder>>
  BY DEF Next, Begin, Continue, Deploy, ConfigureApi, Released, scoringVars, experimentVars
<1> QED BY <1>1, <1>2, <1>3, <1>4

(* A training run that ended has scored, saved and stored the epoch it kept,  *)
(* and no other epoch was better by more than its ties explain.               *)
THEOREM KeptEpoch == Spec => []KeptEpochShips
<1>1. TrainInv => KeptEpochShips
  <2> SUFFICES ASSUME TrainInv, training.stage = "ended" PROVE
          /\ training.weights = training.kept /\ training.saved.tuned = training.kept
          /\ training.saved.baseline \in {None, 0}
          /\ training.tool = "radar" => adapter[training.seed] = training.kept
          /\ LET slack == IF training.tool = "radar" THEN PaurocTie * (training.ties + 1) ELSE 0
             IN  \A i \in DOMAIN training.seen : training.seen[i].score <= training.seen[training.kept].score + slack
    BY DEF KeptEpochShips
  <2>1. training \in Trainings /\ BestOK(training) /\ StageOK(training) /\ AdapterOK
    BY DEF TrainInv, ExperimentsTyped
  <2>2. training.saved.baseline \in {None, 0}
    BY <2>1 DEF Trainings
  <2>3. training.weights = training.kept /\ training.saved.tuned = training.kept
    BY <2>1 DEF StageOK
  <2>4. training.seen # <<>> => training.kept # 0
    BY <2>1 DEF BestOK
  <2>5. DOMAIN <<>> = {}
    OBVIOUS
  <2>6. \A i \in DOMAIN training.seen : training.seen[i].score <= training.seen[training.kept].score + Slack(training)
    BY <2>1, <2>4, <2>5 DEF BestOK
  <2> QED BY <2>1, <2>2, <2>3, <2>6 DEF AdapterOK, Slack
<1> QED BY <1>1, InitTrain, NextTrain, PTL DEF Spec

(* --------------------------------- rates ---------------------------------- *)
(* The students' answers among those a threshold is fitted on.                *)
Humans == Wrote(Long, Ai).humans

(* The answers of students a threshold is fitted on.                          *)
LEMMA HumansFinite == IsFiniteSet(Long) /\ IsFiniteSet(Humans) /\ Humans \subseteq Answers /\ Cardinality(Humans) \in Nat
<1>1. Long \in SUBSET Answers /\ IsFiniteSet(Long)
  BY FS_Subset, ExperimentsAssumption DEF Long
<1>2. Humans \in SUBSET Long
  BY DEF Humans, Wrote
<1> QED BY <1>1, <1>2, FS_Subset, FS_CardinalityType

(* What a table of scores promises with the threshold fitted on it.          *)
LEMMA SettingsKeep ==
    ASSUME NEW s \in Settings, Humans # {}
    PROVE  /\ s.threshold \in Int /\ s.desklib \in Versions /\ s.radar \in Weights
           /\ \A a \in Humans : ScoreOf[s.desklib][s.radar][a] \in Int
           /\ Cardinality({a \in Humans : ScoreOf[s.desklib][s.radar][a] >= s.threshold}) * Den
                  <= Num * Cardinality(Humans)
<1>1. PICK v \in Versions, w \in Weights :
          s = [desklib |-> v, radar |-> w, threshold |-> ThresholdAtFpr(Long, Ai, ScoreOf[v][w], Num, Den)]
  BY DEF Settings
<1>2. \A a \in Answers : ScoreOf[v][w][a] \in Int
  BY ExperimentsAssumption DEF Weights
<1>3. \A a \in Long : ScoreOf[v][w][a] \in Int
  BY <1>2 DEF Long
<1>4. Num \in Nat /\ Den \in Nat
  BY ExperimentsAssumption
<1>5. /\ s.threshold \in Int
      /\ Cardinality({a \in Humans : ScoreOf[v][w][a] >= s.threshold}) * Den <= Num * Cardinality(Humans)
  BY <1>1, <1>3, <1>4, HumansFinite, ThresholdKeepsBudget DEF Humans
<1>6. s.desklib = v /\ s.radar = w
  BY <1>1
<1> QED BY <1>2, <1>5, <1>6, HumansFinite

(* Requests begin well typed.                                                 *)
LEMMA BlankTypes ==
    /\ NoImage \in Images \cup {NoImage}
    /\ NoCall \in Calls /\ NoRequest \in Requests
    /\ Admin \in People
<1>1. Admin \in People
  BY ChecksAssumption
<1> QED BY <1>1 DEF NoCall, NoRequest, Calls, Requests

(* The repository as it is.                                                   *)
LEMMA InitScore ==
    ASSUME Init
    PROVE  ScoreInv
<1>1. TrainInv
  BY InitTrain
<1>2. image \in Images
  BY <1>1 DEF TrainInv, ExperimentsTyped, Init, Built, Images
<1>3. call = [c \in Callers |-> NoCall] /\ request = [c \in Callers |-> NoRequest] /\ rows = EarlierRows
  BY DEF Init
<1>4. ScoringTyped
  BY <1>2, <1>3, BlankTypes DEF ScoringTyped
<1>5. \A c \in Callers : RequestOK(c)
  BY <1>3 DEF RequestOK, NoRequest
<1> QED BY <1>3, <1>4, <1>5, EarlierRowsAssumption DEF ScoreInv

(* A step that writes one call and one request, and no row.                  *)
LEMMA OneRequest ==
    ASSUME ScoreInv, NEW c \in Callers, NEW k \in Calls, NEW q \in Requests,
           call' = [call EXCEPT ![c] = k], request' = [request EXCEPT ![c] = q],
           UNCHANGED <<image, rows>>,
           q.at = "asking" /\ k.at \in {"waiting", "inside"} => k.text = q.answer,
           q.at = "asking" /\ k.at = "answered" => Near(k.score, k.by, q.answer),
           q.at = "scored" => Near(q.score, q.by, q.answer)
    PROVE  ScoreInv'
<1>1. ScoringTyped'
  BY DEF ScoreInv, ScoringTyped
<1>2. call'[c] = k /\ request'[c] = q
  BY DEF ScoreInv, ScoringTyped
<1>3. \A o \in Callers \ {c} : call'[o] = call[o] /\ request'[o] = request[o]
  BY DEF ScoreInv, ScoringTyped
<1>4. RequestOK(c)'
  BY <1>2 DEF RequestOK, InDetector
<1>5. \A o \in Callers \ {c} : RequestOK(o)'
  BY <1>3 DEF ScoreInv, RequestOK, InDetector
<1>6. \A r \in rows' : Explained(r)
  BY DEF ScoreInv
<1> QED BY <1>1, <1>4, <1>5, <1>6 DEF ScoreInv

(* A new request sends its own text.                                          *)
LEMMA BeginScore ==
    ASSUME ScoreInv, Begin
    PROVE  ScoreInv'
<1>1. CASE \E c \in Callers : Ask(c, Submission[c].actor, Submission[c].answer)
  <2>1. PICK c \in Callers : Ask(c, Submission[c].actor, Submission[c].answer)
    BY <1>1
  <2>2. PICK p \in People, a \in Answers : p = Submission[c].actor /\ a = Submission[c].answer
    BY ScoringAssumption
  <2> DEFINE q == [NoRequest EXCEPT !.at = "asking", !.actor = p, !.answer = a]
             k == [NoCall EXCEPT !.at = "waiting", !.text = a]
  <2>3. q \in Requests /\ k \in Calls
    BY BlankTypes DEF Requests, Calls
  <2>4. q.at = "asking" /\ q.answer = a /\ k.at = "waiting" /\ k.text = a
    BY DEF NoRequest, NoCall
  <2>5. call' = [call EXCEPT ![c] = k] /\ request' = [request EXCEPT ![c] = q] /\ UNCHANGED <<image, rows>>
    BY <2>1, <2>2 DEF Ask
  <2> HIDE DEF q, k
  <2> QED BY <2>3, <2>4, <2>5, OneRequest
<1>2. CASE UNCHANGED <<image, call, request, rows>>
  BY <1>2 DEF ScoreInv, ScoringTyped, RequestOK, InDetector
<1> QED BY <1>1, <1>2 DEF Begin, StartWalk, detectorVars

(* The detector scores the text it was sent, with the image it runs.          *)
LEMMA DetectorScore ==
    ASSUME ScoreInv, NEW c \in Callers, DetectorStep(c)
    PROVE  ScoreInv'
<1>1. /\ image \in Images /\ call \in [Callers -> Calls] /\ request \in [Callers -> Requests] /\ RequestOK(c)
      /\ call[c] \in Calls /\ request[c] \in Requests
      /\ UNCHANGED <<image, request, rows>>
  BY DEF ScoreInv, ScoringTyped, DetectorStep, TakeLock, ScoreText, checkVars
<1>2. request' = [request EXCEPT ![c] = request[c]]
  BY <1>1
<1>3. CASE TakeLock(c)
  <2> DEFINE k == [call[c] EXCEPT !.at = "inside"]
  <2>1. call' = [call EXCEPT ![c] = k] /\ call[c].at = "waiting"
    BY <1>3 DEF TakeLock
  <2>2. k \in Calls /\ k.at = "inside" /\ k.text = call[c].text
    BY <1>1 DEF Calls
  <2>3. request[c].at = "asking" => k.text = request[c].answer
    BY <1>1, <2>1, <2>2 DEF RequestOK, InDetector
  <2>4. request[c].at = "scored" => Near(request[c].score, request[c].by, request[c].answer)
    BY <1>1 DEF RequestOK
  <2> HIDE DEF k
  <2> QED BY <1>1, <1>2, <2>1, <2>2, <2>3, <2>4, OneRequest
<1>4. CASE call[c].at = "inside" /\ \E ok \in BOOLEAN, s \in Served(call[c].text) : ScoreText(c, ok, s, request[c].at = "asking")
  <2>1. PICK ok \in BOOLEAN, s \in Served(call[c].text) : ScoreText(c, ok, s, request[c].at = "asking")
    BY <1>4
  <2> DEFINE k == Outcome(ok, s, request[c].at = "asking")
  <2>2. call' = [call EXCEPT ![c] = k]
    BY <2>1 DEF ScoreText
  <2>3. s \in Scores /\ s \in Int
    BY ScoringAssumption DEF Served
  <2>4. k \in Calls
    BY <1>1, <2>3, BlankTypes DEF Outcome, Calls
  <2>5. k.at \in {"gone", "answered", "failed"}
    BY DEF Outcome, NoCall
  <2>6. ASSUME k.at = "answered", request[c].at = "asking"
        PROVE  Near(k.score, k.by, request[c].answer)
    <3>1. ok /\ k.score = s /\ k.by = image
      BY <2>6 DEF Outcome, NoCall
    <3>2. Accepted(image)
      BY <2>1, <3>1 DEF ScoreText, Attempt
    <3>3. call[c].text = request[c].answer
      BY <1>1, <1>4, <2>6 DEF RequestOK, InDetector
    <3>4. Untorn(image) => Distance(s, ScoreOf[image.desklib][image.radar][request[c].answer]) \in {0, Noise}
      BY <3>3 DEF Served
    <3> HIDE DEF k
    <3> QED BY <1>1, <2>3, <3>1, <3>2, <3>4 DEF Near
  <2>7. request[c].at = "scored" => Near(request[c].score, request[c].by, request[c].answer)
    BY <1>1 DEF RequestOK
  <2> HIDE DEF k
  <2> QED BY <1>1, <1>2, <2>2, <2>4, <2>5, <2>6, <2>7, OneRequest
<1> QED BY <1>3, <1>4 DEF DetectorStep

(* The answer is heard, or nobody waits for it any more.                      *)
LEMMA AnswerScore ==
    ASSUME ScoreInv, NEW c \in Callers, TimeOut(c) \/ Hear(c)
    PROVE  ScoreInv'
<1>1. /\ call \in [Callers -> Calls] /\ request \in [Callers -> Requests] /\ RequestOK(c)
      /\ call[c] \in Calls /\ request[c] \in Requests /\ request[c].at = "asking"
      /\ UNCHANGED <<image, rows>>
  BY DEF ScoreInv, ScoringTyped, TimeOut, Hear, detectorVars
<1>2. CASE TimeOut(c)
  <2> DEFINE q == [NoRequest EXCEPT !.at = "504"]
  <2>1. request' = [request EXCEPT ![c] = q] /\ call' = [call EXCEPT ![c] = call[c]]
    BY <1>1, <1>2 DEF TimeOut, detectorVars
  <2>2. q \in Requests /\ q.at = "504"
    BY BlankTypes DEF Requests
  <2> HIDE DEF q
  <2> QED BY <1>1, <2>1, <2>2, OneRequest
<1>3. CASE Hear(c)
  <2> DEFINE k == [NoCall EXCEPT !.at = "heard"]
             q == IF call[c].at = "answered"
                  THEN [request[c] EXCEPT !.at = "scored", !.score = call[c].score, !.by = call[c].by]
                  ELSE [NoRequest EXCEPT !.at = "503"]
  <2>1. request' = [request EXCEPT ![c] = q] /\ call' = [call EXCEPT ![c] = k]
    BY <1>3 DEF Hear
  <2>2. k \in Calls /\ k.at = "heard"
    BY BlankTypes DEF Calls
  <2>3. q \in Requests
    <3>1. [NoRequest EXCEPT !.at = "503"] \in Requests
      BY BlankTypes DEF Requests
    <3>2. call[c].score \in Int /\ call[c].by \in Images \cup {NoImage}
      BY <1>1 DEF Calls
    <3>3. [request[c] EXCEPT !.at = "scored", !.score = call[c].score, !.by = call[c].by] \in Requests
      BY <1>1, <3>2 DEF Requests
    <3> QED BY <3>1, <3>3
  <2>4. q.at = "scored" => Near(q.score, q.by, q.answer)
    <3>1. CASE call[c].at = "answered"
      <4>1. q.score = call[c].score /\ q.by = call[c].by /\ q.answer = request[c].answer
        BY <1>1, <3>1 DEF Requests
      <4> HIDE DEF q
      <4> QED BY <1>1, <3>1, <4>1 DEF RequestOK
    <3>2. CASE call[c].at # "answered"
      BY <3>2 DEF NoRequest
    <3> QED BY <3>1, <3>2
  <2>5. q.at # "asking"
    BY <1>1 DEF NoRequest, Requests
  <2> HIDE DEF k, q
  <2> QED BY <1>1, <2>1, <2>2, <2>3, <2>4, <2>5, OneRequest
<1> QED BY <1>2, <1>3

(* The abstention band is wider than the noise, so what is called AI          *)
(* generated scored above the threshold in the table, too.                   *)
LEMMA SaveScore ==
    ASSUME ScoreInv, NEW c \in Callers, NEW id \in Ids, NEW now \in Clock, Save(c, id, now)
    PROVE  ScoreInv'
<1>1. /\ call \in [Callers -> Calls] /\ request \in [Callers -> Requests] /\ RequestOK(c)
      /\ request[c] \in Requests /\ request[c].at = "scored"
      /\ UNCHANGED <<image, call>>
  BY DEF ScoreInv, ScoringTyped, Save, detectorVars
<1> DEFINE q == [NoRequest EXCEPT !.at = "201"]
           r == [id |-> id, actor |-> request[c].actor, created |-> now, answer |-> request[c].answer,
                 verdict |-> Decide(request[c].score, RawWords[request[c].answer]), threshold |-> threshold,
                 by |-> request[c].by]
<1>2. request' = [request EXCEPT ![c] = q] /\ call' = [call EXCEPT ![c] = call[c]] /\ rows' = rows \cup {r}
  BY <1>1 DEF Save
<1>3. q \in Requests /\ q.at = "201"
  BY BlankTypes DEF Requests
<1>4. Explained(r)
  <2> DEFINE by == request[c].by
             score == request[c].score
             answer == request[c].answer
  <2> SUFFICES ASSUME r.verdict = "ai_generated", answer \in Humans, Untorn(by), threshold = by.settings.threshold
               PROVE  /\ by \in Images /\ Accepted(by)
                      /\ ScoreOf[by.desklib][by.radar][answer] >= threshold
    BY DEF Explained, Humans
  <2>1. /\ by \in Images /\ Accepted(by) /\ score \in Int
        /\ Distance(score, ScoreOf[by.desklib][by.radar][answer]) \in {0, Noise}
    BY <1>1 DEF RequestOK, Near, Requests
  <2>2. by.settings \in Settings /\ by.settings.desklib = by.desklib /\ by.settings.radar = by.radar
    BY <2>1 DEF Images, Accepted, Untorn
  <2>3. threshold \in Int /\ ScoreOf[by.desklib][by.radar][answer] \in Int
    BY <2>2, SettingsKeep
  <2>4. ~(Distance(score, threshold) <= Band) /\ score > threshold
    BY DEF Decide
  <2>5. Noise \in Nat /\ Band \in Nat /\ Noise <= Band
    BY ScoringAssumption
  <2>6. \A s, x, t \in Int : Distance(s, x) \in {0, Noise} /\ ~(Distance(s, t) <= Band) /\ s > t => x >= t
    BY <2>5 DEF Distance
  <2> QED BY <2>1, <2>3, <2>4, <2>6
<1>5. ScoringTyped'
  <2> HIDE DEF q
  <2> QED BY <1>1, <1>2, <1>3 DEF ScoreInv, ScoringTyped
<1>6. \A o \in Callers : RequestOK(o)'
  <2>1. request'[c] = q /\ \A o \in Callers \ {c} : request'[o] = request[o]
    BY <1>1, <1>2
  <2>2. RequestOK(c)'
    <3> HIDE DEF q
    <3> QED BY <1>3, <2>1 DEF RequestOK
  <2>3. \A o \in Callers \ {c} : RequestOK(o)'
    BY <1>1, <2>1 DEF ScoreInv, RequestOK, InDetector
  <2> QED BY <2>2, <2>3
<1>7. \A o \in rows' : Explained(o)
  <2> HIDE DEF r
  <2> QED BY <1>2, <1>4 DEF ScoreInv
<1> QED BY <1>5, <1>6, <1>7 DEF ScoreInv

(* An image is built from a release; a restarted API has forgotten all.       *)
LEMMA RestartScore ==
    ASSUME ScoreInv, TrainInv, Deploy \/ ConfigureApi
    PROVE  ScoreInv'
<1>1. image \in Images /\ call \in [Callers -> Calls] /\ request \in [Callers -> Requests] /\ UNCHANGED rows
  BY DEF ScoreInv, ScoringTyped, Deploy, ConfigureApi, checkVars
<1>2. CASE Deploy
  <2>1. image' = Built /\ UNCHANGED request
        /\ call' = [c \in Callers |-> IF InDetector(c) THEN [NoCall EXCEPT !.at = "gone"] ELSE call[c]]
    BY <1>2 DEF Deploy, Started, checkVars
  <2>2. Built \in Images
    BY DEF TrainInv, ExperimentsTyped, Built, Images
  <2>3. [NoCall EXCEPT !.at = "gone"] \in Calls /\ [NoCall EXCEPT !.at = "gone"].at = "gone"
    BY BlankTypes DEF Calls
  <2>4. \A c \in Callers : call'[c] = call[c] \/ call'[c] = [NoCall EXCEPT !.at = "gone"]
    BY <2>1
  <2>5. call' \in [Callers -> Calls]
    BY <1>1, <2>1, <2>3
  <2>6. \A c \in Callers : RequestOK(c)'
    <3> SUFFICES ASSUME NEW c \in Callers PROVE RequestOK(c)'
      OBVIOUS
    <3>1. call'[c] = call[c] \/ call'[c].at = "gone"
      BY <2>3, <2>4
    <3> QED BY <2>1, <3>1 DEF ScoreInv, RequestOK, InDetector
  <2> QED BY <1>1, <2>1, <2>2, <2>5, <2>6 DEF ScoreInv, ScoringTyped
<1>3. CASE ConfigureApi
  <2>1. UNCHANGED <<image, call>>
        /\ request' = [c \in Callers |-> IF request[c].at \in {"asking", "scored"} THEN [NoRequest EXCEPT !.at = "lost"]
                                         ELSE request[c]]
    BY <1>3 DEF ConfigureApi, detectorVars
  <2>2. [NoRequest EXCEPT !.at = "lost"] \in Requests /\ [NoRequest EXCEPT !.at = "lost"].at = "lost"
    BY BlankTypes DEF Requests
  <2>3. request' \in [Callers -> Requests]
    BY <1>1, <2>1, <2>2
  <2>4. \A c \in Callers : request'[c].at \notin {"asking", "scored"}
    BY <2>1, <2>2
  <2>5. \A c \in Callers : RequestOK(c)'
    BY <2>4 DEF RequestOK
  <2> QED BY <1>1, <2>1, <2>3, <2>5 DEF ScoreInv, ScoringTyped
<1> QED BY <1>2, <1>3

(* Every step keeps ScoreInv.                                                 *)
LEMMA NextScore ==
    ASSUME ScoreInv, TrainInv, [Next]_scoringVars
    PROVE  ScoreInv'
<1>1. CASE Begin
  BY <1>1, BeginScore
<1>2. CASE \E c \in Callers : DetectorStep(c)
  BY <1>2, DetectorScore
<1>3. CASE \E c \in Callers : TimeOut(c) \/ Hear(c)
  BY <1>3, AnswerScore
<1>4. CASE \E c \in Callers, id \in Ids, now \in Clock : Save(c, id, now)
  BY <1>4, SaveScore
<1>5. CASE Deploy \/ ConfigureApi
  BY <1>5, RestartScore
<1>6. CASE UNCHANGED <<image, call, request, rows>>
  BY <1>6 DEF ScoreInv, ScoringTyped, RequestOK, InDetector
<1>7. ASSUME Continue PROVE
        \/ \E c \in Callers : DetectorStep(c) \/ TimeOut(c) \/ Hear(c) \/ \E id \in Ids, now \in Clock : Save(c, id, now)
        \/ UNCHANGED <<image, call, request, rows>>
  BY <1>7 DEF Continue, WarmUpStep, WarmUpBegins, WarmUpEnds, Attempt, NextPage, CloseWalk, detectorVars, checkVars
<1> QED BY <1>1, <1>2, <1>3, <1>4, <1>5, <1>6, <1>7 DEF Next, scoringVars, detectorVars, checkVars

(* What was flagged scored above the threshold, as the budget allows.         *)
LEMMA ScoreKeepsBudget ==
    ASSUME ScoreInv
    PROVE  BudgetKept
<1> SUFFICES ASSUME NEW r \in rows, Untorn(r.by), r.threshold = r.by.settings.threshold
             PROVE  Cardinality({o.answer : o \in {o \in rows : o.by = r.by /\ o.threshold = r.threshold
                                                                 /\ o.verdict = "ai_generated"}} \cap Humans) * Den
                        <= Num * Cardinality(Humans)
  BY DEF BudgetKept, Humans
<1> DEFINE alarms == {o \in rows : o.by = r.by /\ o.threshold = r.threshold /\ o.verdict = "ai_generated"}
           flagged == {o.answer : o \in alarms} \cap Humans
           table == ScoreOf[r.by.desklib][r.by.radar]
           above == {a \in Humans : table[a] >= r.threshold}
<1>1. Num \in Nat /\ Den \in Nat /\ Cardinality(Humans) \in Nat
  BY ExperimentsAssumption, HumansFinite
<1>2. CASE flagged = {}
  <2>1. Cardinality(flagged) = 0
    BY <1>2, FS_EmptySet
  <2>2. \A n, h \in Nat : 0 * Den <= n * h
    BY <1>1
  <2> QED BY <1>1, <2>1, <2>2
<1>3. CASE flagged # {}
  <2>1. /\ r.by \in Images /\ Accepted(r.by) /\ Humans # {}
        /\ \A a \in flagged : table[a] >= r.threshold
    <3>1. \A o \in alarms : o.answer \in Humans =>
             /\ o.by \in Images /\ Accepted(o.by)
             /\ ScoreOf[o.by.desklib][o.by.radar][o.answer] >= o.threshold
      BY DEF ScoreInv, Explained, Humans
    <3> QED BY <3>1, <1>3
  <2>2. r.by.settings \in Settings /\ r.by.settings.desklib = r.by.desklib /\ r.by.settings.radar = r.by.radar
    BY <2>1 DEF Images, Accepted, Untorn
  <2>3. Cardinality(above) * Den <= Num * Cardinality(Humans)
    BY <2>1, <2>2, SettingsKeep
  <2>4. flagged \in SUBSET above /\ above \in SUBSET Humans
    BY <2>1
  <2> HIDE DEF flagged, above
  <2>5. IsFiniteSet(above) /\ IsFiniteSet(flagged) /\ Cardinality(flagged) <= Cardinality(above)
    BY <2>4, FS_Subset, HumansFinite
  <2>6. Cardinality(above) \in Nat /\ Cardinality(flagged) \in Nat
    BY <2>5, FS_CardinalityType
  <2>7. \A m, n, h \in Nat : m <= n => m * Den <= n * Den
    BY <1>1
  <2>8. \A m, n, h, d, k \in Nat : m * d \in Nat
    OBVIOUS
  <2>9. Cardinality(flagged) * Den <= Cardinality(above) * Den
    BY <2>5, <2>6, <2>7
  <2>10. Cardinality(flagged) * Den \in Nat /\ Cardinality(above) * Den \in Nat /\ Num * Cardinality(Humans) \in Nat
    BY <1>1, <2>6, <2>8
  <2>11. \A x, y, z \in Nat : x <= y /\ y <= z => x <= z
    OBVIOUS
  <2>12. Cardinality(flagged) * Den <= Num * Cardinality(Humans)
    BY <2>3, <2>9, <2>10, <2>11
  <2> QED BY <2>12 DEF flagged
<1> QED BY <1>2, <1>3

(* The checks of the answers a detector's threshold was fitted on flag no     *)
(* more of the students' than the budget.                                     *)
THEOREM FalseAlarmsKept == Spec => []BudgetKept
<1>1. Init => TrainInv /\ ScoreInv
  BY InitTrain, InitScore
<1>2. TrainInv /\ ScoreInv /\ [Next]_scoringVars => TrainInv' /\ ScoreInv'
  BY NextTrain, NextScore
<1> QED BY <1>1, <1>2, ScoreKeepsBudget, PTL DEF Spec

(* ------------------------------- the pages -------------------------------- *)
(* What a query can order by.                                                 *)
Row(r) == r.id \in Nat \ {0} /\ r.created \in Int

(* Rows are in a total order, newest first, as long as ids tell them apart.  *)
LEMMA RowOrder ==
    ASSUME NEW S, \A r \in S : Row(r), \A r, o \in S : r.id = o.id => r = o
    PROVE  /\ \A a \in S : ~Older(a, a)
           /\ \A a, b, c \in S : Older(a, b) /\ Older(b, c) => Older(a, c)
           /\ \A a, b \in S : a = b \/ Older(a, b) \/ Older(b, a)
           /\ \A a, b \in S : Older(a, b) => ~Older(b, a)
<1>1. \A a \in S : ~Older(a, a)
  BY DEF Row, Older
<1>2. \A a, b, c \in S : Older(a, b) /\ Older(b, c) => Older(a, c)
  BY DEF Row, Older
<1>3. \A a, b \in S : a = b \/ Older(a, b) \/ Older(b, a)
  BY DEF Row, Older
<1>4. \A a, b \in S : Older(a, b) => ~Older(b, a)
  BY DEF Row, Older
<1> QED BY <1>1, <1>2, <1>3, <1>4

(* A set of rows has its newest and its oldest one.                          *)
LEMMA Ends ==
    ASSUME NEW S, IsFiniteSet(S), S # {}, \A r \in S : Row(r), \A r, o \in S : r.id = o.id => r = o
    PROVE  /\ \E r \in S : \A o \in S : ~Older(r, o)
           /\ \E r \in S : \A o \in S : ~Older(o, r)
<1> DEFINE R == {p \in S \X S : Older(p[1], p[2])}
           Q == {p \in S \X S : Older(p[2], p[1])}
<1>1. StrictOn(R, S)
  <2>1. \A x \in S : <<x, x>> \notin R
    BY RowOrder
  <2>2. ASSUME NEW x \in S, NEW y \in S, NEW z \in S, <<x, y>> \in R, <<y, z>> \in R PROVE <<x, z>> \in R
    BY <2>2, RowOrder
  <2> QED BY <2>1, <2>2 DEF StrictOn
<1>2. StrictOn(Q, S)
  <2>1. \A x \in S : <<x, x>> \notin Q
    BY RowOrder
  <2>2. ASSUME NEW x \in S, NEW y \in S, NEW z \in S, <<x, y>> \in Q, <<y, z>> \in Q PROVE <<x, z>> \in Q
    BY <2>2, RowOrder
  <2> QED BY <2>1, <2>2 DEF StrictOn
<1>3. PICK r \in S : \A o \in S : <<o, r>> \notin R
  <2> HIDE DEF R
  <2> QED BY <1>1, Extremal
<1>4. PICK s \in S : \A o \in S : <<o, s>> \notin Q
  <2> HIDE DEF Q
  <2> QED BY <1>2, Extremal
<1>5. \A o \in S : ~Older(o, r)
  <2> SUFFICES ASSUME NEW o \in S, Older(o, r) PROVE <<o, r>> \in R
    BY <1>3
  <2> QED OBVIOUS
<1>6. \A o \in S : ~Older(s, o)
  <2> SUFFICES ASSUME NEW o \in S, Older(s, o) PROVE <<o, s>> \in Q
    BY <1>4
  <2> QED OBVIOUS
<1> QED BY <1>5, <1>6

(* ORDER BY ... LIMIT n: whatever is newer than a row of it is in it; it has  *)
(* at most n rows, and all of them if there are no more.                     *)
LEMMA NewestUp ==
    ASSUME NEW S, IsFiniteSet(S), \A r \in S : Row(r), \A r, o \in S : r.id = o.id => r = o, NEW n \in Nat
    PROVE  \A r \in Newest(S, n), o \in S : Older(r, o) => o \in Newest(S, n)
<1> SUFFICES ASSUME NEW r \in Newest(S, n), NEW o \in S, Older(r, o) PROVE o \in Newest(S, n)
  OBVIOUS
<1> DEFINE A == {x \in S : Older(r, x)}
           B == {x \in S : Older(o, x)}
<1>1. r \in S /\ Cardinality(A) < n
  BY DEF Newest
<1>2. B \in SUBSET A /\ A \in SUBSET S
  BY <1>1, RowOrder
<1> HIDE DEF A, B
<1>3. IsFiniteSet(A) /\ IsFiniteSet(B) /\ Cardinality(B) <= Cardinality(A)
  BY <1>2, FS_Subset
<1>4. Cardinality(A) \in Nat /\ Cardinality(B) \in Nat
  BY <1>3, FS_CardinalityType
<1>5. Cardinality(B) < n
  BY <1>1, <1>3, <1>4
<1> QED BY <1>5 DEF Newest, B

(* At most n rows.                                                            *)
LEMMA NewestFew ==
    ASSUME NEW S, IsFiniteSet(S), \A r \in S : Row(r), \A r, o \in S : r.id = o.id => r = o, NEW n \in Nat
    PROVE  /\ IsFiniteSet(Newest(S, n)) /\ Newest(S, n) \in SUBSET S
           /\ Cardinality(Newest(S, n)) \in Nat /\ Cardinality(Newest(S, n)) <= n
<1> DEFINE N == Newest(S, n)
<1>1. N \in SUBSET S /\ IsFiniteSet(N)
  <2>1. N \in SUBSET S
    BY DEF Newest
  <2> QED BY <2>1, FS_Subset
<1>2. Cardinality(N) \in Nat
  BY <1>1, FS_CardinalityType
<1>3. Cardinality(N) <= n
  <2>1. CASE N = {}
    BY <2>1, FS_EmptySet
  <2>2. CASE N # {}
    <3>1. \A r \in N : Row(r)
      BY <1>1
    <3>2. \A r, o \in N : r.id = o.id => r = o
      BY <1>1
    <3>3. PICK last \in N : \A o \in N : ~Older(o, last)
      <4> HIDE DEF N
      <4> QED BY <1>1, <2>2, <3>1, <3>2, Ends
    <3> DEFINE A == {x \in S : Older(last, x)}
    <3>4. (N \ {last}) \in SUBSET A /\ A \in SUBSET S
      <4>1. \A o \in N \ {last} : Older(last, o)
        <5> HIDE DEF N
        <5> QED BY <3>1, <3>2, <3>3, RowOrder
      <4> QED BY <4>1, <1>1
    <3>5. Cardinality(A) < n
      BY DEF Newest
    <3> HIDE DEF A, N
    <3>6. IsFiniteSet(A) /\ Cardinality(N \ {last}) <= Cardinality(A) /\ Cardinality(N \ {last}) = Cardinality(N) - 1
      BY <1>1, <3>3, <3>4, FS_Subset, FS_RemoveElement
    <3>7. Cardinality(A) \in Nat
      BY <3>6, FS_CardinalityType
    <3> QED BY <1>2, <3>5, <3>6, <3>7
  <2> QED BY <2>1, <2>2
<1> QED BY <1>1, <1>2, <1>3

(* The newest row is among them.                                              *)
LEMMA NewestAll ==
    ASSUME NEW S, IsFiniteSet(S), \A r \in S : Row(r), \A r, o \in S : r.id = o.id => r = o,
           NEW n \in Nat \ {0}, S # {}
    PROVE  \E r \in Newest(S, n) : \A o \in S : ~Older(r, o)
<1>1. PICK r \in S : \A o \in S : ~Older(r, o)
  BY Ends
<1>2. {o \in S : Older(r, o)} = {}
  BY <1>1
<1>3. r \in Newest(S, n)
  <2>1. Cardinality({o \in S : Older(r, o)}) = 0
    BY <1>2, FS_EmptySet
  <2>2. 0 < n
    OBVIOUS
  <2> QED BY <2>1, <2>2 DEF Newest
<1> QED BY <1>1, <1>3

(* One page: the query reads one row more than it shows.                     *)
LEMMA Page ==
    ASSUME NEW S, IsFiniteSet(S), \A r \in S : Row(r), \A r, o \in S : r.id = o.id => r = o, NEW n \in Nat \ {0}
    PROVE  LET found == Newest(S, n + 1)
               page == Newest(found, n)
           IN  /\ page \in SUBSET S
               /\ \A r \in page, o \in S : Older(r, o) => o \in page
               /\ found = page => page = S
               /\ found # page => \E r \in page : \A o \in page : ~Older(o, r)
<1> DEFINE found == Newest(S, n + 1)
           page == Newest(found, n)
<1>1. found \in SUBSET S /\ IsFiniteSet(found) /\ n + 1 \in Nat /\ n \in Nat
  BY NewestFew
<1>2. (\A r \in found : Row(r)) /\ (\A r, o \in found : r.id = o.id => r = o)
  BY <1>1
<1>3. page \in SUBSET found /\ IsFiniteSet(page) /\ Cardinality(page) \in Nat /\ Cardinality(page) <= n
  <2> HIDE DEF found
  <2> QED BY <1>1, <1>2, NewestFew
<1>4. \A r \in found, o \in S : Older(r, o) => o \in found
  BY <1>1, NewestUp
<1>5. \A r \in page, o \in found : Older(r, o) => o \in page
  <2> HIDE DEF found
  <2> QED BY <1>1, <1>2, NewestUp
<1>6. ASSUME found = page, page # S PROVE FALSE
  <2> DEFINE rest == S \ page
  <2>1. rest # {} /\ rest \in SUBSET S /\ IsFiniteSet(rest)
    <3>1. rest # {} /\ rest \in SUBSET S
      BY <1>1, <1>3, <1>6
    <3> QED BY <3>1, FS_Subset
  <2>2. PICK r \in rest : \A o \in rest : ~Older(r, o)
    <3>1. (\A o \in rest : Row(o)) /\ (\A o, x \in rest : o.id = x.id => o = x)
      BY <2>1
    <3> HIDE DEF rest
    <3> QED BY <2>1, <3>1, Ends
  <2> DEFINE A == {o \in S : Older(r, o)}
  <2>3. A \in SUBSET page /\ r \in S /\ r \notin page
    BY <2>2
  <2>4. Cardinality(A) <= Cardinality(page) /\ IsFiniteSet(A)
    <3> HIDE DEF A, page
    <3> QED BY <2>3, <1>3, FS_Subset
  <2>5. Cardinality(A) \in Nat
    BY <2>4, FS_CardinalityType
  <2>6. Cardinality(A) < n + 1
    <3> HIDE DEF A, page
    <3> QED BY <2>4, <2>5, <1>3
  <2>7. r \in found
    BY <2>3, <2>6 DEF Newest
  <2> QED BY <1>6, <2>3, <2>7
<1>7. ASSUME found # page PROVE \E r \in page : \A o \in page : ~Older(o, r)
  <2>1. found # {}
    BY <1>3, <1>7
  <2>2. page # {}
    <3> HIDE DEF found
    <3> QED BY <1>1, <1>2, <2>1, NewestAll
  <2>3. (\A r \in page : Row(r)) /\ (\A r, o \in page : r.id = o.id => r = o)
    BY <1>2, <1>3
  <2> HIDE DEF page
  <2> QED BY <1>3, <2>2, <2>3, Ends
<1>8. \A r \in page, o \in S : Older(r, o) => o \in page
  <2> HIDE DEF page, found
  <2> QED BY <1>3, <1>4, <1>5
<1> QED BY <1>1, <1>3, <1>6, <1>7, <1>8

(* Pages are sets of rows.                                                    *)
LEMMA ShownMember ==
    ASSUME WalkTyped
    PROVE  /\ DOMAIN walk.shown = 1..Len(walk.shown) /\ Len(walk.shown) \in Nat
           /\ \A i \in DOMAIN walk.shown : walk.shown[i] \in SUBSET rows
           /\ ShownRows \subseteq rows
<1>1. walk.shown \in Seq(SUBSET rows)
  BY DEF WalkTyped
<1>2. /\ DOMAIN walk.shown = 1..Len(walk.shown) /\ Len(walk.shown) \in Nat
      /\ \A i \in DOMAIN walk.shown : walk.shown[i] \in SUBSET rows
  BY <1>1
<1> QED BY <1>2 DEF ShownRows

(* No walk.                                                                   *)
LEMMA NoWalkOK ==
    ASSUME walk.shown = <<>>, walk.at # "walking", walk.before = {}, WalkTyped
    PROVE  WalkOK
<1>1. DOMAIN walk.shown = {} /\ ShownRows = {}
  BY DEF ShownRows
<1> QED BY <1>1 DEF WalkOK

(* The table as it is.                                                        *)
LEMMA InitPages ==
    ASSUME Init
    PROVE  PagesInv
<1>1. rows = EarlierRows /\ walk = NoWalk
  BY DEF Init
<1>2. RowsOK
  BY <1>1, ChecksAssumption DEF RowsOK
<1>3. WalkTyped
  BY <1>1, ChecksAssumption DEF WalkTyped, NoWalk
<1>4. walk.shown = <<>> /\ walk.at = "none" /\ walk.before = {}
  BY <1>1 DEF NoWalk
<1> QED BY <1>2, <1>3, <1>4, NoWalkOK DEF PagesInv

(* A row saved meanwhile changes nothing of what was shown.                  *)
LEMMA SavePages ==
    ASSUME PagesInv, NEW c \in Callers, NEW id \in Ids, NEW now \in Clock, Save(c, id, now)
    PROVE  PagesInv'
<1>1. PICK r : /\ rows' = rows \cup {r} /\ r.id = id /\ r.created = now /\ id \notin {o.id : o \in rows}
               /\ UNCHANGED walk
  <2> DEFINE new == [id |-> id, actor |-> request[c].actor, created |-> now, answer |-> request[c].answer,
                     verdict |-> Decide(request[c].score, RawWords[request[c].answer]), threshold |-> threshold,
                     by |-> request[c].by]
  <2>1. rows' = rows \cup {new} /\ id \notin {o.id : o \in rows} /\ UNCHANGED walk
    BY DEF Save
  <2>2. new.id = id /\ new.created = now
    OBVIOUS
  <2> HIDE DEF new
  <2> QED BY <2>1, <2>2
<1>2. RowsOK'
  <2>1. id \in Nat \ {0} /\ now \in Int
    BY ChecksAssumption
  <2>2. IsFiniteSet(rows')
    BY <1>1, FS_AddElement DEF PagesInv, RowsOK
  <2> QED BY <1>1, <2>1, <2>2 DEF PagesInv, RowsOK
<1>3. WalkTyped'
  <2>1. walk.shown \in Seq(SUBSET rows) /\ walk.before \in SUBSET rows
    BY DEF PagesInv, WalkOK, WalkTyped
  <2>2. walk.shown \in Seq(SUBSET rows')
    <3>1. \A i \in 1..Len(walk.shown) : walk.shown[i] \in SUBSET rows'
      BY <1>1, <2>1
    <3> QED BY <2>1, <3>1
  <2>3. walk.before \in SUBSET rows'
    BY <1>1, <2>1
  <2> QED BY <1>1, <2>2, <2>3 DEF PagesInv, WalkOK, WalkTyped
<1>4. ShownRows' = ShownRows
  BY <1>1 DEF ShownRows
<1>5. \A o : Readable(walk.actor, o) = Readable(walk'.actor, o)
  BY <1>1
<1>6. Listed(walk.actor, walk.of) \subseteq Listed(walk.actor, walk.of)'
  BY <1>1 DEF Listed
<1>7. rows \subseteq rows'
  BY <1>1
<1>8. WalkOK'
  <2>1. \A r0 \in ShownRows' : Readable(walk'.actor, r0)
    BY <1>4, <1>5 DEF PagesInv, WalkOK
  <2>2. walk'.at = "walking" =>
        /\ walk'.before \subseteq Listed(walk.actor, walk.of)'
        /\ IF walk'.cursor = 0 THEN walk'.shown = <<>>
           ELSE \E o \in rows' :
                    /\ o.id = walk'.cursor
                    /\ \A a \in ShownRows' : a = o \/ Older(o, a)
                    /\ \A b \in walk'.before \ ShownRows' : Older(b, o)
    BY <1>1, <1>4, <1>6, <1>7 DEF PagesInv, WalkOK
  <2> QED BY <1>1, <1>3, <1>4, <2>1, <2>2 DEF PagesInv, WalkOK
<1> QED BY <1>2, <1>8 DEF PagesInv

(* A walk begins with what its reader may see.                                *)
LEMMA StartPages ==
    ASSUME PagesInv, NEW w \in Walks, StartWalk(w.actor, w.of, w.limit)
    PROVE  PagesInv'
<1>1. w.actor \in People /\ w.of \in People \cup {Everybody} /\ w.limit \in Nat \ {0}
  BY ScoringAssumption
<1> DEFINE before == {r \in rows : Readable(w.actor, r) /\ w.of \in {Everybody, r.actor}}
<1>2. /\ walk' = [NoWalk EXCEPT !.at = "walking", !.actor = w.actor, !.of = w.of, !.limit = w.limit, !.before = before]
      /\ UNCHANGED rows /\ (w.actor # Admin => w.of = Everybody)
  BY DEF StartWalk
<1>3. WalkTyped'
  <2>1. before \in SUBSET rows /\ <<>> \in Seq(SUBSET rows)
    OBVIOUS
  <2> HIDE DEF before
  <2> QED BY <1>1, <1>2, <2>1 DEF WalkTyped, NoWalk
<1>4. /\ walk'.shown = <<>> /\ walk'.at = "walking" /\ walk'.cursor = 0 /\ walk'.actor = w.actor /\ walk'.of = w.of
      /\ walk'.before = before
  <2> HIDE DEF before
  <2> QED BY <1>2 DEF NoWalk
<1>5. before \subseteq Listed(w.actor, w.of)
  BY <1>2 DEF Readable, Listed
<1>6. Listed(w.actor, w.of)' = Listed(w.actor, w.of)
  BY <1>2 DEF Listed
<1>7. DOMAIN walk'.shown = {} /\ ShownRows' = {}
  BY <1>4 DEF ShownRows
<1>8. Listed(walk.actor, walk.of)' = Listed(w.actor, w.of)
  BY <1>2, <1>4 DEF Listed
<1>9. WalkOK'
  <2> HIDE DEF before
  <2> QED BY <1>3, <1>4, <1>5, <1>7, <1>8 DEF WalkOK
<1>10. RowsOK'
  BY <1>2 DEF PagesInv, RowsOK
<1> QED BY <1>9, <1>10 DEF PagesInv

(* The next page continues after the last.                                    *)
LEMMA NextPages ==
    ASSUME PagesInv, NextPage
    PROVE  PagesInv'
<1> DEFINE C == Candidates(walk)
           found == Newest(C, walk.limit + 1)
           page == Newest(found, walk.limit)
           last == CHOOSE r \in page : \A o \in page : ~Older(o, r)
           of == Listed(walk.actor, walk.of)
<1>1. /\ walk.at = "walking" /\ UNCHANGED rows
      /\ walk' = [walk EXCEPT !.shown = Append(walk.shown, page), !.at = IF found = page THEN "ended" ELSE "walking",
                              !.cursor = IF found = page THEN 0 ELSE last.id]
  BY DEF NextPage
<1>2. RowsOK /\ WalkOK /\ WalkTyped
  BY DEF PagesInv, WalkOK
<1>3. /\ walk.limit \in Nat \ {0} /\ walk.cursor \in Nat /\ walk.actor \in People /\ walk.before \in SUBSET rows
      /\ walk.shown \in Seq(SUBSET rows)
  BY <1>2 DEF WalkTyped
<1>4. /\ \A r \in rows : Row(r)
      /\ \A r, o \in rows : r.id = o.id => r = o
      /\ IsFiniteSet(rows)
  BY <1>2 DEF RowsOK, Row
<1>5. C \in SUBSET rows /\ of \in SUBSET rows /\ IsFiniteSet(C)
  <2>1. C \in SUBSET rows /\ of \in SUBSET rows
    BY DEF Candidates, Listed
  <2> HIDE DEF C
  <2> QED BY <2>1, <1>4, FS_Subset
<1>6. (\A r \in C : Row(r)) /\ (\A r, o \in C : r.id = o.id => r = o)
  BY <1>4, <1>5
<1>7. /\ page \in SUBSET C
      /\ \A r \in page, o \in C : Older(r, o) => o \in page
      /\ found = page => page = C
      /\ found # page => \E r \in page : \A o \in page : ~Older(o, r)
  <2> HIDE DEF C
  <2> QED BY <1>3, <1>5, <1>6, Page
<1> HIDE DEF page, found, last
<1>8. \/ walk.cursor = 0 /\ ShownRows = {} /\ C = of
      \/ \E r \in rows : /\ C = {o \in of : Older(o, r)}
                         /\ \A a \in ShownRows : a = r \/ Older(r, a)
                         /\ \A b \in walk.before \ ShownRows : Older(b, r)
  <2>1. CASE walk.cursor = 0
    <3>1. walk.shown = <<>>
      BY <1>1, <1>2, <2>1 DEF WalkOK
    <3> QED BY <2>1, <3>1 DEF ShownRows, Candidates
  <2>2. CASE walk.cursor # 0
    <3>1. PICK r \in rows : /\ r.id = walk.cursor
                            /\ \A a \in ShownRows : a = r \/ Older(r, a)
                            /\ \A b \in walk.before \ ShownRows : Older(b, r)
      BY <1>1, <1>2, <2>2 DEF WalkOK
    <3>2. RowOf(walk.cursor) = r
      BY <3>1, <1>4 DEF RowOf
    <3>3. C = {o \in of : Older(o, r)}
      BY <2>2, <3>2 DEF Candidates, Beyond
    <3> QED BY <3>1, <3>3
  <2> QED BY <2>1, <2>2
<1>9. ShownRows \subseteq rows /\ page \subseteq rows /\ page \subseteq of
  <2>1. C \subseteq of
    BY DEF Candidates
  <2> QED BY <1>2, <1>5, <1>7, <2>1, ShownMember
(* Everything on this page is older than everything shown before.            *)
<1>10. \A a \in ShownRows, b \in page : Older(b, a)
  <2> SUFFICES ASSUME NEW a \in ShownRows, NEW b \in page PROVE Older(b, a)
    OBVIOUS
  <2>1. PICK r \in rows : C = {o \in of : Older(o, r)} /\ (a = r \/ Older(r, a))
    BY <1>8
  <2>2. Older(b, r) /\ a \in rows /\ b \in rows
    BY <1>7, <1>9, <2>1
  <2> QED BY <1>4, <2>1, <2>2, RowOrder
(* What was there and has not been shown is on this page or older.           *)
<1>11. walk.before \ ShownRows \subseteq C
  <2>1. walk.before \subseteq of
    BY <1>1, <1>2 DEF WalkOK
  <2> QED BY <1>8, <2>1
<1> HIDE DEF C, of
<1>12. /\ walk'.shown = Append(walk.shown, page) /\ walk'.actor = walk.actor /\ walk'.of = walk.of
       /\ walk'.before = walk.before
       /\ walk'.at = (IF found = page THEN "ended" ELSE "walking")
       /\ walk'.cursor = (IF found = page THEN 0 ELSE last.id)
  BY <1>1, <1>2 DEF WalkTyped
<1>13. found # page => last \in page /\ \A o \in page : ~Older(o, last)
  BY <1>7 DEF last
<1>14. found # page => last.id \in Nat \ {0}
  BY <1>4, <1>9, <1>13 DEF Row
<1>15. page \in SUBSET rows /\ Append(walk.shown, page) \in Seq(SUBSET rows)
  <2>1. page \in SUBSET rows
    BY <1>9
  <2> QED BY <1>3, <2>1
<1>16. WalkTyped'
  <2>1. PICK at \in {"ended", "walking"}, cursor \in Nat, shown \in Seq(SUBSET rows) :
            walk' = [walk EXCEPT !.shown = shown, !.at = at, !.cursor = cursor]
    BY <1>1, <1>14, <1>15
  <2> QED BY <1>1, <1>2, <2>1 DEF WalkTyped
<1> DEFINE n == Len(walk.shown)
<1>17. /\ n \in Nat /\ DOMAIN walk.shown = 1..n /\ DOMAIN walk'.shown = 1..(n + 1)
       /\ walk'.shown[n + 1] = page /\ \A i \in 1..n : walk'.shown[i] = walk.shown[i]
  BY <1>3, <1>12, <1>15
<1>18. ShownRows' = ShownRows \cup page
  <2>1. ShownRows' = UNION {walk'.shown[i] : i \in 1..(n + 1)}
    BY <1>17 DEF ShownRows
  <2>2. ShownRows = UNION {walk.shown[i] : i \in 1..n}
    BY <1>17 DEF ShownRows
  <2>3. \A i \in 1..(n + 1) : i = n + 1 \/ i \in 1..n
    BY <1>17
  <2>4. n + 1 \in 1..(n + 1) /\ 1..n \subseteq 1..(n + 1)
    BY <1>17
  <2> HIDE DEF n
  <2> QED BY <1>17, <2>1, <2>2, <2>3, <2>4
<1>19. \A i, j \in DOMAIN walk'.shown : i < j => \A a \in walk'.shown[i], b \in walk'.shown[j] : Older(b, a)
  <2> SUFFICES ASSUME NEW i \in 1..(n + 1), NEW j \in 1..(n + 1), i < j,
                      NEW a \in walk'.shown[i], NEW b \in walk'.shown[j]
               PROVE  Older(b, a)
    BY <1>17
  <2>1. i \in 1..n /\ a \in walk.shown[i]
    BY <1>17
  <2>2. CASE j \in 1..n
    BY <1>2, <1>17, <2>1, <2>2 DEF WalkOK
  <2>3. CASE j = n + 1
    <3>1. a \in ShownRows
      BY <1>17, <2>1 DEF ShownRows
    <3> QED BY <1>10, <1>17, <2>3, <3>1
  <2> QED BY <1>17, <2>2, <2>3
<1>20. \A r \in ShownRows' : Readable(walk'.actor, r)
  <2>1. \A r \in of : Readable(walk.actor, r)
    BY DEF of, Listed, Readable
  <2> QED BY <1>2, <1>9, <1>12, <1>18, <2>1 DEF WalkOK
<1>21. walk'.at = "ended" => walk'.before \subseteq ShownRows'
  <2> SUFFICES ASSUME found = page PROVE walk'.before \subseteq ShownRows'
    BY <1>12
  <2> QED BY <1>7, <1>11, <1>12, <1>18
<1>22. ASSUME walk'.at = "walking"
       PROVE  /\ walk'.before \subseteq Listed(walk.actor, walk.of)'
              /\ IF walk'.cursor = 0 THEN walk'.shown = <<>>
                 ELSE \E r \in rows' : /\ r.id = walk'.cursor
                                       /\ \A a \in ShownRows' : a = r \/ Older(r, a)
                                       /\ \A b \in walk'.before \ ShownRows' : Older(b, r)
  <2>1. found # page /\ last \in page /\ \A o \in page : ~Older(o, last)
    BY <1>12, <1>13, <1>22
  <2>2. walk'.before \subseteq Listed(walk.actor, walk.of)'
    <3>1. Listed(walk.actor, walk.of)' = of
      BY <1>1, <1>12 DEF of, Listed
    <3> QED BY <1>1, <1>2, <1>12, <3>1 DEF WalkOK, of
  <2>3. walk'.cursor = last.id /\ walk'.cursor # 0
    BY <1>12, <1>14, <2>1
  <2>4. \A a \in ShownRows' : a = last \/ Older(last, a)
    <3> SUFFICES ASSUME NEW a \in ShownRows' PROVE a = last \/ Older(last, a)
      OBVIOUS
    <3>1. CASE a \in ShownRows
      BY <1>10, <2>1, <3>1
    <3>2. CASE a \in page
      BY <1>4, <1>9, <2>1, <3>2, RowOrder
    <3> QED BY <1>18, <3>1, <3>2
  <2>5. \A b \in walk'.before \ ShownRows' : Older(b, last)
    <3> SUFFICES ASSUME NEW b \in walk.before, b \notin ShownRows, b \notin page PROVE Older(b, last)
      BY <1>12, <1>18
    <3>1. b \in C /\ ~Older(last, b) /\ b # last /\ b \in rows /\ last \in rows
      BY <1>3, <1>7, <1>9, <1>11, <2>1
    <3> QED BY <1>4, <3>1, RowOrder
  <2> QED BY <1>1, <1>9, <2>1, <2>2, <2>3, <2>4, <2>5
<1>23. RowsOK'
  BY <1>1, <1>2 DEF RowsOK
<1>24. WalkOK'
  BY <1>16, <1>19, <1>20, <1>21, <1>22 DEF WalkOK
<1> QED BY <1>23, <1>24 DEF PagesInv

(* Every step keeps PagesInv.                                                 *)
LEMMA NextHistory ==
    ASSUME PagesInv, [Next]_scoringVars
    PROVE  PagesInv'
<1>1. CASE \E c \in Callers, id \in Ids, now \in Clock : Save(c, id, now)
  BY <1>1, SavePages
<1>2. CASE \E w \in Walks : StartWalk(w.actor, w.of, w.limit)
  BY <1>2, StartPages
<1>3. CASE NextPage
  BY <1>3, NextPages
<1>4. CASE CloseWalk
  <2>1. walk' = [NoWalk EXCEPT !.at = "closed"] /\ UNCHANGED rows
    BY <1>4 DEF CloseWalk
  <2>2. walk'.shown = <<>> /\ walk'.at = "closed" /\ walk'.before = {}
    BY <2>1 DEF NoWalk
  <2>3. WalkTyped'
    <3>1. walk' = [at |-> "closed", actor |-> Admin, of |-> Everybody, limit |-> 1, cursor |-> 0, shown |-> <<>>, before |-> {}]
      BY <2>1 DEF NoWalk
    <3>2. <<>> \in Seq(SUBSET rows') /\ {} \in SUBSET rows' /\ Admin \in People
      BY ChecksAssumption
    <3> QED BY <3>1, <3>2 DEF WalkTyped
  <2>4. DOMAIN walk'.shown = {} /\ ShownRows' = {}
    BY <2>2 DEF ShownRows
  <2>5. WalkOK'
    BY <2>2, <2>3, <2>4 DEF WalkOK
  <2> QED BY <2>1, <2>5 DEF PagesInv, RowsOK
<1>5. CASE UNCHANGED <<rows, walk>>
  <2>1. ShownRows' = ShownRows /\ \A p, o : Listed(p, o)' = Listed(p, o)
    BY <1>5 DEF ShownRows, Listed
  <2>2. Listed(walk.actor, walk.of)' = Listed(walk.actor, walk.of)
    BY <1>5 DEF Listed
  <2>3. WalkTyped'
    BY <1>5 DEF PagesInv, WalkOK, WalkTyped
  <2>4. \A r \in ShownRows' : Readable(walk'.actor, r)
    BY <1>5, <2>1 DEF PagesInv, WalkOK
  <2> QED BY <1>5, <2>1, <2>2, <2>3, <2>4 DEF PagesInv, RowsOK, WalkOK
<1>6. \/ \E c \in Callers, id \in Ids, now \in Clock : Save(c, id, now)
      \/ \E w \in Walks : StartWalk(w.actor, w.of, w.limit)
      \/ NextPage \/ CloseWalk
      \/ UNCHANGED <<rows, walk>>
  BY DEF Next, Begin, Continue, Ask, TimeOut, Hear, DetectorStep, WarmUpStep, Deploy, ConfigureApi, scoringVars, checkVars
<1> QED BY <1>1, <1>2, <1>3, <1>4, <1>5, <1>6

(* A walk through the history shows each check that was there once, newest    *)
(* first, and none that its reader may not open.                              *)
THEOREM HistoryWalks == Spec => []WalkShowsEachOnce
<1>1. PagesInv => WalkShowsEachOnce
  <2>1. UNION Range(walk.shown) = ShownRows
    BY DEF Range, ShownRows
  <2> QED BY <2>1 DEF PagesInv, WalkOK, WalkShowsEachOnce
<1> QED BY <1>1, InitPages, NextHistory, PTL DEF Spec
=============================================================================
