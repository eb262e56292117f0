------------------------------- MODULE Corpus -------------------------------
(* From answers to training data.  Each tool reads files another tool wrote  *)
(* and leaves files for the next: corpus/build.py the corpus and its         *)
(* manifest, splicer and attach_styles.py the styled answers beside it,      *)
(* build_extended_corpus.py the extended training files; combined_data.py    *)
(* loads them to train.  Sources change, tools are run again in any order,   *)
(* and a tool may die between two of its writes, so files of different       *)
(* builds lie side by side.  An operator X_Slip is X with a plausible slip.  *)
EXTENDS Integers, Sequences, FiniteSets, FiniteSetsExt, SequencesExt

CONSTANTS
    Revisions,  \* the sources through time: [questions, twins, ais] each
    TextOf,     \* question -> its normalised text, an integer
    Humans,     \* the students who answer every question
    Models,     \* the generators
    Tier,       \* AI answer -> its quality tier
    Keep,       \* tier -> the percentage of its answers kept (corpus config)
    Short,      \* answers below the word floor
    Edited,     \* AI answer -> "genuine", "simulated" or "none"
    Rewrites,   \* paraphrases in the run folder: <<AI answer, strength>>
    Reaches,    \* band -> the <<student, model>> whose splice falls into it
    AnswersPerBand, \* partition -> the spliced answers wanted in each band
    MaxBaseUses,    \* splices allowed of a student's answer in a band
    Seeds,      \* the shuffles looked at
    MaxBuilds   \* bound: corpus builds

Partitions == {"train", "val", "test"}
Questions == DOMAIN TextOf
Bands == DOMAIN Reaches
Raw(q, who) == <<q, who, "raw", who>>

ASSUME CorpusAssumption ==
    /\ IsFiniteSet(Questions) /\ IsFiniteSet(Humans) /\ IsFiniteSet(Models)
    /\ IsFiniteSet(Bands) /\ Bands \cap {"human", "raw-ai", "genuine", "simulated", "light", "heavy"} = {}
    /\ Len(Revisions) \in Nat \ {0} /\ DOMAIN Revisions = 1..Len(Revisions)
    /\ \A a \in DOMAIN Edited : Edited[a] \in {"genuine", "simulated", "none"}
    /\ \A r \in DOMAIN Revisions :
        /\ Revisions[r].questions \subseteq Questions
        /\ Revisions[r].ais \subseteq {Raw(q, m) : q \in Revisions[r].questions, m \in Models}
        /\ Revisions[r].ais \subseteq DOMAIN Edited
    /\ Keep \in [DOMAIN Keep -> 1..100]
    /\ DOMAIN AnswersPerBand \subseteq {"train", "val", "test"}
    /\ {AnswersPerBand[p] : p \in DOMAIN AnswersPerBand} \cup {MaxBaseUses, MaxBuilds} \subseteq Nat
(* question_groups stops on twins that are no questions of the corpus.       *)
ASSUME TwinsAssumption ==
    \A r \in DOMAIN Revisions :
        Revisions[r].twins \in Seq(Revisions[r].questions \X Revisions[r].questions)

VARIABLES
    revision,   \* which sources the configured paths hold
    shuffle,    \* the seeded order of a set of question groups
    disk,       \* file -> what it holds
    job         \* the running tool's writes still to be made

vars == <<revision, shuffle, disk, job>>

Styles == {"spliced", "paraphrased", "human_edited"}
Files == {"corpus", "manifest"} \cup Styles \cup Partitions
InPlace == {"corpus", "manifest"} \cup Partitions    \* written without a temporary name
(* splices: the build of the spliced answers among the rows (a record for the *)
(* properties: no file says which build it is of).                           *)
Missing == [state |-> "missing", rows |-> {}, build |-> 0, splices |-> 0]
Torn(build) == [state |-> "torn", rows |-> {}, build |-> build, splices |-> build]
Whole(rows, build, splices) == [state |-> "whole", rows |-> rows, build |-> build, splices |-> splices]

-----------------------------------------------------------------------------
(* Python's round(n * share): halves go to the even neighbour.               *)
Round(n, percent) ==
    LET down == (n * percent) \div 100 rest == (n * percent) % 100
    IN  IF rest > 50 \/ (rest = 50 /\ down % 2 = 1) THEN down + 1 ELSE down
(* A seeded draw of n members: arbitrary, and the same on every run.         *)
Draw(S, n) ==
    LET drawn[k \in 0..n] ==
            IF k = 0 THEN {} ELSE drawn[k - 1] \cup {CHOOSE r \in S \ drawn[k - 1] : TRUE}
    IN  drawn[n]
Least(m, n) == IF m < n THEN m ELSE n

(* question_groups: ids of one text, and listed twins, share a root; a group *)
(* is named by its smallest text.                                            *)
Joins_Slip(rev) ==
    SetToSeq({pair \in rev.questions \X rev.questions :
                pair[1] < pair[2] /\ TextOf[pair[1]] = TextOf[pair[2]]})
Joins(rev) ==
    SetToSeq({pair \in rev.questions \X rev.questions :
                pair[1] < pair[2] /\ TextOf[pair[1]] = TextOf[pair[2]]}) \o rev.twins
Joined(root, pair) ==
    [q \in DOMAIN root |-> IF root[q] = root[pair[2]] THEN root[pair[1]] ELSE root[q]]
Roots(rev) ==
    LET joins == Joins(rev)
        root[k \in 0..Len(joins)] ==
            IF k = 0 THEN [q \in rev.questions |-> q] ELSE Joined(root[k - 1], joins[k])
    IN  root[Len(joins)]
GroupOf(rev) ==
    LET root == Roots(rev)
    IN  [q \in rev.questions |-> Min({TextOf[r] : r \in {s \in rev.questions : root[s] = root[q]}})]

(* assign_partitions: the shuffled groups are cut into test, val and train.  *)
Groups(rev) == LET group == GroupOf(rev) IN {group[q] : q \in rev.questions}
PartitionOf(rev, seed) ==
    LET group == GroupOf(rev)
        order == seed[Groups(rev)]
        n == Len(order)
        nTest == Max({1, Round(n, 15)})
        nVal == Max({1, Round(n, 15)})
    IN  [q \in rev.questions |->
            LET i == CHOOSE i \in 1..n : order[i] = group[q] IN
            CASE i <= nTest -> "test" [] i <= nTest + nVal -> "val" [] OTHER -> "train"]

(* load_human and load_ai, with each question's partition.  Of the id of a   *)
(* row (answer_id) its question is the first part, a splice's excepted.      *)
Row(id, part, gen) == [id |-> id, q |-> id[1], part |-> part, gen |-> gen,
                       slice |-> IF gen = "human" THEN "human" ELSE "raw-ai", src |-> {}]
HumanRows(rev, seed) ==
    LET part == PartitionOf(rev, seed)
    IN  {Row(Raw(q, h), part[q], "human") : q \in rev.questions, h \in Humans}
AiRows(rev, seed) ==
    LET part == PartitionOf(rev, seed) IN {Row(id, part[id[1]], id[2]) : id \in rev.ais}
Human(rows) == {r \in rows : r.slice = "human"}
Ai(rows) == {r \in rows : r.slice # "human"}

(* keep_share: a share of every tier named, by partition and generator.      *)
Kept(ais) ==
    UNION {LET tier == {r \in ais : Tier[r.id] = t /\ r.part = p /\ r.gen = m}
           IN  IF t \in DOMAIN Keep
               THEN Draw(tier, Round(Cardinality(tier), Keep[t]))
               ELSE tier
           : t \in {Tier[r.id] : r \in ais}, p \in Partitions, m \in Models}

LongEnough(rows) == {r \in rows : r.id \notin Short}
(* cap_train_humans: no more human than AI answers to a train question.      *)
Capped(rows) ==
    LET ofQuestion(S, q) == {r \in S : r.q = q}
        kept(q) == LET humans == ofQuestion(Human(rows), q)
                       limit == Cardinality(ofQuestion(Ai(rows), q))
                   IN  IF \A r \in humans : r.part = "train"
                       THEN Draw(humans, Least(limit, Cardinality(humans)))
                       ELSE humans
    IN  Ai(rows) \cup UNION {kept(r.q) : r \in rows}

CorpusRows_Slip(rev, seed) == LongEnough(Capped(HumanRows(rev, seed) \cup Kept(AiRows(rev, seed))))
CorpusRows(rev, seed) == Capped(LongEnough(HumanRows(rev, seed) \cup Kept(AiRows(rev, seed))))

(* No value of a key lies in two partitions.                                 *)
Single(rows, Key(_)) ==
    Cardinality({<<Key(r), r.part>> : r \in rows}) = Cardinality({Key(r) : r \in rows})
OnePartition(rows) == Single(rows, LAMBDA r : r.q)
UniqueIds(rows) == Cardinality({r.id : r \in rows}) = Cardinality(rows)

(* check: nothing load_splits would reject or that makes evaluation unfair.  *)
Sound(rev, rows) ==
    /\ OnePartition(rows)
    /\ Single(rows, LAMBDA r : TextOf[r.q])
    /\ LET group == GroupOf(rev) IN Single(rows, LAMBDA r : group[r.q])
    /\ \A p \in Partitions : \E r \in Human(rows), s \in Ai(rows) : r.part = p /\ s.part = p

Start(writes) == job' = writes /\ UNCHANGED <<revision, shuffle, disk>>
(* build is a function of the sources and the seed: what it makes of each,   *)
(* unless it stops on too few groups or on what check finds.                 *)
Manifest(rev, seed) == LET part == PartitionOf(rev, seed) IN {<<q, part[q]>> : q \in rev.questions}
Drafts == {[revision |-> r, shuffle |-> seed, rows |-> CorpusRows(Revisions[r], seed),
            manifest |-> Manifest(Revisions[r], seed)] : r \in DOMAIN Revisions, seed \in Seeds}
Built == {made \in Drafts :
            /\ Cardinality(Groups(Revisions[made.revision])) >= Cardinality(Partitions)
            /\ Sound(Revisions[made.revision], made.rows)}
BuildCorpus ==
    LET build == disk["corpus"].build + 1
    IN  /\ job = <<>> /\ build <= MaxBuilds
        /\ \E made \in Built :
            /\ made.revision = revision /\ made.shuffle = shuffle
            /\ Start(<<[file |-> "corpus", holds |-> Whole(made.rows, build, build)],
                       [file |-> "manifest", holds |-> Whole(made.manifest, build, build)]>>)

-----------------------------------------------------------------------------
(* attach: a paraphrase or edit of an answer still in the corpus, in the     *)
(* answer's own partition; check compares that with the manifest.            *)
Readable(file) == disk[file].state = "whole"
Derived(source, kind) == [source EXCEPT !.id = <<@[1], @[2], kind, @[4]>>,
                                        !.slice = kind, !.src = {source.id}]
Placed_Slip(r) ==
    IF \E p \in Partitions : <<r.q, p>> \in disk["manifest"].rows
    THEN CHOOSE p \in Partitions : <<r.q, p>> \in disk["manifest"].rows
    ELSE r.part
Placed(r) == r.part
Attached(style) ==
    LET sources == {[r EXCEPT !.part = Placed(r)] :
                        r \in {r \in disk["corpus"].rows : r.slice = "raw-ai"}}
    IN  CASE style = "paraphrased" ->
                 {Derived(p[1], p[2]) :
                     p \in {p \in sources \X {"light", "heavy"} : <<p[1].id, p[2]>> \in Rewrites}}
          [] style = "human_edited" ->
                 {Derived(r, Edited[r.id]) : r \in {x \in sources : Edited[x.id] # "none"}}
InManifest(rows) == \A r \in rows : <<r.q, r.part>> \in disk["manifest"].rows

AttachStyle(style) ==
    /\ job = <<>>
    /\ style \in {"paraphrased", "human_edited"}
    /\ Readable("corpus") /\ Readable("manifest")
    /\ InManifest(Attached(style))
    /\ LET build == disk["corpus"].build
       IN  Start(<<[file |-> style, holds |-> Whole(Attached(style), build, build)]>>)

(* build_spliced: in every configured partition and band the same number of  *)
(* splices for each model the corpus has, no base used more often than       *)
(* allowed.  check_config stops on a number the models cannot share evenly.  *)
ModelsIn(rows) == {r.gen : r \in Ai(rows)}
CountsPerModel(rows) ==
    [p \in DOMAIN AnswersPerBand |-> AnswersPerBand[p] \div Cardinality(ModelsIn(rows))]
CheckConfig(rows) ==
    LET models == Cardinality(ModelsIn(rows))
    IN  /\ DOMAIN AnswersPerBand \subseteq {r.part : r \in rows}
        /\ \A p \in DOMAIN AnswersPerBand : AnswersPerBand[p] >= models /\ AnswersPerBand[p] % models = 0
Splices(h, a, band) == h.q = a.q /\ <<h.id[2], a.gen>> \in Reaches[band]
Pool(rows, p, band) ==
    LET of == {r \in rows : r.part = p}
    IN  UNION {{<<h, a>> : a \in {a \in Ai(of) : Splices(h, a, band)}} : h \in Human(of)}
(* select: flow from the models to the bases, pushed along one augmenting    *)
(* path after another until there is none.  A path leaves a model that wants *)
(* more and takes a candidate.  While the base has no room, it gives back    *)
(* one chosen of that base and takes another of that one's model, passing a  *)
(* model once.  Which of the paths is found first depends on the order.      *)
OfModel(c, m) == Cardinality({x \in c : x[2].gen = m})
OfBase(c, h) == Cardinality({x \in c : x[1] = h})
Wants(c, x, wanted) == OfModel(c, x[2].gen) < wanted
Room(c, x) == OfBase(c, x[1]) < MaxBaseUses
Path(chosen, last, past) == [chosen |-> chosen, last |-> last, past |-> past \cup {last[2].gen}]
Begun(pool, c, wanted) ==
    {Path(c \cup {x}, x, {}) : x \in {x \in pool \ c : Wants(c, x, wanted)}}
Swaps(pool, c, path) ==
    {s \in c \X (pool \ c) : /\ s[1][1] = path.last[1] /\ s[1][2].gen = s[2][2].gen
                             /\ s[2][2].gen \notin path.past}
Further(pool, c, path) ==
    {Path((path.chosen \ {s[1]}) \cup {s[2]}, s[2], path.past) : s \in Swaps(pool, c, path)}
Augmented_Slip(pool, c, wanted) == {c \cup {x} : x \in {x \in pool \ c : Wants(c, x, wanted) /\ Room(c, x)}}
Augmented(pool, c, wanted) ==
    LET paths[k \in 0..Cardinality(Models)] ==
            IF k = 0 THEN Begun(pool, c, wanted)
            ELSE UNION {Further(pool, c, p) : p \in {p \in paths[k - 1] : ~Room(c, p.last)}}
    IN  {p.chosen : p \in {p \in UNION {paths[k] : k \in DOMAIN paths} : Room(c, p.last)}}
Improved(pool, c, wanted) ==
    LET more == Augmented(pool, c, wanted)
    IN  IF more = {} THEN c ELSE CHOOSE d \in more : TRUE
Select(pool, wanted) ==
    LET last == wanted * Cardinality(Models)
        after[k \in 0..last] == IF k = 0 THEN {} ELSE Improved(pool, after[k - 1], wanted)
    IN  after[last]
Reached(rows) ==
    \A p \in DOMAIN AnswersPerBand, b \in Bands :
        LET wanted == CountsPerModel(rows)[p]
            chosen == Select(Pool(rows, p, b), wanted)
        IN  \A m \in ModelsIn(rows) : OfModel(chosen, m) = wanted
(* A splice is known by its place among the chosen of its partition and band, *)
(* put in an order of their own: the next build gives the same ids to others. *)
Numbered(chosen, p, b) ==
    LET order == SetToSeq(chosen)
    IN  {[order[i][2] EXCEPT !.id = <<i, p, "spliced", b>>, !.slice = b, !.src = {order[i][2].id}]
            : i \in 1..Len(order)}
SplicedRows(rows) ==
    UNION {Numbered(Select(Pool(rows, p, b), CountsPerModel(rows)[p]), p, b)
            : p \in DOMAIN AnswersPerBand, b \in Bands}

BuildSpliced ==
    /\ job = <<>>
    /\ Readable("corpus") /\ Readable("manifest")
    /\ CheckConfig(disk["corpus"].rows)
    /\ Reached(disk["corpus"].rows)
    /\ LET rows == SplicedRows(disk["corpus"].rows) build == disk["corpus"].build
       IN  /\ InManifest(rows)
           /\ Start(<<[file |-> "spliced", holds |-> Whole(rows, build, build)]>>)

-----------------------------------------------------------------------------
(* build_extended_corpus.                                                    *)
Evenly(total, k) == [i \in 1..k |-> (total \div k) + (IF i <= total % k THEN 1 ELSE 0)]
Sample(pool, n) == Draw(pool, Least(n, Cardinality(pool)))
Sources(rows) == UNION {r.src : r \in rows}
Fresh(pool, used) == {r \in pool : r.src \cap used = {}}
Clean_Slip(raw, used) == raw
Clean(raw, used) == {r \in raw : r.id \notin used}
Train(all) ==
    LET train == {r \in all : r.part = "train"}
        of(slice) == {r \in train : r.slice = slice}
        n == Cardinality(of("human"))
        nRaw == Round(n, 50)
        each == Evenly(n - nRaw, 3)
        bands == SetToSeq(Bands)
        spliced == UNION {Sample(of(bands[i]), Evenly(each[1], Len(bands))[i]) : i \in DOMAIN bands}
        genuine == Sample(of("genuine"), each[3])
        simulated == Sample(Fresh(of("simulated"), Sources(spliced)), each[3] - Cardinality(genuine))
        before == Sources(spliced \cup genuine \cup simulated)
        light == Sample(Fresh(of("light"), before), Evenly(each[2], 2)[1])
        heavy == Sample(Fresh(of("heavy"), before \cup Sources(light)), Evenly(each[2], 2)[2])
        used == before \cup Sources(light \cup heavy)
        clean == Clean(of("raw-ai"), used)
        raw == IF Cardinality(clean) >= nRaw THEN Draw(clean, nRaw) ELSE Sample(of("raw-ai"), nRaw)
    IN  of("human") \cup spliced \cup genuine \cup simulated \cup light \cup heavy \cup raw

AllRows == disk["corpus"].rows \cup UNION {disk[s].rows : s \in Styles}
Core(rows, p) == Cardinality({r \in rows : r.part = p /\ r.slice \in {"human", "raw-ai"} \cup Bands})
(* The counts the script was written for, those of the first sources.        *)
Published ==
    {[shuffle |-> made.shuffle,
      rows |-> made.rows \cup (IF CheckConfig(made.rows) /\ Reached(made.rows) THEN SplicedRows(made.rows) ELSE {})]
        : made \in {m \in Drafts : m.revision = 1}}
AsPublished(rows) ==
    \A first \in Published : first.shuffle = shuffle =>
        \A p \in {"val", "test"} : Core(rows, p) = Core(first.rows, p)

FollowSources(rows) ==
    {<<r.src, r.part>> : r \in rows} \subseteq {<<{s.id}, s.part>> : s \in disk["corpus"].rows}
OneToOne(rows) == Cardinality(Human(rows)) = Cardinality(Ai(rows))

BuildExtended(force) ==
    /\ job = <<>>
    /\ \A f \in {"corpus"} \cup Styles : Readable(f)
    /\ force \/ \A p \in Partitions : disk[p] = Missing
    /\ UniqueIds(AllRows)
    /\ AsPublished(AllRows)
    /\ FollowSources(disk["paraphrased"].rows \cup disk["human_edited"].rows)
    /\ LET train == Train(AllRows)
           extended(p) == IF p = "train" THEN train ELSE {r \in AllRows : r.part = p}
       IN  /\ OneToOne(train)
           /\ OnePartition(train \cup extended("val") \cup extended("test"))
           /\ Start([i \in 1..3 |->
                       LET p == <<"train", "val", "test">>[i]
                       IN  [file |-> p, holds |-> Whole(extended(p), disk["corpus"].build, disk["spliced"].build)]])

-----------------------------------------------------------------------------
Write ==
    /\ job # <<>>
    /\ disk' = [disk EXCEPT ![Head(job).file] = Head(job).holds]
    /\ job' = Tail(job)
    /\ UNCHANGED <<revision, shuffle>>

(* The tool dies; what it was writing in place is left half written.         *)
Die ==
    /\ job # <<>> /\ job' = <<>>
    /\ disk' \in {disk} \cup
          {[disk EXCEPT ![f] = Torn(Head(job).holds.build)] : f \in {Head(job).file} \cap InPlace}
    /\ UNCHANGED <<revision, shuffle>>

NewSources ==
    /\ revision < Len(Revisions)
    /\ revision' = revision + 1
    /\ UNCHANGED <<shuffle, disk, job>>

Init ==
    /\ revision = 1
    /\ shuffle \in Seeds
    /\ disk = [f \in Files |-> Missing]
    /\ job = <<>>

Next ==
    \/ BuildCorpus
    \/ \E s \in Styles : AttachStyle(s)
    \/ BuildSpliced
    \/ \E force \in BOOLEAN : BuildExtended(force)
    \/ Write
    \/ Die
    \/ NewSources

Spec == Init /\ [][Next]_vars

(* What the loaders of combined_data.py accept.                              *)
Combined == disk["corpus"].rows \cup disk["spliced"].rows
CombinedLoads ==
    /\ Readable("corpus") /\ Readable("spliced")
    /\ UniqueIds(Combined) /\ OnePartition(Combined)
    /\ {r.part : r \in Combined} = Partitions
Everything == UNION {disk[p].rows : p \in Partitions}
ExtendedLoads ==
    /\ \A p \in Partitions : Readable(p) /\ \A r \in disk[p].rows : r.part = p
    /\ UniqueIds(Everything) /\ OnePartition(Everything)

-----------------------------------------------------------------------------
(* Types of the variables.                                                   *)
TypeOK ==
    /\ revision \in DOMAIN Revisions
    /\ \A f \in Files : disk[f].state \in {"missing", "torn", "whole"} /\ disk[f].build \in 0..MaxBuilds
    /\ \A i \in DOMAIN job : job[i].file \in Files /\ job[i].holds.state = "whole"

(* What a question asks never reaches training and evaluation both, though   *)
(* it has several ids: in whatever the loaders accept, ids of one text, or   *)
(* listed as twins by every revision that has both, share a partition.  The  *)
(* loaders compare ids only, so it may fail once a build is loaded with the  *)
(* splices of another; a table is held to it where no builds are mixed       *)
(* (NothingMeasuredWasSeen of module Evaluation).                            *)
Twins(rev, q, r) == \E i \in DOMAIN rev.twins : {rev.twins[i][1], rev.twins[i][2]} = {q, r}
Alike(q, r) ==
    \/ TextOf[q] = TextOf[r]
    \/ LET both == {i \in DOMAIN Revisions : {q, r} \subseteq Revisions[i].questions}
       IN  both # {} /\ \A i \in both : Twins(Revisions[i], q, r)
Places(rows) == {<<r.q, r.part>> : r \in rows}
FairPlaces(places) == \A x, y \in places : Alike(x[1], y[1]) => x[2] = y[2]
Fair(rows) == FairPlaces(Places(rows))
NoQuestionLeaks ==
    /\ CombinedLoads => Fair(Combined)
    /\ ExtendedLoads => Fair(Everything)

(* However the files were made, train holds no more human than AI answers to *)
(* a question, so the extended set always finds its half of raw AI answers.  *)
TrainNotMostlyHuman ==
    Readable("corpus") =>
        LET train == {r \in disk["corpus"].rows : r.part = "train"}
        IN  \A q \in {r.q : r \in train} :
                Cardinality({r \in Human(train) : r.q = q}) <= Cardinality({r \in Ai(train) : r.q = q})

(* A styled answer attached to a build stands in its source's partition,     *)
(* also when the build died between the corpus and its manifest.             *)
StylesFollowSources ==
    \A s \in {"paraphrased", "human_edited"} :
        Readable("corpus") /\ disk[s].build = disk["corpus"].build => FollowSources(disk[s].rows)

(* The splicer, to be run on a build nothing is attached to yet, stops for   *)
(* want of candidates only when no choice of them would have given every     *)
(* model its number within the uses of the bases.                            *)
SpliceStopsOnlyIfImpossible ==
    job = <<>> /\ Readable("corpus") /\ (\A s \in Styles : disk[s] = Missing)
        /\ CheckConfig(disk["corpus"].rows) =>
        \A p \in DOMAIN AnswersPerBand, b \in Bands :
            LET rows == disk["corpus"].rows
                pool == Pool(rows, p, b)
                n == CountsPerModel(rows)[p]
            IN  (\E choice \in [1..(n * Cardinality(ModelsIn(rows))) -> pool] :
                    LET c == {choice[i] : i \in DOMAIN choice}
                    IN  /\ \A m \in ModelsIn(rows) : OfModel(c, m) = n
                        /\ \A x \in c : OfBase(c, x[1]) <= MaxBaseUses)
                => \A m \in ModelsIn(rows) : OfModel(Select(pool, n), m) = n

(* No answer of the training set is there as it is and as the source of a    *)
(* spliced or rewritten one, unless too few others were left.                *)
RawIsNotASource ==
    Readable("train") /\ Readable("corpus") /\ disk["train"].build = disk["corpus"].build =>
        LET rows == disk["train"].rows
            raw == {r \in rows : r.slice = "raw-ai"}
            others == {r \in Ai(disk["corpus"].rows) : r.part = "train" /\ r.id \notin Sources(rows)}
        IN  \A r \in raw : r.id \in Sources(rows) => Cardinality(others) < Cardinality(raw)
=============================================================================
