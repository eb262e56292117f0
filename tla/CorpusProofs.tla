---------------------------- MODULE CorpusProofs ----------------------------
(* What holds of the corpus files for every number of sources, students,     *)
(* models, bands, builds and deaths.  First what the helpers return - Draw,  *)
(* cap_train_humans, Select, attach, Train - then the invariant: a file that *)
(* can be read was made whole by one tool, and those of the corpus' own      *)
(* build were made of the corpus on disk.                                    *)
EXTENDS Evaluation, FiniteSetTheorems, TLAPS

(* A set of numbers up to n has a least one.                                 *)
LEMMA LeastNumber ==
    ASSUME NEW n \in Nat, NEW T, T \subseteq 0..n, T # {}
    PROVE  \E k \in T : \A j \in T : k <= j
<1> DEFINE Below(k) == 0..k
           C == {Below(k) : k \in T}
<1>1. C \subseteq SUBSET (0..n) /\ C # {} /\ IsFiniteSet(0..n)
  <2>1. \A k \in T : 0..k \subseteq 0..n
    OBVIOUS
  <2>2. IsFiniteSet(0..n)
    BY FS_Interval
  <2> QED BY <2>1, <2>2
<1>2. C \subseteq FiniteSubsetsOf(0..n)
  BY <1>1, FS_Subset DEF FiniteSubsetsOf
<1>3. PICK U \in C : \A V \in C : <<V, U>> \notin StrictSubsetOrdering(0..n)
  <2> HIDE DEF C
  <2> QED BY <1>1, <1>2, FS_StrictSubsetOrderingWellFounded, WFMin
<1>4. PICK k \in T : U = 0..k
  BY <1>3
<1>5. ASSUME NEW j \in T, j < k PROVE FALSE
  <2>1. 0..j \in C /\ 0..j \subseteq 0..k /\ 0..j # 0..k /\ j \in Nat /\ k \in Nat
    BY <1>5
  <2>2. <<0..j, 0..k>> \in StrictSubsetOrdering(0..n)
    BY <2>1, <1>1, <1>4, <1>3 DEF StrictSubsetOrdering
  <2> QED BY <2>1, <2>2, <1>3, <1>4
<1> QED BY <1>5

(* Draw takes one member after another.                                      *)
More(S, c) == c \cup {CHOOSE r \in S \ c : TRUE}
Drawing(d, S, n) ==
    d = [k \in 0..n |-> IF k = 0 THEN {} ELSE More(S, d[k - 1])]

(* Draw ends one such sequence of draws.                                     *)
LEMMA DrawIs ==
    ASSUME NEW S, NEW n
    PROVE  Draw(S, n) = (CHOOSE d : Drawing(d, S, n))[n]
  BY DEF Draw, Drawing, More

(* The k-th draw from the one before it.                                     *)
LEMMA DrawingAt ==
    ASSUME NEW S, NEW n \in Nat, NEW d, Drawing(d, S, n), NEW k \in 0..n
    PROVE  /\ k = 0 => d[k] = {}
           /\ k # 0 => d[k] = More(S, d[k - 1])
<1>1. d[k] = IF k = 0 THEN {} ELSE More(S, d[k - 1])
  BY Zenon DEF Drawing
<1> QED BY <1>1

(* There is such a sequence for every n: a least n without one would follow *)
(* an n that has one.                                                        *)
LEMMA DrawingExists ==
    ASSUME NEW S, NEW n \in Nat
    PROVE  \E d : Drawing(d, S, n)
<1> DEFINE T == {k \in 0..n : ~\E d : Drawing(d, S, k)}
<1>1. SUFFICES ASSUME T # {} PROVE FALSE
  OBVIOUS
<1>2. PICK k \in T : \A j \in T : k <= j
  <2>1. T \subseteq 0..n
    OBVIOUS
  <2> HIDE DEF T
  <2> QED BY <2>1, <1>1, LeastNumber
<1>3. k \in 0..n /\ ~\E d : Drawing(d, S, k)
  BY <1>2
<1>4. k # 0
  <2> DEFINE d == [j \in 0..0 |-> {}]
  <2>1. Drawing(d, S, 0)
    BY DEF Drawing
  <2> QED BY <2>1, <1>3
<1>5. PICK d : Drawing(d, S, k - 1)
  <2>1. k - 1 \in 0..n /\ k - 1 \notin T
    BY <1>2, <1>3, <1>4
  <2> QED BY <2>1
<1> DEFINE e == [j \in 0..k |-> IF j = k THEN More(S, d[k - 1]) ELSE d[j]]
           f == [j \in 0..k |-> IF j = 0 THEN {} ELSE More(S, e[j - 1])]
<1>6. ASSUME NEW j \in 0..k PROVE e[j] = f[j]
  <2>1. CASE j = k
    <3>1. e[k - 1] = d[k - 1] /\ e[k] = More(S, d[k - 1])
      BY <1>3, <1>4
    <3>2. f[k] = More(S, e[k - 1])
      BY <1>3, <1>4
    <3> HIDE DEF e, f
    <3> QED BY <3>1, <3>2, <2>1
  <2>2. CASE j # k /\ j # 0
    <3>1. e[j - 1] = d[j - 1] /\ e[j] = d[j] /\ k - 1 \in Nat /\ j \in 0..(k - 1)
      BY <1>3, <1>4, <2>2
    <3>2. d[j] = More(S, d[j - 1])
      <4> DEFINE m == k - 1
      <4>1. m \in Nat /\ j \in 0..m /\ Drawing(d, S, m)
        BY <3>1, <1>5
      <4> HIDE DEF m
      <4>2. d[j] = IF j = 0 THEN {} ELSE More(S, d[j - 1])
        BY <4>1, Zenon DEF Drawing
      <4> QED BY <4>2, <2>2
    <3>3. f[j] = More(S, e[j - 1])
      BY <2>2
    <3> HIDE DEF e, f
    <3> QED BY <3>1, <3>2, <3>3
  <2>3. CASE j = 0
    <3>1. e[0] = d[0] /\ f[0] = {} /\ k - 1 \in Nat /\ 0 \in 0..(k - 1)
      BY <1>3, <1>4
    <3>2. d[0] = {}
      <4> DEFINE m == k - 1
      <4>1. m \in Nat /\ 0 \in 0..m /\ Drawing(d, S, m)
        BY <3>1, <1>5
      <4> HIDE DEF m
      <4> QED BY <4>1, DrawingAt
    <3> HIDE DEF e, f
    <3> QED BY <3>1, <3>2, <2>3
  <2> QED BY <2>1, <2>2, <2>3
<1>7. e = [j \in 0..k |-> e[j]] /\ f = [j \in 0..k |-> f[j]]
  OBVIOUS
<1>8. e = f
  <2> HIDE DEF e, f
  <2> QED BY <1>6, <1>7
<1>9. Drawing(e, S, k)
  <2> HIDE DEF e
  <2> QED BY <1>8 DEF Drawing
<1> QED BY <1>3, <1>9

(* n different members are drawn.                                            *)
LEMMA Drawn ==
    ASSUME NEW S, IsFiniteSet(S), NEW n \in 0..Cardinality(S)
    PROVE  Draw(S, n) \subseteq S /\ Cardinality(Draw(S, n)) = n
<1>0. Cardinality(S) \in Nat /\ n \in Nat
  BY FS_CardinalityType
<1> DEFINE d == CHOOSE d : Drawing(d, S, n)
           Good(k) == d[k] \subseteq S /\ Cardinality(d[k]) = k
           T == {k \in 0..n : ~Good(k)}
<1>1. Drawing(d, S, n)
  BY <1>0, DrawingExists
<1> HIDE DEF d
<1>2. ASSUME T # {} PROVE FALSE
  <2>1. PICK k \in T : \A j \in T : k <= j
    <3>1. T \subseteq 0..n
      OBVIOUS
    <3> HIDE DEF T
    <3> QED BY <3>1, <1>2, <1>0, LeastNumber
  <2>2. k \in 0..n /\ ~Good(k)
    BY <2>1
  <2>3. CASE k = 0
    <3>1. d[0] = {}
      BY <2>2, <2>3, <1>0, <1>1, DrawingAt
    <3> QED BY <3>1, <2>2, <2>3, FS_EmptySet
  <2>4. CASE k # 0
    <3> DEFINE c == d[k - 1]
               r == CHOOSE r \in S \ c : TRUE
    <3>1. k - 1 \in 0..n /\ Good(k - 1)
      BY <2>1, <2>2, <2>4
    <3>2. c \subseteq S /\ Cardinality(c) = k - 1 /\ IsFiniteSet(c)
      BY <3>1, FS_Subset
    <3>3. S \ c # {}
      <4>1. Cardinality(c) # Cardinality(S)
        BY <3>2, <2>2, <1>0
      <4> QED BY <4>1, <3>2
    <3>4. r \in S \ c
      BY <3>3
    <3>5. d[k] = c \cup {r}
      <4>1. d[k] = IF k = 0 THEN {} ELSE More(S, d[k - 1])
        BY <2>2, <1>1, Zenon DEF Drawing
      <4>2. d[k] = More(S, d[k - 1])
        BY <4>1, <2>4
      <4> QED BY <4>2 DEF More
    <3> HIDE DEF c, r
    <3>6. Cardinality(c \cup {r}) = (k - 1) + 1
      BY <3>2, <3>4, FS_AddElement
    <3> QED BY <3>2, <3>4, <3>5, <3>6, <2>2
  <2> QED BY <2>3, <2>4
<1>3. Good(n)
  BY <1>2, <1>0
<1>4. Draw(S, n) = d[n]
  BY DrawIs DEF d
<1> QED BY <1>3, <1>4

(* A sample is of the pool, and as large as there is.                        *)
LEMMA Sampled ==
    ASSUME NEW pool, IsFiniteSet(pool), NEW n \in Nat
    PROVE  /\ Sample(pool, n) \subseteq pool
           /\ Cardinality(Sample(pool, n)) = Least(n, Cardinality(pool))
<1>1. Cardinality(pool) \in Nat
  BY FS_CardinalityType
<1>2. Least(n, Cardinality(pool)) \in 0..Cardinality(pool)
  BY <1>1 DEF Least
<1> QED BY <1>2, Drawn DEF Sample

(* A rounded share of a number is no more than it.                           *)
LEMMA Rounded ==
    ASSUME NEW n \in Nat, NEW percent \in 1..100
    PROVE  Round(n, percent) \in 0..n
<1> DEFINE down == (n * percent) \div 100
           rest == (n * percent) % 100
<1>1. n * percent \in Nat /\ n * percent <= 100 * n /\ (percent # 100 /\ n # 0 => n * percent < 100 * n)
  <2>1. \A x \in Nat, s \in 1..100 : x * s \in Nat /\ x * s <= 100 * x
    OBVIOUS
  <2>2. \A x \in Nat \ {0}, s \in 1..99 : x * s < 100 * x
    OBVIOUS
  <2> QED BY <2>1, <2>2
<1>4. Round(n, percent) = IF rest > 50 \/ (rest = 50 /\ down % 2 = 1) THEN down + 1 ELSE down
  BY DEF Round
<1>5. down \in Nat /\ rest \in 0..99 /\ n * percent = 100 * down + rest
  BY <1>1
<1> HIDE DEF down, rest
<1>7. down <= n /\ (down = n => rest = 0)
  <2> DEFINE x == n * percent
  <2>1. x \in Nat /\ x <= 100 * n /\ x = 100 * down + rest
    BY <1>1, <1>5
  <2> HIDE DEF x
  <2> QED BY <2>1, <1>5
<1> QED BY <1>4, <1>5, <1>7

(* The rows of the files, and those load_human and load_ai make.             *)
IsRow(r) == r = [id |-> r.id, q |-> r.q, part |-> r.part, gen |-> r.gen, slice |-> r.slice, src |-> r.src]
SourceRow(r) ==
    /\ IsRow(r) /\ r.slice \in {"human", "raw-ai"} /\ r.src = {} /\ r.q = r.id[1] /\ r.id[3] = "raw"
    /\ r.slice = "raw-ai" => r.id \in DOMAIN Edited /\ r.gen \in Models
(* The answers to a question, and no more human than AI ones in train.       *)
AnswersTo(S, q) == {r \in S : r.q = q}
InTrain(rows) == {r \in rows : r.part = "train"}
NotMostlyHuman(rows) ==
    \A q \in {r.q : r \in InTrain(rows)} :
        Cardinality(AnswersTo(Human(InTrain(rows)), q)) <= Cardinality(AnswersTo(Ai(InTrain(rows)), q))
(* All answers to a question stand in one partition.                         *)
OnePlace(rows) == \A r, s \in rows : r.q = s.q => r.part = s.part

(* A function takes finitely many values on a finite set.                    *)
LEMMA ImageFinite ==
    ASSUME NEW S, IsFiniteSet(S), NEW f
    PROVE  IsFiniteSet({f[x] : x \in S})
<1> DEFINE g == [x \in S |-> f[x]]
<1>1. g \in Surjection(S, {f[x] : x \in S})
  BY DEF Surjection
<1> QED BY <1>1, FS_Surjection

(* The value at a pair is one of the values at pairs.                        *)
LEMMA PairImage ==
    ASSUME NEW A, NEW B, NEW f, NEW a \in A, NEW b \in B
    PROVE  f[<<a, b>>] \in {f[x] : x \in A \X B}
<1>1. <<a, b>> \in A \X B
  OBVIOUS
<1> QED BY <1>1, Zenon

(* keep_share keeps some of what it is given.                                *)
LEMMA KeptOfThem ==
    ASSUME NEW ais, IsFiniteSet(ais)
    PROVE  Kept(ais) \subseteq ais
<1> DEFINE tier(t, p, m) == {r \in ais : Tier[r.id] = t /\ r.part = p /\ r.gen = m}
<1>1. ASSUME NEW t, NEW p, NEW m
      PROVE  (IF t \in DOMAIN Keep THEN Draw(tier(t, p, m), Round(Cardinality(tier(t, p, m)), Keep[t]))
              ELSE tier(t, p, m)) \subseteq ais
  <2> DEFINE S == tier(t, p, m)
  <2>1. S \subseteq ais /\ IsFiniteSet(S)
    BY FS_Subset
  <2> HIDE DEF S, tier
  <2>2. ASSUME t \in DOMAIN Keep PROVE Draw(S, Round(Cardinality(S), Keep[t])) \subseteq S
    <3>1. Keep[t] \in 1..100
      BY <2>2, CorpusAssumption
    <3>2. Cardinality(S) \in Nat
      BY <2>1, FS_CardinalityType
    <3>3. Round(Cardinality(S), Keep[t]) \in 0..Cardinality(S)
      BY <3>1, <3>2, Rounded
    <3> QED BY <3>3, <2>1, Drawn
  <2>3. (IF t \in DOMAIN Keep THEN Draw(S, Round(Cardinality(S), Keep[t])) ELSE S) \subseteq ais
    BY <2>1, <2>2
  <2> QED BY <2>3 DEF S
<1>2. Kept(ais) = UNION {IF t \in DOMAIN Keep THEN Draw(tier(t, p, m), Round(Cardinality(tier(t, p, m)), Keep[t]))
                         ELSE tier(t, p, m) : t \in {Tier[r.id] : r \in ais}, p \in Partitions, m \in Models}
  BY DEF Kept
<1> HIDE DEF tier
<1> QED BY <1>1, <1>2

(* The sources the corpus is built from.                                     *)
LEMMA SourcesAre ==
    ASSUME NEW i \in DOMAIN Revisions
    PROVE  /\ IsFiniteSet(Revisions[i].questions) /\ IsFiniteSet(Humans) /\ IsFiniteSet(Models)
           /\ Revisions[i].ais \subseteq {Raw(q, m) : q \in Revisions[i].questions, m \in Models}
           /\ Revisions[i].ais \subseteq DOMAIN Edited
<1>1. IsFiniteSet(Questions) /\ IsFiniteSet(Humans) /\ IsFiniteSet(Models)
  BY CorpusAssumption
<1>2. /\ Revisions[i].questions \subseteq Questions
      /\ Revisions[i].ais \subseteq {Raw(q, m) : q \in Revisions[i].questions, m \in Models}
      /\ Revisions[i].ais \subseteq DOMAIN Edited
  BY CorpusAssumption
<1> QED BY <1>1, <1>2, FS_Subset

(* What is loaded is finite, of one partition for a question, and names no   *)
(* source.                                                                   *)
LEMMA SourceRows ==
    ASSUME NEW i \in DOMAIN Revisions, NEW seed
    PROVE  LET rows == LongEnough(HumanRows(Revisions[i], seed) \cup Kept(AiRows(Revisions[i], seed)))
           IN  /\ IsFiniteSet(rows) /\ OnePlace(rows)
               /\ \A r \in rows : SourceRow(r) /\ r.q \in Revisions[i].questions
<1> DEFINE rev == Revisions[i]
           part == PartitionOf(rev, seed)
           h == [x \in rev.questions \X Humans |-> Row(Raw(x[1], x[2]), part[x[1]], "human")]
           a == [id \in rev.ais |-> Row(id, part[id[1]], id[2])]
           pairs == rev.questions \X Models
           raw == [x \in pairs |-> Raw(x[1], x[2])]
<1>1. IsFiniteSet(rev.questions) /\ IsFiniteSet(Humans) /\ IsFiniteSet(Models)
  BY SourcesAre
<1>2. HumanRows(rev, seed) \subseteq {h[x] : x \in rev.questions \X Humans}
  <2>1. \A q \in rev.questions, w \in Humans :
          <<q, w>> \in rev.questions \X Humans /\ h[<<q, w>>] = Row(Raw(q, w), part[q], "human")
    OBVIOUS
  <2>2. HumanRows(rev, seed) = {Row(Raw(q, w), part[q], "human") : q \in rev.questions, w \in Humans}
    BY DEF HumanRows
  <2>3. \A q \in rev.questions, w \in Humans : Row(Raw(q, w), part[q], "human") \in {h[x] : x \in rev.questions \X Humans}
    <3> HIDE DEF h
    <3> QED BY <2>1, PairImage
  <2> DEFINE image == {h[x] : x \in rev.questions \X Humans}
  <2> HIDE DEF h, part
  <2>4. ASSUME NEW r \in HumanRows(rev, seed) PROVE r \in image
    <3>1. PICK q \in rev.questions, w \in Humans : r = Row(Raw(q, w), part[q], "human")
      BY <2>2
    <3> QED BY <3>1, <2>3
  <2> QED BY <2>4
<1>3. AiRows(rev, seed) = {a[id] : id \in rev.ais}
  BY DEF AiRows
<1>4. IsFiniteSet(rev.questions \X Humans) /\ IsFiniteSet(pairs)
  BY <1>1, FS_Product
<1>5. IsFiniteSet(rev.ais)
  <2>1. rev.ais \subseteq {raw[x] : x \in pairs}
    <3>1. rev.ais \subseteq {Raw(q, m) : q \in rev.questions, m \in Models}
      BY SourcesAre
    <3>2. \A q \in rev.questions, m \in Models : <<q, m>> \in pairs /\ Raw(q, m) = raw[<<q, m>>]
      OBVIOUS
    <3>3. \A q \in rev.questions, m \in Models : Raw(q, m) \in {raw[x] : x \in pairs}
      <4> HIDE DEF raw
      <4> QED BY <3>2, PairImage DEF pairs
    <3> HIDE DEF raw, pairs
    <3> QED BY <3>1, <3>3
  <2> HIDE DEF raw, pairs
  <2>2. IsFiniteSet({raw[x] : x \in pairs})
    BY <1>4, ImageFinite
  <2> QED BY <2>1, <2>2, FS_Subset
<1>6. IsFiniteSet(HumanRows(rev, seed)) /\ IsFiniteSet(AiRows(rev, seed))
  <2> HIDE DEF h, a
  <2>1. IsFiniteSet({h[x] : x \in rev.questions \X Humans}) /\ IsFiniteSet({a[id] : id \in rev.ais})
    BY <1>4, <1>5, ImageFinite
  <2> QED BY <2>1, <1>2, <1>3, FS_Subset
<1>7. \A r \in HumanRows(rev, seed) \cup AiRows(rev, seed) :
        SourceRow(r) /\ r.part = part[r.q] /\ r.q \in rev.questions
  <2>1. \A id, p, g : /\ id[3] = "raw" /\ (g = "human" \/ (id \in DOMAIN Edited /\ g \in Models)) =>
                            SourceRow(Row(id, p, g))
                      /\ Row(id, p, g).q = id[1] /\ Row(id, p, g).part = p
    BY DEF SourceRow, IsRow, Row
  <2>2. \A q, w : Raw(q, w)[1] = q /\ Raw(q, w)[3] = "raw"
    BY DEF Raw
  <2>3. rev.ais \subseteq DOMAIN Edited /\ rev.ais \subseteq {Raw(q, m) : q \in rev.questions, m \in Models}
    BY SourcesAre
  <2>4. \A id \in rev.ais : id[1] \in rev.questions /\ id[2] \in Models /\ id[3] = "raw"
    <3>1. \A q, w : Raw(q, w)[2] = w
      BY DEF Raw
    <3> QED BY <3>1, <2>2, <2>3
  <2>5. HumanRows(rev, seed) = {Row(Raw(q, w), part[q], "human") : q \in rev.questions, w \in Humans}
    BY DEF HumanRows
  <2>6. AiRows(rev, seed) = {Row(id, part[id[1]], id[2]) : id \in rev.ais}
    BY DEF AiRows
  <2> HIDE DEF part, h, a, rev
  <2>7. ASSUME NEW r \in HumanRows(rev, seed) PROVE SourceRow(r) /\ r.part = part[r.q] /\ r.q \in rev.questions
    <3>1. PICK q \in rev.questions, w \in Humans : r = Row(Raw(q, w), part[q], "human")
      BY <2>5
    <3> QED BY <3>1, <2>1, <2>2
  <2>8. ASSUME NEW r \in AiRows(rev, seed) PROVE SourceRow(r) /\ r.part = part[r.q] /\ r.q \in rev.questions
    <3>1. PICK id \in rev.ais : r = Row(id, part[id[1]], id[2])
      BY <2>6
    <3> QED BY <3>1, <2>1, <2>3, <2>4
  <2> QED BY <2>7, <2>8
<1> DEFINE rows == LongEnough(HumanRows(rev, seed) \cup Kept(AiRows(rev, seed)))
<1>8. rows \subseteq HumanRows(rev, seed) \cup AiRows(rev, seed)
  BY <1>6, KeptOfThem DEF LongEnough
<1>9. IsFiniteSet(rows)
  <2>1. IsFiniteSet(HumanRows(rev, seed) \cup AiRows(rev, seed))
    BY <1>6, FS_Union
  <2> QED BY <2>1, <1>8, FS_Subset
<1> HIDE DEF part
<1> QED BY <1>7, <1>8, <1>9 DEF OnePlace

(* What cap_train_humans keeps of the human answers to a question.          *)
KeptHumans(rows, q) ==
    LET humans == AnswersTo(Human(rows), q)
        limit == Cardinality(AnswersTo(Ai(rows), q))
    IN  IF \A r \in humans : r.part = "train"
        THEN Draw(humans, Least(limit, Cardinality(humans)))
        ELSE humans

(* cap_train_humans keeps all AI answers, and of the human ones those.       *)
LEMMA CappedIs == \A rows : Capped(rows) = Ai(rows) \cup UNION {KeptHumans(rows, r.q) : r \in rows}
  BY DEF Capped, KeptHumans, AnswersTo

(* Of a train question it keeps no more than there are AI answers.           *)
LEMMA KeptHumansAre ==
    ASSUME NEW rows, IsFiniteSet(rows), NEW q
    PROVE  /\ KeptHumans(rows, q) \subseteq AnswersTo(Human(rows), q)
           /\ (\A r \in AnswersTo(Human(rows), q) : r.part = "train") =>
                  Cardinality(KeptHumans(rows, q)) <= Cardinality(AnswersTo(Ai(rows), q))
<1> DEFINE humans == AnswersTo(Human(rows), q)
           limit == Cardinality(AnswersTo(Ai(rows), q))
<1>1. IsFiniteSet(humans) /\ limit \in Nat
  <2>1. humans \in SUBSET rows /\ AnswersTo(Ai(rows), q) \in SUBSET rows
    BY DEF AnswersTo, Human, Ai
  <2> QED BY <2>1, FS_Subset, FS_CardinalityType
<1>2. Cardinality(humans) \in Nat
  BY <1>1, FS_CardinalityType
<1>3. KeptHumans(rows, q) = IF \A r \in humans : r.part = "train"
                            THEN Draw(humans, Least(limit, Cardinality(humans))) ELSE humans
  BY DEF KeptHumans
<1> HIDE DEF humans, limit
<1>4. Least(limit, Cardinality(humans)) \in 0..Cardinality(humans) /\ Least(limit, Cardinality(humans)) <= limit
  BY <1>1, <1>2 DEF Least
<1>5. /\ Draw(humans, Least(limit, Cardinality(humans))) \subseteq humans
      /\ Cardinality(Draw(humans, Least(limit, Cardinality(humans)))) <= limit
  BY <1>1, <1>4, Drawn
<1>6. /\ KeptHumans(rows, q) \subseteq humans
      /\ (\A r \in humans : r.part = "train") => Cardinality(KeptHumans(rows, q)) <= limit
  BY <1>3, <1>5
<1> QED BY <1>6 DEF humans, limit

(* So what is left is some of the rows, and not mostly human in train.       *)
LEMMA CapKeeps ==
    ASSUME NEW rows, IsFiniteSet(rows), OnePlace(rows)
    PROVE  Capped(rows) \subseteq rows /\ NotMostlyHuman(Capped(rows))
<1> DEFINE C == Capped(rows)
<1>1. C = Ai(rows) \cup UNION {KeptHumans(rows, r.q) : r \in rows}
  BY CappedIs
<1>2. C \subseteq rows
  <2>1. Ai(rows) \subseteq rows /\ \A q : KeptHumans(rows, q) \subseteq rows
    BY KeptHumansAre DEF Ai, Human, AnswersTo
  <2> HIDE DEF C
  <2> QED BY <2>1, <1>1
<1>3. ASSUME NEW q, NEW t \in InTrain(C), t.q = q
      PROVE  Cardinality(AnswersTo(Human(InTrain(C)), q)) <= Cardinality(AnswersTo(Ai(InTrain(C)), q))
  <2>1. \A r \in rows : r.q = q => r.part = "train"
    BY <1>2, <1>3 DEF OnePlace, InTrain
  <2>2. AnswersTo(Human(InTrain(C)), q) \subseteq KeptHumans(rows, q)
    <3> SUFFICES ASSUME NEW h \in C, h.slice = "human", h.q = q PROVE h \in KeptHumans(rows, q)
      BY DEF AnswersTo, Human, InTrain
    <3>1. h \notin Ai(rows)
      BY DEF Ai
    <3>2. PICK r \in rows : h \in KeptHumans(rows, r.q)
      BY <3>1, <1>1
    <3>3. h.q = r.q
      BY <3>2, KeptHumansAre DEF AnswersTo
    <3> QED BY <3>2, <3>3
  <2>3. AnswersTo(Ai(InTrain(C)), q) = AnswersTo(Ai(rows), q)
    BY <2>1, <1>1, <1>2 DEF AnswersTo, Ai, InTrain
  <2>4. Cardinality(KeptHumans(rows, q)) <= Cardinality(AnswersTo(Ai(rows), q))
    BY <2>1, KeptHumansAre DEF AnswersTo, Human
  <2>5. IsFiniteSet(KeptHumans(rows, q)) /\ IsFiniteSet(AnswersTo(Ai(rows), q))
    <3>1. KeptHumans(rows, q) \in SUBSET rows /\ AnswersTo(Ai(rows), q) \in SUBSET rows
      BY KeptHumansAre DEF AnswersTo, Human, Ai
    <3> QED BY <3>1, FS_Subset
  <2>6. Cardinality(AnswersTo(Human(InTrain(C)), q)) <= Cardinality(KeptHumans(rows, q))
    BY <2>2, <2>5, FS_Subset
  <2>7. /\ Cardinality(AnswersTo(Human(InTrain(C)), q)) \in Nat /\ Cardinality(KeptHumans(rows, q)) \in Nat
        /\ Cardinality(AnswersTo(Ai(rows), q)) \in Nat
    BY <2>2, <2>5, FS_Subset, FS_CardinalityType
  <2> QED BY <2>3, <2>4, <2>6, <2>7
<1> QED BY <1>2, <1>3 DEF NotMostlyHuman

(* No key is in two partitions: pairs with the same first part are the same. *)
LEMMA SingleMeans ==
    ASSUME NEW S, IsFiniteSet(S), Cardinality(S) = Cardinality({x[1] : x \in S})
    PROVE  \A x, y \in S : x[1] = y[1] => x = y
<1> DEFINE first == [x \in S |-> x[1]]
<1>1. first \in Surjection(S, {x[1] : x \in S})
  BY DEF Surjection
<1>2. first \in Injection(S, {x[1] : x \in S})
  BY <1>1, FS_Surjection
<1>3. \A x, y \in S : first[x] = first[y] => x = y
  <2> HIDE DEF first
  <2> QED BY <1>2 DEF Injection, IsInjective
<1> QED BY <1>3

(* Questions are joined one pair after the other.                            *)
JoiningUpTo(d, rev, n) ==
    d = [k \in 0..n |-> IF k = 0 THEN [q \in rev.questions |-> q] ELSE Joined(d[k - 1], Joins(rev)[k])]

(* Roots ends one such sequence.                                             *)
LEMMA RootsIs ==
    ASSUME NEW rev
    PROVE  Roots(rev) = (CHOOSE d : JoiningUpTo(d, rev, Len(Joins(rev))))[Len(Joins(rev))]
  BY DEF Roots, JoiningUpTo

(* The roots after k pairs from those before the k-th.                       *)
LEMMA JoiningAt ==
    ASSUME NEW rev, NEW n \in Nat, NEW d, JoiningUpTo(d, rev, n), NEW k \in 0..n
    PROVE  /\ k = 0 => d[k] = [q \in rev.questions |-> q]
           /\ k # 0 => d[k] = Joined(d[k - 1], Joins(rev)[k])
<1>1. d[k] = IF k = 0 THEN [q \in rev.questions |-> q] ELSE Joined(d[k - 1], Joins(rev)[k])
  BY Zenon DEF JoiningUpTo
<1> QED BY <1>1

(* There is such a sequence of every length, as for Draw.                    *)
LEMMA JoiningExists ==
    ASSUME NEW rev, NEW n \in Nat
    PROVE  \E d : JoiningUpTo(d, rev, n)
<1> DEFINE T == {k \in 0..n : ~\E d : JoiningUpTo(d, rev, k)}
           start == [q \in rev.questions |-> q]
<1>1. SUFFICES ASSUME T # {} PROVE FALSE
  OBVIOUS
<1>2. PICK k \in T : \A j \in T : k <= j
  <2>1. T \subseteq 0..n
    OBVIOUS
  <2> HIDE DEF T
  <2> QED BY <2>1, <1>1, LeastNumber
<1>3. k \in 0..n /\ ~\E d : JoiningUpTo(d, rev, k)
  BY <1>2
<1>4. k # 0
  <2> DEFINE d == [j \in 0..0 |-> start]
  <2>1. JoiningUpTo(d, rev, 0)
    BY DEF JoiningUpTo
  <2> QED BY <2>1, <1>3
<1>5. PICK d : JoiningUpTo(d, rev, k - 1)
  <2>1. k - 1 \in 0..n /\ k - 1 \notin T
    BY <1>2, <1>3, <1>4
  <2> QED BY <2>1
<1> DEFINE e == [j \in 0..k |-> IF j = k THEN Joined(d[k - 1], Joins(rev)[k]) ELSE d[j]]
           f == [j \in 0..k |-> IF j = 0 THEN start ELSE Joined(e[j - 1], Joins(rev)[j])]
<1>6. ASSUME NEW j \in 0..k PROVE e[j] = f[j]
  <2> HIDE DEF start
  <2>1. CASE j = k
    <3>1. e[k - 1] = d[k - 1] /\ e[k] = Joined(d[k - 1], Joins(rev)[k])
      BY <1>3, <1>4
    <3>2. f[k] = Joined(e[k - 1], Joins(rev)[k])
      BY <1>3, <1>4
    <3> HIDE DEF e, f
    <3> QED BY <3>1, <3>2, <2>1
  <2>2. CASE j # k
    <3> DEFINE m == k - 1
    <3>1. e[j] = d[j] /\ (j # 0 => e[j - 1] = d[j - 1]) /\ m \in Nat /\ j \in 0..m /\ JoiningUpTo(d, rev, m)
      BY <1>3, <1>4, <1>5, <2>2
    <3> HIDE DEF m
    <3>2. (j = 0 => d[j] = start) /\ (j # 0 => d[j] = Joined(d[j - 1], Joins(rev)[j]))
      BY <3>1, JoiningAt DEF start
    <3>3. (j = 0 => f[j] = start) /\ (j # 0 => f[j] = Joined(e[j - 1], Joins(rev)[j]))
      OBVIOUS
    <3> HIDE DEF e, f
    <3> QED BY <3>1, <3>2, <3>3
  <2> QED BY <2>1, <2>2
<1>7. e = [j \in 0..k |-> e[j]] /\ f = [j \in 0..k |-> f[j]]
  OBVIOUS
<1>8. e = f
  <2> HIDE DEF e, f
  <2> QED BY <1>6, <1>7
<1>9. JoiningUpTo(e, rev, k)
  <2> HIDE DEF e
  <2> QED BY <1>8 DEF JoiningUpTo
<1> QED BY <1>3, <1>9

(* A finite set is put in sequence.                                          *)
LEMMA InTurn ==
    ASSUME NEW S, IsFiniteSet(S)
    PROVE  SetToSeq(S) \in Seq(S) /\ Len(SetToSeq(S)) = Cardinality(S) /\ Cardinality(S) \in Nat
<1>1. Cardinality(S) \in Nat
  BY FS_CardinalityType
<1>2. PICK f : f \in Bijection(1..Cardinality(S), S)
  BY FS_CardinalityType DEF ExistsBijection
<1>3. f \in [1..Cardinality(S) -> S] /\ IsInjective(f)
  BY <1>2 DEF Bijection, Injection, Surjection, IsInjective
<1>4. SetToSeq(S) \in [1..Cardinality(S) -> S]
  BY <1>3 DEF SetToSeq
<1> QED BY <1>1, <1>4

(* Listed twins are among the pairs joined.                                  *)
LEMMA TwinsAreJoined ==
    ASSUME NEW i \in DOMAIN Revisions
    PROVE  LET rev == Revisions[i] IN
           /\ Joins(rev) \in Seq(rev.questions \X rev.questions)
           /\ \A t \in DOMAIN rev.twins : \E k \in DOMAIN Joins(rev) : Joins(rev)[k] = rev.twins[t]
<1> DEFINE rev == Revisions[i]
           pairs == rev.questions \X rev.questions
           same == {pair \in pairs : pair[1] < pair[2] /\ TextOf[pair[1]] = TextOf[pair[2]]}
           texts == SetToSeq(same)
<1>1. rev.twins \in Seq(pairs) /\ IsFiniteSet(rev.questions)
  BY TwinsAssumption, SourcesAre
<1>2. IsFiniteSet(same) /\ same \subseteq pairs
  BY <1>1, FS_Product, FS_Subset
<1>3. texts \in Seq(pairs)
  <2> HIDE DEF same, pairs
  <2> QED BY <1>2, InTurn
<1>4. Joins(rev) = texts \o rev.twins
  BY DEF Joins
<1> HIDE DEF texts, pairs, rev
<1>5. Joins(rev) \in Seq(pairs)
  BY <1>1, <1>3, <1>4
<1>6. ASSUME NEW t \in DOMAIN rev.twins
      PROVE  Len(texts) + t \in DOMAIN Joins(rev) /\ Joins(rev)[Len(texts) + t] = rev.twins[t]
  BY <1>1, <1>3, <1>4
<1> QED BY <1>5, <1>6 DEF rev, pairs

(* A pair joined has one root, and keeps it whatever is joined after it.     *)
LEMMA JoinedOnce ==
    ASSUME NEW i \in DOMAIN Revisions, NEW k \in DOMAIN Joins(Revisions[i])
    PROVE  LET rev == Revisions[i] IN Roots(rev)[Joins(rev)[k][1]] = Roots(rev)[Joins(rev)[k][2]]
<1> DEFINE rev == Revisions[i]
           n == Len(Joins(rev))
           d == CHOOSE d : JoiningUpTo(d, rev, n)
           Q == rev.questions
           pair == Joins(rev)[k]
<1>1. Joins(rev) \in Seq(Q \X Q)
  BY TwinsAreJoined
<1>2. n \in Nat /\ k \in 1..n
  BY <1>1
<1>3. Roots(rev) = d[n] /\ JoiningUpTo(d, rev, n)
  BY <1>2, RootsIs, JoiningExists
<1>4. \A j \in 1..n : Joins(rev)[j] \in Q \X Q
  BY <1>1
<1> HIDE DEF d, n, rev, Q
<1>5. ASSUME NEW j \in 0..n
      PROVE  /\ j = 0 => d[j] = [q \in rev.questions |-> q]
             /\ j # 0 => d[j] = Joined(d[j - 1], Joins(rev)[j])
  <2>1. n \in Nat /\ JoiningUpTo(d, rev, n)
    BY <1>2, <1>3
  <2> HIDE DEF pair
  <2> QED BY <2>1, JoiningAt
<1> DEFINE Good(j) == DOMAIN d[j] = Q /\ (j >= k => d[j][pair[1]] = d[j][pair[2]])
           T == {j \in 0..n : ~Good(j)}
<1>6. ASSUME T # {} PROVE FALSE
  <2>1. PICK j \in T : \A l \in T : j <= l
    <3>1. T \subseteq 0..n
      OBVIOUS
    <3> HIDE DEF T
    <3> QED BY <3>1, <1>2, <1>6, LeastNumber
  <2>2. j \in 0..n /\ ~Good(j)
    BY <2>1
  <2>3. j # 0
    <3>1. d[0] = [q \in Q |-> q]
      BY <1>2, <1>5 DEF Q
    <3>2. DOMAIN d[0] = Q
      BY <3>1
    <3>3. ~(0 >= k)
      BY <1>2
    <3> QED BY <2>2, <3>2, <3>3
  <2>4. j - 1 \in 0..n /\ Good(j - 1)
    <3>1. j - 1 \in 0..n /\ j - 1 \notin T
      BY <2>1, <2>2, <2>3, <1>2
    <3> QED BY <3>1
  <2> DEFINE before == d[j - 1]
             joined == Joins(rev)[j]
  <2>5. d[j] = [q \in DOMAIN before |-> IF before[q] = before[joined[2]] THEN before[joined[1]] ELSE before[q]]
    <3>1. d[j] = Joined(d[j - 1], Joins(rev)[j])
      <4>1. j \in 0..n /\ j # 0
        BY <2>2, <2>3
      <4> HIDE DEF T
      <4> QED BY <4>1, <1>5
    <3> QED BY <3>1 DEF Joined
  <2>6. DOMAIN before = Q /\ joined[1] \in Q /\ joined[2] \in Q /\ pair[1] \in Q /\ pair[2] \in Q
    BY <1>2, <1>4, <2>2, <2>3, <2>4
  <2>7. CASE j = k
    <3>1. joined = pair
      BY <2>7
    <3> HIDE DEF before, joined, pair
    <3>2. d[j][pair[1]] = before[pair[1]] /\ d[j][pair[2]] = before[pair[1]] /\ DOMAIN d[j] = Q
      BY <2>5, <2>6, <3>1
    <3> QED BY <2>2, <3>2
  <2>8. CASE j # k
    <3>1. j >= k => before[pair[1]] = before[pair[2]]
      BY <2>4, <2>8, <2>2, <1>2
    <3> HIDE DEF before, joined, pair
    <3>2. DOMAIN d[j] = Q /\ (j >= k => d[j][pair[1]] = d[j][pair[2]])
      BY <2>5, <2>6, <3>1
    <3> QED BY <2>2, <3>2
  <2> QED BY <2>7, <2>8
<1>7. Good(n)
  BY <1>2, <1>6
<1> QED BY <1>2, <1>3, <1>7 DEF rev

(* What check finds sound is fair: no text, and no listed twins, stand in two *)
(* partitions.                                                               *)
LEMMA SoundIsFair ==
    ASSUME NEW i \in DOMAIN Revisions, NEW rows, IsFiniteSet(rows),
           \A r \in rows : r.q \in Revisions[i].questions, Sound(Revisions[i], rows)
    PROVE  Fair(rows)
<1> DEFINE rev == Revisions[i]
           group == GroupOf(rev)
           text == [r \in rows |-> <<TextOf[r.q], r.part>>]
           named == [r \in rows |-> <<group[r.q], r.part>>]
           texts == {<<TextOf[r.q], r.part>> : r \in rows}
           names == {<<group[r.q], r.part>> : r \in rows}
<1>1. Cardinality(texts) = Cardinality({TextOf[r.q] : r \in rows})
  BY DEF Sound, Single
<1>2. Cardinality(names) = Cardinality({group[r.q] : r \in rows})
  BY DEF Sound, Single
<1>3. \A r, s \in rows : TextOf[r.q] = TextOf[s.q] => r.part = s.part
  <2>0. \A r \in rows : text[r] = <<TextOf[r.q], r.part>>
    OBVIOUS
  <2>1. texts = {text[r] : r \in rows} /\ {TextOf[r.q] : r \in rows} = {x[1] : x \in texts}
    <3>1. {TextOf[r.q] : r \in rows} = {x[1] : x \in texts}
      <4>1. \A r \in rows : <<TextOf[r.q], r.part>>[1] = TextOf[r.q]
        OBVIOUS
      <4>2. \A r \in rows : TextOf[r.q] \in {x[1] : x \in texts}
        BY <4>1
      <4>3. \A x \in texts : x[1] \in {TextOf[r.q] : r \in rows}
        OBVIOUS
      <4> HIDE DEF texts, text
      <4> QED BY <4>2, <4>3
    <3> HIDE DEF text
    <3> QED BY <2>0, <3>1
  <2>2. IsFiniteSet(texts)
    <3> HIDE DEF text
    <3> QED BY <2>1, ImageFinite
  <2>3. \A x, y \in texts : x[1] = y[1] => x = y
    <3> HIDE DEF texts, text
    <3> QED BY <1>1, <2>1, <2>2, SingleMeans
  <2> TAKE r, s \in rows
  <2>4. <<TextOf[r.q], r.part>> \in texts /\ <<TextOf[s.q], s.part>> \in texts
    OBVIOUS
  <2> HIDE DEF texts
  <2> QED BY <2>3, <2>4
<1>4. \A r, s \in rows : group[r.q] = group[s.q] => r.part = s.part
  <2> HIDE DEF group
  <2>0. \A r \in rows : named[r] = <<group[r.q], r.part>>
    OBVIOUS
  <2>1. names = {named[r] : r \in rows} /\ {group[r.q] : r \in rows} = {x[1] : x \in names}
    <3>1. {group[r.q] : r \in rows} = {x[1] : x \in names}
      <4>1. \A r \in rows : <<group[r.q], r.part>>[1] = group[r.q]
        OBVIOUS
      <4>2. \A r \in rows : group[r.q] \in {x[1] : x \in names}
        BY <4>1
      <4>3. \A x \in names : x[1] \in {group[r.q] : r \in rows}
        OBVIOUS
      <4> HIDE DEF names, named
      <4> QED BY <4>2, <4>3
    <3> HIDE DEF named
    <3> QED BY <2>0, <3>1
  <2>2. IsFiniteSet(names)
    <3> HIDE DEF named
    <3> QED BY <2>1, ImageFinite
  <2>3. \A x, y \in names : x[1] = y[1] => x = y
    <3> HIDE DEF names, named
    <3> QED BY <1>2, <2>1, <2>2, SingleMeans
  <2> TAKE r, s \in rows
  <2>4. <<group[r.q], r.part>> \in names /\ <<group[s.q], s.part>> \in names
    OBVIOUS
  <2> HIDE DEF names
  <2> QED BY <2>3, <2>4
<1>5. ASSUME NEW q \in rev.questions, NEW r \in rev.questions, Twins(rev, q, r)
      PROVE  q = r \/ group[q] = group[r]
  <2>1. PICK t \in DOMAIN rev.twins : {rev.twins[t][1], rev.twins[t][2]} = {q, r}
    BY <1>5 DEF Twins
  <2>2. PICK k \in DOMAIN Joins(rev) : Joins(rev)[k] = rev.twins[t]
    BY TwinsAreJoined
  <2>3. Roots(rev)[Joins(rev)[k][1]] = Roots(rev)[Joins(rev)[k][2]]
    BY JoinedOnce
  <2>4. q = r \/ Roots(rev)[q] = Roots(rev)[r]
    BY <2>1, <2>2, <2>3
  <2>5. Roots(rev)[q] = Roots(rev)[r] => group[q] = group[r]
    BY DEF GroupOf
  <2> QED BY <2>4, <2>5
<1> HIDE DEF group
<1>6. ASSUME NEW r \in rows, NEW s \in rows, Alike(r.q, s.q) PROVE r.part = s.part
  <2>1. CASE TextOf[r.q] = TextOf[s.q]
    BY <2>1, <1>3
  <2>2. CASE TextOf[r.q] # TextOf[s.q]
    <3>1. r.q \in rev.questions /\ s.q \in rev.questions
      OBVIOUS
    <3>2. Twins(rev, r.q, s.q)
      BY <2>2, <3>1, <1>6 DEF Alike
    <3>3. group[r.q] = group[s.q]
      BY <3>1, <3>2, <2>2, <1>5
    <3> QED BY <3>3, <1>4
  <2> QED BY <2>1, <2>2
<1> QED BY <1>6 DEF Fair, FairPlaces, Places

(* What build writes.                                                        *)
CorpusLike(rows) ==
    /\ IsFiniteSet(rows)
    /\ \A r \in rows : SourceRow(r)
    /\ NotMostlyHuman(rows)
    /\ Ai(rows) # {}
    /\ Fair(rows)

(* Every corpus that build writes has these properties.                      *)
LEMMA BuiltRows == ASSUME NEW made \in Built PROVE CorpusLike(made.rows)
<1>1. PICK i \in DOMAIN Revisions, seed \in Seeds :
         made = [revision |-> i, shuffle |-> seed, rows |-> CorpusRows(Revisions[i], seed),
                 manifest |-> Manifest(Revisions[i], seed)]
  BY DEF Built, Drafts
<1> DEFINE rows == LongEnough(HumanRows(Revisions[i], seed) \cup Kept(AiRows(Revisions[i], seed)))
<1>2. made.rows = Capped(rows)
  BY <1>1 DEF CorpusRows
<1>3. /\ IsFiniteSet(rows) /\ OnePlace(rows)
      /\ \A r \in rows : SourceRow(r) /\ r.q \in Revisions[i].questions
  BY SourceRows
<1> HIDE DEF rows
<1>4. Capped(rows) \subseteq rows /\ NotMostlyHuman(Capped(rows))
  BY <1>3, CapKeeps
<1>5. IsFiniteSet(Capped(rows))
  BY <1>3, <1>4, FS_Subset
<1>6. Ai(made.rows) # {}
  BY DEF Built, Sound, Partitions
<1>7. Fair(made.rows)
  <2>1. Sound(Revisions[i], made.rows)
    BY <1>1 DEF Built
  <2> QED BY <2>1, <1>2, <1>3, <1>4, <1>5, SoundIsFair
<1> QED BY <1>2, <1>3, <1>4, <1>5, <1>6, <1>7 DEF CorpusLike

-----------------------------------------------------------------------------
(* Among sets of members of a finite set there is one that holds no other.   *)
LEMMA SmallestSet ==
    ASSUME NEW A, IsFiniteSet(A), NEW C, C \subseteq SUBSET A, C # {}
    PROVE  \E U \in C : \A V \in C : V \subseteq U => V = U
<1>1. C \subseteq FiniteSubsetsOf(A)
  BY FS_Subset DEF FiniteSubsetsOf
<1>2. PICK U \in C : \A V \in C : <<V, U>> \notin StrictSubsetOrdering(A)
  BY <1>1, FS_StrictSubsetOrderingWellFounded, WFMin
<1> QED BY <1>2 DEF StrictSubsetOrdering

(* The members of a set sorted by a key: when every key of A has at most n   *)
(* of them, A has at most n times as many; and when every key has at least   *)
(* n, at least as many.                                                      *)
Keyed(S, key, A) == {x \in S : key[x] \in A}
LEMMA KeyedOne ==
    ASSUME NEW S, IsFiniteSet(S), NEW key, NEW A, IsFiniteSet(A), NEW a \in A
    PROVE  /\ Cardinality(Keyed(S, key, A)) =
                Cardinality(Keyed(S, key, A \ {a})) + Cardinality(Keyed(S, key, {a}))
           /\ Cardinality(A) = Cardinality(A \ {a}) + 1
           /\ Cardinality(Keyed(S, key, A \ {a})) \in Nat /\ Cardinality(Keyed(S, key, {a})) \in Nat
           /\ Cardinality(A \ {a}) \in Nat
<1> DEFINE T == Keyed(S, key, A \ {a})
           U == Keyed(S, key, {a})
<1>1. Keyed(S, key, A) = T \cup U /\ T \cap U = {} /\ T \subseteq S /\ U \subseteq S
  BY DEF Keyed
<1>2. IsFiniteSet(T) /\ IsFiniteSet(U) /\ IsFiniteSet(A \ {a})
  BY <1>1, FS_Subset
<1> HIDE DEF T, U
<1>3. Cardinality(T) \in Nat /\ Cardinality(U) \in Nat /\ Cardinality({}) = 0
  BY <1>2, FS_CardinalityType, FS_EmptySet
<1>4. Cardinality(T \cup U) = Cardinality(T) + Cardinality(U) - Cardinality({})
  BY <1>1, <1>2, FS_Union
<1>5. Cardinality(A) = Cardinality(A \ {a}) + 1 /\ Cardinality(A \ {a}) \in Nat
  <2>1. Cardinality(A \ {a}) = Cardinality(A) - 1
    BY FS_RemoveElement
  <2> QED BY <2>1, <1>2, FS_CardinalityType
<1>6. Cardinality(Keyed(S, key, A)) = Cardinality(T) + Cardinality(U)
  BY <1>1, <1>3, <1>4
<1> QED BY <1>3, <1>5, <1>6 DEF T, U
LEMMA KeyedAtMost ==
    ASSUME NEW S, IsFiniteSet(S), NEW key, NEW A, IsFiniteSet(A), NEW n \in Nat,
           \A a \in A : Cardinality(Keyed(S, key, {a})) <= n
    PROVE  Cardinality(Keyed(S, key, A)) <= n * Cardinality(A)
<1> DEFINE C == {B \in SUBSET A : ~(Cardinality(Keyed(S, key, B)) <= n * Cardinality(B))}
<1>1. SUFFICES ASSUME C # {} PROVE FALSE
  <2> QED OBVIOUS
<1>2. PICK B \in C : \A V \in C : V \subseteq B => V = B
  <2>1. C \subseteq SUBSET A
    OBVIOUS
  <2> HIDE DEF C
  <2> QED BY <2>1, <1>1, SmallestSet
<1>3. B \subseteq A /\ IsFiniteSet(B) /\ ~(Cardinality(Keyed(S, key, B)) <= n * Cardinality(B))
  BY FS_Subset
<1>4. PICK a \in B : TRUE
  <2>1. ASSUME B = {} PROVE FALSE
    <3>1. Keyed(S, key, {}) = {} /\ Cardinality({}) = 0
      BY FS_EmptySet DEF Keyed
    <3>2. Cardinality(Keyed(S, key, B)) = 0 /\ Cardinality(B) = 0
      BY <3>1, <2>1
    <3>3. n * Cardinality(B) = 0
      BY <3>2
    <3> QED BY <3>2, <3>3, <1>3
  <2> QED BY <2>1
<1> DEFINE V == B \ {a}
<1>5. V \notin C /\ V \subseteq A
  BY <1>2, <1>3, <1>4
<1>6. Cardinality(Keyed(S, key, V)) <= n * Cardinality(V)
  BY <1>5
<1>7. /\ Cardinality(Keyed(S, key, B)) = Cardinality(Keyed(S, key, V)) + Cardinality(Keyed(S, key, {a}))
      /\ Cardinality(B) = Cardinality(V) + 1
      /\ Cardinality(Keyed(S, key, V)) \in Nat /\ Cardinality(Keyed(S, key, {a})) \in Nat
      /\ Cardinality(V) \in Nat
  BY <1>3, <1>4, KeyedOne
<1>8. Cardinality(Keyed(S, key, {a})) <= n
  BY <1>3, <1>4
<1>9. \A v \in Nat : n * (v + 1) = n * v + n /\ n * v \in Nat
  OBVIOUS
<1> HIDE DEF C, V
<1> QED BY <1>3, <1>6, <1>7, <1>8, <1>9
LEMMA KeyedAtLeast ==
    ASSUME NEW S, IsFiniteSet(S), NEW key, NEW A, IsFiniteSet(A), NEW n \in Nat,
           \A a \in A : n <= Cardinality(Keyed(S, key, {a}))
    PROVE  n * Cardinality(A) <= Cardinality(Keyed(S, key, A))
<1> DEFINE C == {B \in SUBSET A : ~(n * Cardinality(B) <= Cardinality(Keyed(S, key, B)))}
<1>1. SUFFICES ASSUME C # {} PROVE FALSE
  <2> QED OBVIOUS
<1>2. PICK B \in C : \A V \in C : V \subseteq B => V = B
  <2>1. C \subseteq SUBSET A
    OBVIOUS
  <2> HIDE DEF C
  <2> QED BY <2>1, <1>1, SmallestSet
<1>3. B \subseteq A /\ IsFiniteSet(B) /\ ~(n * Cardinality(B) <= Cardinality(Keyed(S, key, B)))
  BY FS_Subset
<1>4. PICK a \in B : TRUE
  <2>1. ASSUME B = {} PROVE FALSE
    <3>1. Keyed(S, key, {}) = {} /\ Cardinality({}) = 0
      BY FS_EmptySet DEF Keyed
    <3>2. Cardinality(Keyed(S, key, B)) = 0 /\ Cardinality(B) = 0
      BY <3>1, <2>1
    <3>3. n * Cardinality(B) = 0
      BY <3>2
    <3> QED BY <3>2, <3>3, <1>3
  <2> QED BY <2>1
<1> DEFINE V == B \ {a}
<1>5. V \notin C /\ V \subseteq A
  BY <1>2, <1>3, <1>4
<1>6. n * Cardinality(V) <= Cardinality(Keyed(S, key, V))
  BY <1>5
<1>7. /\ Cardinality(Keyed(S, key, B)) = Cardinality(Keyed(S, key, V)) + Cardinality(Keyed(S, key, {a}))
      /\ Cardinality(B) = Cardinality(V) + 1
      /\ Cardinality(Keyed(S, key, V)) \in Nat /\ Cardinality(Keyed(S, key, {a})) \in Nat
      /\ Cardinality(V) \in Nat
  BY <1>3, <1>4, KeyedOne
<1>8. n <= Cardinality(Keyed(S, key, {a}))
  BY <1>3, <1>4
<1>9. \A v \in Nat : n * (v + 1) = n * v + n /\ n * v \in Nat
  OBVIOUS
<1> HIDE DEF C, V
<1> QED BY <1>3, <1>6, <1>7, <1>8, <1>9

(* The augmenting paths, by their length.                                    *)
Onward(pool, c, paths) == UNION {Further(pool, c, p) : p \in {p \in paths : ~Room(c, p.last)}}
Pushing(d, pool, c, wanted, n) ==
    d = [k \in 0..n |-> IF k = 0 THEN Begun(pool, c, wanted) ELSE Onward(pool, c, d[k - 1])]

(* Augmented takes those that end in a base with room.                       *)
Paths(pool, c, wanted) == CHOOSE d : Pushing(d, pool, c, wanted, Cardinality(Models))
LEMMA AugmentedIs ==
    ASSUME NEW pool, NEW c, NEW wanted
    PROVE  LET d == Paths(pool, c, wanted)
           IN  Augmented(pool, c, wanted) =
                 {p.chosen : p \in {p \in UNION {d[k] : k \in DOMAIN d} : Room(c, p.last)}}
  BY DEF Augmented, Pushing, Onward, Paths

(* The paths of a length from those shorter by one.                          *)
LEMMA PushingAt ==
    ASSUME NEW pool, NEW c, NEW wanted, NEW n \in Nat, NEW d, Pushing(d, pool, c, wanted, n), NEW k \in 0..n
    PROVE  /\ k = 0 => d[k] = Begun(pool, c, wanted)
           /\ k # 0 => d[k] = Onward(pool, c, d[k - 1])
<1>1. d[k] = IF k = 0 THEN Begun(pool, c, wanted) ELSE Onward(pool, c, d[k - 1])
  BY Zenon DEF Pushing
<1> QED BY <1>1

(* There are such sets of paths up to every length, as for Draw.             *)
LEMMA PushingExists ==
    ASSUME NEW pool, NEW c, NEW wanted, NEW n \in Nat
    PROVE  \E d : Pushing(d, pool, c, wanted, n)
<1> DEFINE T == {k \in 0..n : ~\E d : Pushing(d, pool, c, wanted, k)}
<1>1. SUFFICES ASSUME T # {} PROVE FALSE
  OBVIOUS
<1>2. PICK k \in T : \A j \in T : k <= j
  <2>1. T \subseteq 0..n
    OBVIOUS
  <2> HIDE DEF T
  <2> QED BY <2>1, <1>1, LeastNumber
<1>3. k \in 0..n /\ ~\E d : Pushing(d, pool, c, wanted, k)
  BY <1>2
<1>4. k # 0
  <2> DEFINE d == [j \in 0..0 |-> Begun(pool, c, wanted)]
  <2>1. Pushing(d, pool, c, wanted, 0)
    BY DEF Pushing
  <2> QED BY <2>1, <1>3
<1> DEFINE m == k - 1
<1>5. PICK d : Pushing(d, pool, c, wanted, m)
  <2>1. k - 1 \in 0..n /\ k - 1 \notin T
    BY <1>2, <1>3, <1>4
  <2> QED BY <2>1
<1>6. m \in Nat /\ k = m + 1
  BY <1>3, <1>4
<1> HIDE DEF m
<1> DEFINE e == [j \in 0..k |-> IF j = k THEN Onward(pool, c, d[m]) ELSE d[j]]
           f == [j \in 0..k |-> IF j = 0 THEN Begun(pool, c, wanted) ELSE Onward(pool, c, e[j - 1])]
<1>7. ASSUME NEW j \in 0..k PROVE e[j] = f[j]
  <2>1. CASE j = k
    <3>1. e[m] = d[m] /\ e[k] = Onward(pool, c, d[m]) /\ k - 1 = m
      BY <1>6
    <3>2. f[k] = Onward(pool, c, e[k - 1])
      BY <1>6
    <3> HIDE DEF e, f
    <3> QED BY <3>1, <3>2, <2>1
  <2>2. CASE j # k
    <3>1. j \in 0..m /\ e[j] = d[j] /\ (j # 0 => j - 1 \in 0..m /\ e[j - 1] = d[j - 1])
      BY <1>6, <2>2
    <3>2. d[j] = IF j = 0 THEN Begun(pool, c, wanted) ELSE Onward(pool, c, d[j - 1])
      BY <3>1, <1>5, Zenon DEF Pushing
    <3>3. f[j] = IF j = 0 THEN Begun(pool, c, wanted) ELSE Onward(pool, c, e[j - 1])
      OBVIOUS
    <3> HIDE DEF e, f
    <3> QED BY <3>1, <3>2, <3>3
  <2> QED BY <2>1, <2>2
<1>8. e = [j \in 0..k |-> e[j]] /\ f = [j \in 0..k |-> f[j]]
  OBVIOUS
<1>9. e = f
  <2> HIDE DEF e, f
  <2> QED BY <1>7, <1>8
<1>10. Pushing(e, pool, c, wanted, k)
  <2> HIDE DEF e
  <2> QED BY <1>9 DEF Pushing
<1> QED BY <1>3, <1>10

(* Augmented is what the paths up to the number of models lead to.           *)
LEMMA PathsAre ==
    ASSUME NEW pool, NEW c, NEW wanted
    PROVE  \E n, d :
              /\ n = Cardinality(Models) /\ n \in Nat /\ Pushing(d, pool, c, wanted, n)
              /\ \A e : e \in Augmented(pool, c, wanted) <=>
                           \E k \in 0..n : \E p \in d[k] : Room(c, p.last) /\ e = p.chosen
<1> DEFINE n == Cardinality(Models)
           d == Paths(pool, c, wanted)
<1>1. n \in Nat
  BY CorpusAssumption, FS_CardinalityType
<1>2. Pushing(d, pool, c, wanted, n)
  <2>1. \E f : Pushing(f, pool, c, wanted, n)
    <3> HIDE DEF n
    <3> QED BY <1>1, PushingExists
  <2> QED BY <2>1 DEF Paths
<1>3. DOMAIN d = 0..n
  <2> HIDE DEF d
  <2> QED BY <1>2 DEF Pushing
<1>4. Augmented(pool, c, wanted) = {p.chosen : p \in {p \in UNION {d[k] : k \in DOMAIN d} : Room(c, p.last)}}
  BY AugmentedIs
<1> HIDE DEF d, n
<1>5. \A e : e \in Augmented(pool, c, wanted) <=>
                \E k \in 0..n : \E p \in d[k] : Room(c, p.last) /\ e = p.chosen
  BY <1>3, <1>4
<1> QED BY <1>1, <1>2, <1>5 DEF n

(* A choice of some models' candidates, no model with more than it wants.    *)
Within(pool, c, wanted, K) ==
    /\ IsFiniteSet(pool) /\ c \subseteq pool /\ IsFiniteSet(K)
    /\ \A x \in pool : x[2].gen \in K
    /\ \A m \in K : OfModel(c, m) <= wanted
(* A path passes one model more than it swaps candidates, leads to a choice  *)
(* larger by one, and every candidate to be had of a model it passed is the  *)
(* last one of a path no longer than it.                                     *)
PathOK(p, k, d, pool, c, wanted, K) ==
    /\ p = [chosen |-> p.chosen, last |-> p.last, past |-> p.past]
    /\ p.last \in pool \ c /\ p.last \in p.chosen
    /\ p.past \subseteq K /\ Cardinality(p.past) = k + 1
    /\ \A t \in pool \ c : t[2].gen \in p.past => \E j \in 0..k : \E q \in d[j] : q.last = t
    /\ \A x \in pool : x[2].gen \notin p.past => (x \in p.chosen <=> x \in c)
    /\ Within(pool, p.chosen, wanted, K) /\ Cardinality(p.chosen) = Cardinality(c) + 1

(* The number of a model's candidates does not change with another model's.  *)
LEMMA OfModelSame ==
    ASSUME NEW c, NEW e, NEW m, \A x : x[2].gen = m => (x \in c <=> x \in e)
    PROVE  OfModel(c, m) = OfModel(e, m)
<1>1. {x \in c : x[2].gen = m} = {x \in e : x[2].gen = m}
  OBVIOUS
<1> QED BY <1>1 DEF OfModel

(* A path begins with a candidate of a model that wants more.                *)
LEMMA BegunOK ==
    ASSUME NEW pool, NEW c, NEW wanted \in Nat, NEW K, Within(pool, c, wanted, K), NEW n \in Nat,
           NEW d, Pushing(d, pool, c, wanted, n), NEW p \in d[0]
    PROVE  PathOK(p, 0, d, pool, c, wanted, K)
<1>1. d[0] = Begun(pool, c, wanted)
  BY PushingAt
<1>2. PICK x \in pool \ c : Wants(c, x, wanted) /\ p = Path(c \cup {x}, x, {})
  BY <1>1 DEF Begun
<1> DEFINE m == x[2].gen
<1>3. p.chosen = c \cup {x} /\ p.last = x /\ p.past = {m}
  BY <1>2 DEF Path
<1>4. m \in K /\ IsFiniteSet(c) /\ c \subseteq pool
  BY FS_Subset DEF Within
<1>5. Cardinality(p.past) = 0 + 1
  <2>1. Cardinality({m}) = 1
    BY FS_Singleton
  <2> HIDE DEF m
  <2> QED BY <2>1, <1>3
<1>6. IsFiniteSet(c \cup {x}) /\ Cardinality(c \cup {x}) = Cardinality(c) + 1
  BY <1>4, FS_AddElement
<1>7. ASSUME NEW t \in pool \ c, t[2].gen \in p.past PROVE \E j \in 0..0 : \E q \in d[j] : q.last = t
  <2>1. Wants(c, t, wanted)
    BY <1>2, <1>3, <1>7 DEF Wants
  <2>2. Path(c \cup {t}, t, {}) \in d[0] /\ Path(c \cup {t}, t, {}).last = t
    BY <2>1, <1>1 DEF Begun, Path
  <2> QED BY <2>2
<1>8. ASSUME NEW l \in K PROVE OfModel(c \cup {x}, l) <= wanted
  <2>1. CASE l = m
    <3> DEFINE of == {y \in c : y[2].gen = m}
    <3>1. IsFiniteSet(of) /\ Cardinality(of) < wanted /\ x \notin of
      BY <1>2, <1>4, FS_Subset DEF Wants, OfModel
    <3>2. {y \in c \cup {x} : y[2].gen = m} = of \cup {x}
      OBVIOUS
    <3> HIDE DEF of
    <3>3. Cardinality(of \cup {x}) = Cardinality(of) + 1 /\ Cardinality(of) \in Nat
      BY <3>1, FS_AddElement, FS_CardinalityType
    <3>4. OfModel(c \cup {x}, l) = Cardinality(of \cup {x})
      BY <3>2, <2>1 DEF OfModel
    <3> QED BY <3>1, <3>3, <3>4
  <2>2. CASE l # m
    <3>1. OfModel(c \cup {x}, l) = OfModel(c, l)
      BY <2>2, OfModelSame
    <3> QED BY <3>1 DEF Within
  <2> QED BY <2>1, <2>2
<1>9. p = [chosen |-> p.chosen, last |-> p.last, past |-> p.past]
  BY <1>2 DEF Path
<1>10. \A y \in pool : y[2].gen \notin p.past => (y \in p.chosen <=> y \in c)
  BY <1>3
<1>11. Within(pool, p.chosen, wanted, K)
  BY <1>3, <1>4, <1>8 DEF Within
<1> QED BY <1>3, <1>4, <1>5, <1>6, <1>7, <1>9, <1>10, <1>11 DEF PathOK

(* And goes on by a swap.                                                    *)
LEMMA FurtherOK ==
    ASSUME NEW pool, NEW c, NEW wanted \in Nat, NEW K, Within(pool, c, wanted, K), NEW n \in Nat,
           NEW d, Pushing(d, pool, c, wanted, n), NEW k \in 1..n,
           NEW before \in d[k - 1], PathOK(before, k - 1, d, pool, c, wanted, K), ~Room(c, before.last),
           NEW p \in Further(pool, c, before)
    PROVE  p \in d[k] /\ PathOK(p, k, d, pool, c, wanted, K)
<1>1. d[k] = Onward(pool, c, d[k - 1])
  <2>1. k \in 0..n /\ k # 0
    OBVIOUS
  <2>2. d[k] = IF k = 0 THEN Begun(pool, c, wanted) ELSE Onward(pool, c, d[k - 1])
    BY <2>1, Zenon DEF Pushing
  <2> QED BY <2>1, <2>2
<1>2. \A q \in Further(pool, c, before) : q \in d[k]
  BY <1>1 DEF Onward
<1>3. PICK s \in Swaps(pool, c, before) :
         p = Path((before.chosen \ {s[1]}) \cup {s[2]}, s[2], before.past)
  BY DEF Further
<1> DEFINE g == s[1]
           t == s[2]
           m == t[2].gen
<1>4. /\ g \in c /\ t \in pool \ c /\ g[1] = before.last[1] /\ g[2].gen = m /\ m \notin before.past
      /\ c \subseteq pool
  BY DEF Swaps, Within
<1>5. p.chosen = (before.chosen \ {g}) \cup {t} /\ p.last = t /\ p.past = before.past \cup {m}
  BY <1>3 DEF Path
<1> HIDE DEF g, t
<1>6. /\ before.past \subseteq K /\ Cardinality(before.past) = (k - 1) + 1
      /\ \A x \in pool : x[2].gen \notin before.past => (x \in before.chosen <=> x \in c)
      /\ Within(pool, before.chosen, wanted, K) /\ Cardinality(before.chosen) = Cardinality(c) + 1
  BY DEF PathOK
<1>7. before.chosen \subseteq pool /\ IsFiniteSet(before.chosen) /\ IsFiniteSet(before.past) /\ m \in K
  BY <1>4, <1>6, FS_Subset DEF Within
<1>8. g \in before.chosen /\ t \notin before.chosen
  BY <1>4, <1>6
<1>9. IsFiniteSet(p.chosen) /\ Cardinality(p.chosen) = Cardinality(before.chosen)
  <2> DEFINE less == before.chosen \ {g}
  <2>1. IsFiniteSet(less) /\ Cardinality(less) = Cardinality(before.chosen) - 1 /\ t \notin less
    BY <1>7, <1>8, FS_RemoveElement
  <2> HIDE DEF less
  <2>2. Cardinality(less \cup {t}) = Cardinality(less) + 1 /\ IsFiniteSet(less \cup {t})
    BY <2>1, FS_AddElement
  <2>3. Cardinality(before.chosen) \in Nat
    BY <1>7, FS_CardinalityType
  <2> QED BY <2>1, <2>2, <2>3, <1>5 DEF less
<1>10. p.past \subseteq K /\ Cardinality(p.past) = k + 1
  <2>1. Cardinality(before.past \cup {m}) = Cardinality(before.past) + 1
    BY <1>4, <1>7, FS_AddElement
  <2> HIDE DEF m
  <2> QED BY <2>1, <1>5, <1>6, <1>7
<1>11. ASSUME NEW u \in pool \ c, u[2].gen \in p.past PROVE \E j \in 0..k : \E q \in d[j] : q.last = u
  <2>1. CASE u[2].gen \in before.past
    <3>1. PICK j \in 0..(k - 1) : \E q \in d[j] : q.last = u
      BY <2>1 DEF PathOK
    <3>2. j \in 0..k
      OBVIOUS
    <3> QED BY <3>1, <3>2
  <2>2. CASE u[2].gen = m
    <3>1. <<g, u>> \in Swaps(pool, c, before)
      BY <2>2, <1>4 DEF Swaps
    <3> DEFINE q == Path((before.chosen \ {g}) \cup {u}, u, before.past)
    <3>2. q \in Further(pool, c, before)
      <4>1. <<g, u>>[1] = g /\ <<g, u>>[2] = u
        OBVIOUS
      <4> QED BY <3>1, <4>1, Zenon DEF Further
    <3>3. q \in d[k] /\ q.last = u /\ k \in 0..k
      BY <3>2, <1>2 DEF Path
    <3> QED BY <3>3
  <2> QED BY <2>1, <2>2, <1>5, <1>11
<1>12. \A x \in pool : x[2].gen \notin p.past => (x \in p.chosen <=> x \in c)
  BY <1>4, <1>5, <1>6
<1>13. ASSUME NEW l \in K PROVE OfModel(p.chosen, l) <= wanted
  <2>1. OfModel(before.chosen, l) <= wanted
    BY <1>6 DEF Within
  <2>2. CASE l # m
    <3>1. OfModel(p.chosen, l) = OfModel(before.chosen, l)
      BY <2>2, <1>4, <1>5, OfModelSame
    <3> QED BY <3>1, <2>1
  <2>3. CASE l = m
    <3> DEFINE of == {y \in before.chosen : y[2].gen = m}
    <3>1. IsFiniteSet(of) /\ g \in of /\ t \notin of
      BY <1>4, <1>7, <1>8, FS_Subset
    <3>2. {y \in p.chosen : y[2].gen = m} = (of \ {g}) \cup {t}
      BY <1>5
    <3>3. OfModel(before.chosen, l) = Cardinality(of) /\ OfModel(p.chosen, l) = Cardinality((of \ {g}) \cup {t})
      BY <3>2, <2>3 DEF OfModel
    <3> HIDE DEF of
    <3>4. IsFiniteSet(of \ {g}) /\ Cardinality(of \ {g}) = Cardinality(of) - 1 /\ t \notin of \ {g}
      BY <3>1, FS_RemoveElement
    <3>5. Cardinality((of \ {g}) \cup {t}) = Cardinality(of \ {g}) + 1
      BY <3>4, FS_AddElement
    <3>6. Cardinality(of) \in Nat
      BY <3>1, FS_CardinalityType
    <3> QED BY <3>3, <3>4, <3>5, <3>6, <2>1
  <2> QED BY <2>2, <2>3
<1>14. Within(pool, p.chosen, wanted, K)
  BY <1>4, <1>5, <1>7, <1>9, <1>13 DEF Within
<1>15. p = [chosen |-> p.chosen, last |-> p.last, past |-> p.past]
  BY <1>3 DEF Path
<1> QED BY <1>2, <1>4, <1>5, <1>6, <1>9, <1>10, <1>11, <1>12, <1>14, <1>15 DEF PathOK

(* So every augmenting path is as said.                                      *)
LEMMA PathsOK ==
    ASSUME NEW pool, NEW c, NEW wanted \in Nat, NEW K, Within(pool, c, wanted, K), NEW n \in Nat,
           NEW d, Pushing(d, pool, c, wanted, n)
    PROVE  \A k \in 0..n : \A p \in d[k] : PathOK(p, k, d, pool, c, wanted, K)
<1> DEFINE T == {k \in 0..n : ~\A p \in d[k] : PathOK(p, k, d, pool, c, wanted, K)}
<1>1. SUFFICES ASSUME T # {} PROVE FALSE
  OBVIOUS
<1>2. PICK k \in T : \A j \in T : k <= j
  <2>1. T \subseteq 0..n
    OBVIOUS
  <2> HIDE DEF T
  <2> QED BY <2>1, <1>1, LeastNumber
<1>3. k \in 0..n /\ ~\A p \in d[k] : PathOK(p, k, d, pool, c, wanted, K)
  BY <1>2
<1>4. k # 0
  BY <1>3, BegunOK
<1>5. k \in 1..n /\ k - 1 \in 0..n /\ k - 1 \notin T
  BY <1>2, <1>3, <1>4
<1>6. \A p \in d[k - 1] : PathOK(p, k - 1, d, pool, c, wanted, K)
  BY <1>5
<1>7. d[k] = Onward(pool, c, d[k - 1])
  <2>1. d[k] = IF k = 0 THEN Begun(pool, c, wanted) ELSE Onward(pool, c, d[k - 1])
    BY <1>3, Zenon DEF Pushing
  <2> QED BY <1>4, <2>1
<1>8. ASSUME NEW p \in d[k] PROVE PathOK(p, k, d, pool, c, wanted, K)
  <2>1. PICK before \in d[k - 1] : ~Room(c, before.last) /\ p \in Further(pool, c, before)
    BY <1>7 DEF Onward
  <2> HIDE DEF T
  <2> QED BY <2>1, <1>5, <1>6, FurtherOK
<1> QED BY <1>3, <1>8

(* Augmenting makes the choice larger by one and gives no model too many.    *)
LEMMA AugmentedGrows ==
    ASSUME NEW pool, NEW c, NEW wanted \in Nat, NEW K, Within(pool, c, wanted, K),
           NEW e \in Augmented(pool, c, wanted)
    PROVE  Within(pool, e, wanted, K) /\ Cardinality(e) = Cardinality(c) + 1
<1>1. PICK n, d : /\ n \in Nat /\ Pushing(d, pool, c, wanted, n)
                  /\ \E k \in 0..n : \E p \in d[k] : e = p.chosen
  BY PathsAre
<1>2. PICK k \in 0..n : \E p \in d[k] : e = p.chosen
  BY <1>1
<1>3. PICK p \in d[k] : e = p.chosen
  BY <1>2
<1>4. PathOK(p, k, d, pool, c, wanted, K)
  BY <1>1, PathsOK
<1> QED BY <1>3, <1>4 DEF PathOK

(* When no path leads on: the models that want more, and those whose chosen  *)
(* candidates could be given back.                                           *)
ByModel(pool) == [x \in pool |-> x[2].gen]
ByBase(pool) == [x \in pool |-> x[1]]

(* OfModel and OfBase count by these keys.                                   *)
LEMMA CountsByKey ==
    ASSUME NEW pool, NEW c \in SUBSET pool, NEW k
    PROVE  /\ Cardinality(Keyed(c, ByModel(pool), {k})) = OfModel(c, k)
           /\ Cardinality(Keyed(c, ByBase(pool), {k})) = OfBase(c, k)
<1>1. Keyed(c, ByModel(pool), {k}) = {x \in c : x[2].gen = k}
  BY DEF Keyed, ByModel
<1>2. Keyed(c, ByBase(pool), {k}) = {x \in c : x[1] = k}
  BY DEF Keyed, ByBase
<1> QED BY <1>1, <1>2 DEF OfModel, OfBase

(* There are models A, one of which wants more, and bases B without room,    *)
(* such that what is not chosen of A is of a base in B and what is chosen of *)
(* a base in B is of A: a cut that nothing can flow across any more.         *)
Cut(pool, c, wanted, K, A, B) ==
    /\ A \subseteq K /\ {m \in K : OfModel(c, m) < wanted} \subseteq A
    /\ \A h \in B : ~(OfBase(c, h) < MaxBaseUses)
    /\ \A t \in pool \ c : t[2].gen \in A => t[1] \in B
    /\ \A g \in c : g[1] \in B => g[2].gen \in A
    /\ B \subseteq {t[1] : t \in pool}
LEMMA NoPathMeansCut ==
    ASSUME NEW pool, NEW c, NEW wanted \in Nat, NEW K \in SUBSET Models, Within(pool, c, wanted, K),
           Augmented(pool, c, wanted) = {}
    PROVE  \E A, B : Cut(pool, c, wanted, K, A, B)
<1>1. PICK n, d : /\ n = Cardinality(Models) /\ n \in Nat /\ Pushing(d, pool, c, wanted, n)
                  /\ \A e : ~\E k \in 0..n : \E p \in d[k] : Room(c, p.last) /\ e = p.chosen
  BY PathsAre
<1>3. IsFiniteSet(Models)
  BY CorpusAssumption
<1>5. \A k \in 0..n : \A p \in d[k] : ~Room(c, p.last)
  BY <1>1
<1>6. \A k \in 0..n : \A p \in d[k] : PathOK(p, k, d, pool, c, wanted, K)
  BY <1>1, <1>3, PathsOK
<1> DEFINE At(x) == \E k \in 0..n : \E p \in d[k] : x[1] = p.last[1]
           Ends(t) == \E k \in 0..n : \E p \in d[k] : p.last = t
           A == {m \in K : OfModel(c, m) < wanted} \cup {g[2].gen : g \in {g \in c : At(g)}}
           B == {t[1] : t \in {t \in pool \ c : t[2].gen \in A}}
<1>7. c \subseteq pool /\ \A x \in pool : x[2].gen \in K
  BY DEF Within
<1>8. ASSUME NEW t \in pool \ c, t[2].gen \in A PROVE Ends(t)
  <2>1. CASE OfModel(c, t[2].gen) < wanted
    <3>1. d[0] = Begun(pool, c, wanted) /\ 0 \in 0..n
      BY <1>1, <1>3, PushingAt
    <3>2. Path(c \cup {t}, t, {}) \in d[0] /\ Path(c \cup {t}, t, {}).last = t
      BY <3>1, <2>1 DEF Begun, Wants, Path
    <3> QED BY <3>1, <3>2
  <2>2. CASE \E g \in c : At(g) /\ g[2].gen = t[2].gen
    <3>0. PICK g \in c, k \in 0..n : g[2].gen = t[2].gen /\ \E p \in d[k] : g[1] = p.last[1]
      BY <2>2
    <3>1. PICK p \in d[k] : g[1] = p.last[1] /\ g[2].gen = t[2].gen
      BY <3>0
    <3>2. PathOK(p, k, d, pool, c, wanted, K)
      BY <1>6
    <3>3. CASE t[2].gen \in p.past
      <4>1. PICK j \in 0..k : \E q \in d[j] : q.last = t
        BY <3>2, <3>3 DEF PathOK
      <4>2. j \in 0..n
        BY <1>1
      <4> QED BY <4>1, <4>2
    <3>4. CASE t[2].gen \notin p.past
      <4> DEFINE m == t[2].gen
                 q == Path((p.chosen \ {g}) \cup {t}, t, p.past)
      <4>1. <<g, t>> \in Swaps(pool, c, p)
        BY <3>1, <3>4 DEF Swaps
      <4>2. q \in Further(pool, c, p) /\ q.last = t
        <5>1. <<g, t>>[1] = g /\ <<g, t>>[2] = t
          OBVIOUS
        <5>2. q \in Further(pool, c, p)
          BY <4>1, <5>1, Zenon DEF Further
        <5> QED BY <5>2 DEF Path
      <4>3. k + 1 \in 1..n
        <5>1. p.past \cup {m} \subseteq Models /\ p.past \subseteq K /\ Cardinality(p.past) = k + 1
          BY <3>2, <1>7 DEF PathOK
        <5>2. IsFiniteSet(p.past) /\ m \notin p.past
          BY <5>1, <3>4, FS_Subset DEF Within
        <5> HIDE DEF m
        <5>3. Cardinality(p.past \cup {m}) = (k + 1) + 1
          BY <5>1, <5>2, FS_AddElement
        <5>4. Cardinality(p.past \cup {m}) <= n
          BY <5>1, <1>1, <1>3, FS_Subset
        <5> QED BY <5>3, <5>4, <1>1
      <4>4. (k + 1) - 1 = k
        OBVIOUS
      <4> HIDE DEF q
      <4>5. q \in d[k + 1]
        <5> DEFINE l == k + 1
        <5>1. l \in 1..n /\ l - 1 = k
          BY <4>3, <4>4
        <5> HIDE DEF l
        <5>2. p \in d[l - 1] /\ PathOK(p, l - 1, d, pool, c, wanted, K) /\ ~Room(c, p.last)
          BY <5>1, <3>2, <1>5
        <5>3. q \in d[l]
          BY <5>1, <5>2, <4>2, <1>1, <1>3, FurtherOK
        <5> QED BY <5>3 DEF l
      <4>6. k + 1 \in 0..n
        BY <4>3
      <4> QED BY <4>2, <4>5, <4>6
    <3> QED BY <3>3, <3>4
  <2> QED BY <2>1, <2>2, <1>8
<1> HIDE DEF At
<1>9. \A h \in B : ~(OfBase(c, h) < MaxBaseUses)
  <2> SUFFICES ASSUME NEW t \in pool \ c, t[2].gen \in A PROVE ~(OfBase(c, t[1]) < MaxBaseUses)
    OBVIOUS
  <2> QED BY <1>5, <1>8 DEF Room
<1>10. ASSUME NEW g \in c, g[1] \in B PROVE g[2].gen \in A
  <2>1. PICK t \in pool \ c : t[2].gen \in A /\ g[1] = t[1]
    BY <1>10
  <2>2. At(g)
    BY <2>1, <1>8 DEF At
  <2> QED BY <2>2
<1>11. A \subseteq K
  BY <1>7
<1>12. \A t \in pool \ c : t[2].gen \in A => t[1] \in B
  OBVIOUS
<1>13. B \subseteq {t[1] : t \in pool}
  OBVIOUS
<1>14. Cut(pool, c, wanted, K, A, B)
  <2>1. {m \in K : OfModel(c, m) < wanted} \subseteq A
    OBVIOUS
  <2> HIDE DEF A, B
  <2> QED BY <2>1, <1>9, <1>10, <1>11, <1>12, <1>13 DEF Cut
<1> QED BY <1>14

(* Across a cut no choice at all gives every model its number within the     *)
(* uses of the bases: the models of A alone would need more of its bases.    *)
LEMMA CutMeansNone ==
    ASSUME NEW pool, NEW c, NEW wanted \in Nat, NEW K, Within(pool, c, wanted, K),
           NEW A, NEW B, Cut(pool, c, wanted, K, A, B), NEW m0 \in K, OfModel(c, m0) < wanted,
           NEW best \in SUBSET pool, \A m \in K : OfModel(best, m) = wanted,
           \A x \in best : OfBase(best, x[1]) <= MaxBaseUses
    PROVE  FALSE
<1> DEFINE model == ByModel(pool)
           base == ByBase(pool)
           rest == {x \in c : x[2].gen \in A /\ x[1] \notin B}
<1>1. /\ IsFiniteSet(c) /\ c \subseteq pool /\ IsFiniteSet(best) /\ IsFiniteSet(A) /\ A \subseteq K
      /\ IsFiniteSet(B) /\ m0 \in A /\ IsFiniteSet(rest)
  <2>1. IsFiniteSet(pool) /\ c \subseteq pool /\ IsFiniteSet(K) /\ A \subseteq K /\ m0 \in A
    BY DEF Within, Cut
  <2>2. IsFiniteSet({base[t] : t \in pool})
    <3> HIDE DEF base
    <3> QED BY <2>1, ImageFinite
  <2>3. B \subseteq {base[t] : t \in pool}
    BY DEF Cut, ByBase
  <2> HIDE DEF base
  <2> QED BY <2>1, <2>2, <2>3, FS_Subset
<1>2. \A x \in pool : model[x] = x[2].gen /\ base[x] = x[1]
  BY DEF ByModel, ByBase
<1>3. \A e \in SUBSET pool : \A k : /\ Cardinality(Keyed(e, model, {k})) = OfModel(e, k)
                                  /\ Cardinality(Keyed(e, base, {k})) = OfBase(e, k)
  BY CountsByKey
<1> HIDE DEF model, base
<1>4. MaxBaseUses \in Nat
  BY CorpusAssumption
<1>5. wanted * Cardinality(A) <= Cardinality(Keyed(best, model, A))
  <2>1. ASSUME NEW m \in A PROVE wanted <= Cardinality(Keyed(best, model, {m}))
    <3>1. Cardinality(Keyed(best, model, {m})) = OfModel(best, m) /\ OfModel(best, m) = wanted
      BY <1>1, <1>3
    <3> QED BY <3>1
  <2> QED BY <2>1, <1>1, KeyedAtLeast
<1>6. Cardinality(Keyed(best, base, B)) <= MaxBaseUses * Cardinality(B)
  <2>1. ASSUME NEW h \in B PROVE Cardinality(Keyed(best, base, {h})) <= MaxBaseUses
    <3>1. CASE \E x \in best : x[1] = h
      BY <3>1, <1>3
    <3>2. CASE ~\E x \in best : x[1] = h
      <4>1. Keyed(best, base, {h}) = {} /\ Cardinality({}) = 0
        BY <3>2, <1>2, FS_EmptySet DEF Keyed
      <4> QED BY <4>1, <1>4
    <3> QED BY <3>1, <3>2
  <2> QED BY <2>1, <1>1, <1>4, KeyedAtMost
<1>7. MaxBaseUses * Cardinality(B) <= Cardinality(Keyed(c, base, B))
  <2>1. ASSUME NEW h \in B PROVE MaxBaseUses <= Cardinality(Keyed(c, base, {h}))
    <3>1. Cardinality(Keyed(c, base, {h})) = OfBase(c, h) /\ ~(OfBase(c, h) < MaxBaseUses)
      BY <1>1, <1>3 DEF Cut
    <3>2. OfBase(c, h) \in Nat
      BY <1>1, FS_Subset, FS_CardinalityType DEF OfBase
    <3> QED BY <3>1, <3>2, <1>4
  <2> QED BY <2>1, <1>1, <1>4, KeyedAtLeast
<1>8. /\ IsFiniteSet(Keyed(best, model, A)) /\ IsFiniteSet(Keyed(best, base, B))
      /\ IsFiniteSet(Keyed(c, base, B)) /\ IsFiniteSet(Keyed(c, model, A))
  BY <1>1, FS_Subset DEF Keyed
<1>9. Cardinality(Keyed(best, model, A)) <= Cardinality(Keyed(best, base, B)) + Cardinality(rest)
  <2>1. Keyed(best, model, A) \subseteq Keyed(best, base, B) \cup rest
    BY <1>1, <1>2 DEF Keyed, Cut
  <2> DEFINE T == Keyed(best, base, B)
             R == rest
  <2>2. IsFiniteSet(T) /\ IsFiniteSet(R) /\ IsFiniteSet(T \cap R)
    BY <1>1, <1>8, FS_Subset
  <2>3. Keyed(best, model, A) \subseteq T \cup R
    BY <2>1
  <2> HIDE DEF T, R, rest
  <2>4. /\ Cardinality(T \cup R) = Cardinality(T) + Cardinality(R) - Cardinality(T \cap R)
        /\ IsFiniteSet(T \cup R)
    BY <2>2, FS_Union
  <2>5. Cardinality(T) \in Nat /\ Cardinality(R) \in Nat /\ Cardinality(T \cap R) \in Nat
    BY <2>2, FS_CardinalityType
  <2>6. Cardinality(Keyed(best, model, A)) <= Cardinality(T \cup R)
    BY <2>3, <2>4, FS_Subset
  <2>7. Cardinality(Keyed(best, model, A)) \in Nat /\ Cardinality(T \cup R) \in Nat
    BY <1>8, <2>4, FS_CardinalityType
  <2>8. Cardinality(Keyed(best, model, A)) <= Cardinality(T) + Cardinality(R)
    BY <2>4, <2>5, <2>6, <2>7
  <2> QED BY <2>8 DEF T, R
<1>10. Cardinality(Keyed(c, model, A)) = Cardinality(Keyed(c, base, B)) + Cardinality(rest)
  <2> DEFINE T == Keyed(c, base, B)
             R == rest
  <2>1. Keyed(c, model, A) = T \cup R /\ T \cap R = {}
    BY <1>1, <1>2 DEF Keyed, Cut
  <2>2. IsFiniteSet(T) /\ IsFiniteSet(R)
    BY <1>1, <1>8
  <2> HIDE DEF T, R, rest
  <2>3. Cardinality(T \cup R) = Cardinality(T) + Cardinality(R) - Cardinality(T \cap R)
    BY <2>2, FS_Union
  <2>4. Cardinality(T \cap R) = 0 /\ Cardinality(T) \in Nat /\ Cardinality(R) \in Nat
    BY <2>1, <2>2, FS_EmptySet, FS_CardinalityType
  <2>5. Cardinality(Keyed(c, model, A)) = Cardinality(T) + Cardinality(R)
    BY <2>1, <2>3, <2>4
  <2> QED BY <2>5 DEF T, R
<1>11. Cardinality(Keyed(c, model, A)) < wanted * Cardinality(A)
  <2> DEFINE V == A \ {m0}
  <2>1. /\ Cardinality(Keyed(c, model, A)) = Cardinality(Keyed(c, model, V)) + Cardinality(Keyed(c, model, {m0}))
        /\ Cardinality(A) = Cardinality(V) + 1 /\ Cardinality(V) \in Nat
        /\ Cardinality(Keyed(c, model, V)) \in Nat /\ Cardinality(Keyed(c, model, {m0})) \in Nat
    BY <1>1, KeyedOne
  <2>2. Cardinality(Keyed(c, model, {m0})) < wanted
    BY <1>1, <1>3
  <2>3. ASSUME NEW m \in V PROVE Cardinality(Keyed(c, model, {m})) <= wanted
    <3>1. m \in K /\ Cardinality(Keyed(c, model, {m})) = OfModel(c, m)
      BY <1>1, <1>3
    <3> QED BY <3>1 DEF Within
  <2>4. IsFiniteSet(V)
    BY <1>1, FS_Subset
  <2> HIDE DEF V
  <2>5. Cardinality(Keyed(c, model, V)) <= wanted * Cardinality(V)
    BY <2>3, <2>4, <1>1, KeyedAtMost
  <2>6. \A v \in Nat : wanted * (v + 1) = wanted * v + wanted /\ wanted * v \in Nat
    OBVIOUS
  <2> QED BY <2>1, <2>2, <2>5, <2>6
<1>12. /\ Cardinality(Keyed(best, model, A)) \in Nat /\ Cardinality(Keyed(best, base, B)) \in Nat
       /\ Cardinality(Keyed(c, base, B)) \in Nat /\ Cardinality(Keyed(c, model, A)) \in Nat
       /\ Cardinality(rest) \in Nat /\ wanted * Cardinality(A) \in Nat /\ MaxBaseUses * Cardinality(B) \in Nat
  <2>1. Cardinality(A) \in Nat /\ Cardinality(B) \in Nat
    BY <1>1, FS_CardinalityType
  <2>2. \A u, v \in Nat : u * v \in Nat
    OBVIOUS
  <2> HIDE DEF rest
  <2> QED BY <2>1, <2>2, <1>1, <1>4, <1>8, FS_CardinalityType
<1> HIDE DEF rest
<1> QED BY <1>5, <1>6, <1>7, <1>9, <1>10, <1>11, <1>12

(* Select goes from one choice to a larger one.                              *)
Improving(d, pool, wanted, n) ==
    d = [k \in 0..n |-> IF k = 0 THEN {} ELSE Improved(pool, d[k - 1], wanted)]

(* Select ends one such sequence of choices.                                 *)
LEMMA SelectIs ==
    ASSUME NEW pool, NEW wanted
    PROVE  Select(pool, wanted) =
             (CHOOSE d : Improving(d, pool, wanted, wanted * Cardinality(Models)))[wanted * Cardinality(Models)]
  BY DEF Select, Improving

(* The k-th choice from the one before it.                                   *)
LEMMA ImprovingAt ==
    ASSUME NEW pool, NEW wanted, NEW n \in Nat, NEW d, Improving(d, pool, wanted, n), NEW k \in 0..n
    PROVE  /\ k = 0 => d[k] = {}
           /\ k # 0 => d[k] = Improved(pool, d[k - 1], wanted)
<1>1. d[k] = IF k = 0 THEN {} ELSE Improved(pool, d[k - 1], wanted)
  BY Zenon DEF Improving
<1> QED BY <1>1

(* There is such a sequence of every length, as for Draw.                    *)
LEMMA ImprovingExists ==
    ASSUME NEW pool, NEW wanted, NEW n \in Nat
    PROVE  \E d : Improving(d, pool, wanted, n)
<1> DEFINE T == {k \in 0..n : ~\E d : Improving(d, pool, wanted, k)}
<1>1. SUFFICES ASSUME T # {} PROVE FALSE
  OBVIOUS
<1>2. PICK k \in T : \A j \in T : k <= j
  <2>1. T \subseteq 0..n
    OBVIOUS
  <2> HIDE DEF T
  <2> QED BY <2>1, <1>1, LeastNumber
<1>3. k \in 0..n /\ ~\E d : Improving(d, pool, wanted, k)
  BY <1>2
<1>4. k # 0
  <2> DEFINE d == [j \in 0..0 |-> {}]
  <2>1. Improving(d, pool, wanted, 0)
    BY DEF Improving
  <2> QED BY <2>1, <1>3
<1> DEFINE m == k - 1
<1>5. PICK d : Improving(d, pool, wanted, m)
  <2>1. k - 1 \in 0..n /\ k - 1 \notin T
    BY <1>2, <1>3, <1>4
  <2> QED BY <2>1
<1>6. m \in Nat /\ k = m + 1
  BY <1>3, <1>4
<1> HIDE DEF m
<1> DEFINE e == [j \in 0..k |-> IF j = k THEN Improved(pool, d[m], wanted) ELSE d[j]]
           f == [j \in 0..k |-> IF j = 0 THEN {} ELSE Improved(pool, e[j - 1], wanted)]
<1>7. ASSUME NEW j \in 0..k PROVE e[j] = f[j]
  <2>1. CASE j = k
    <3>1. e[m] = d[m] /\ e[k] = Improved(pool, d[m], wanted) /\ k - 1 = m
      BY <1>6
    <3>2. f[k] = Improved(pool, e[k - 1], wanted)
      BY <1>6
    <3> HIDE DEF e, f
    <3> QED BY <3>1, <3>2, <2>1
  <2>2. CASE j # k
    <3>1. j \in 0..m /\ e[j] = d[j] /\ (j # 0 => j - 1 \in 0..m /\ e[j - 1] = d[j - 1])
      BY <1>6, <2>2
    <3>2. d[j] = IF j = 0 THEN {} ELSE Improved(pool, d[j - 1], wanted)
      BY <3>1, <1>5, Zenon DEF Improving
    <3>3. f[j] = IF j = 0 THEN {} ELSE Improved(pool, e[j - 1], wanted)
      OBVIOUS
    <3> HIDE DEF e, f
    <3> QED BY <3>1, <3>2, <3>3
  <2> QED BY <2>1, <2>2
<1>8. e = [j \in 0..k |-> e[j]] /\ f = [j \in 0..k |-> f[j]]
  OBVIOUS
<1>9. e = f
  <2> HIDE DEF e, f
  <2> QED BY <1>7, <1>8
<1>10. Improving(e, pool, wanted, k)
  <2> HIDE DEF e
  <2> QED BY <1>9 DEF Improving
<1> QED BY <1>3, <1>10

(* What is selected are candidates, no more of a model than wanted, and no   *)
(* path leads on from them, unless every model has what it wants.            *)
LEMMA Selected ==
    ASSUME NEW pool, IsFiniteSet(pool), NEW wanted \in Nat, NEW K \in SUBSET Models,
           \A x \in pool : x[2].gen \in K
    PROVE  LET c == Select(pool, wanted)
           IN  /\ Within(pool, c, wanted, K)
               /\ Cardinality(c) = wanted * Cardinality(Models) \/ Augmented(pool, c, wanted) = {}
<1> DEFINE n == wanted * Cardinality(Models)
           d == CHOOSE d : Improving(d, pool, wanted, n)
           Good(k) == /\ Within(pool, d[k], wanted, K)
                      /\ Cardinality(d[k]) = k \/ Augmented(pool, d[k], wanted) = {}
           T == {k \in 0..n : ~Good(k)}
<1>0. n \in Nat
  <2>1. Cardinality(Models) \in Nat
    BY CorpusAssumption, FS_CardinalityType
  <2>2. \A x, y \in Nat : x * y \in Nat
    OBVIOUS
  <2> QED BY <2>1, <2>2
<1>1. Select(pool, wanted) = d[n]
  BY SelectIs
<1> HIDE DEF n
<1>2. Improving(d, pool, wanted, n)
  BY <1>0, ImprovingExists
<1> HIDE DEF d
<1>3. ASSUME T # {} PROVE FALSE
  <2>1. PICK k \in T : \A j \in T : k <= j
    <3>1. T \subseteq 0..n
      OBVIOUS
    <3> HIDE DEF T
    <3> QED BY <3>1, <1>3, <1>0, LeastNumber
  <2>2. k \in 0..n /\ ~Good(k)
    BY <2>1
  <2>3. k # 0
    <3>1. ASSUME k = 0 PROVE Good(k)
      <4>1. d[k] = {}
        BY <3>1, <2>2, <1>0, <1>2, ImprovingAt
      <4>2. \A m : OfModel({}, m) = 0
        <5>1. \A m : {x \in {} : x[2].gen = m} = {}
          OBVIOUS
        <5> QED BY <5>1, FS_EmptySet DEF OfModel
      <4>3. IsFiniteSet(K)
        BY CorpusAssumption, FS_Subset
      <4>4. Within(pool, {}, wanted, K)
        BY <4>2, <4>3 DEF Within
      <4> QED BY <4>1, <4>4, <3>1, FS_EmptySet
    <3> QED BY <3>1, <2>2
  <2>4. k - 1 \in 0..n /\ k - 1 \notin T
    BY <2>1, <2>2, <2>3, <1>0
  <2> DEFINE c == d[k - 1]
  <2>5. Within(pool, c, wanted, K) /\ (Cardinality(c) = k - 1 \/ Augmented(pool, c, wanted) = {})
    BY <2>4
  <2>6. d[k] = Improved(pool, c, wanted)
    <3>1. d[k] = IF k = 0 THEN {} ELSE Improved(pool, d[k - 1], wanted)
      BY <2>2, <1>2, Zenon DEF Improving
    <3> QED BY <3>1, <2>3
  <2> HIDE DEF c, T
  <2>7. CASE Augmented(pool, c, wanted) = {}
    <3>1. d[k] = c
      BY <2>6, <2>7 DEF Improved
    <3> QED BY <3>1, <2>2, <2>5, <2>7
  <2>8. CASE Augmented(pool, c, wanted) # {}
    <3>1. d[k] \in Augmented(pool, c, wanted)
      BY <2>6, <2>8 DEF Improved
    <3>2. Within(pool, d[k], wanted, K) /\ Cardinality(d[k]) = Cardinality(c) + 1
      BY <3>1, <2>5, AugmentedGrows
    <3> QED BY <3>2, <2>2, <2>5, <2>8
  <2> QED BY <2>7, <2>8
<1>4. n \in 0..n /\ n \notin T
  BY <1>0, <1>3
<1>5. Good(n)
  BY <1>4
<1> QED BY <1>1, <1>5 DEF n

(* Select gives every model its number whenever some choice would.           *)
LEMMA SelectIsMost ==
    ASSUME NEW pool, IsFiniteSet(pool), NEW wanted \in Nat, NEW K \in SUBSET Models,
           \A x \in pool : x[2].gen \in K,
           NEW best \in SUBSET pool, \A m \in K : OfModel(best, m) = wanted,
           \A x \in best : OfBase(best, x[1]) <= MaxBaseUses
    PROVE  \A m \in K : OfModel(Select(pool, wanted), m) = wanted
<1> DEFINE c == Select(pool, wanted)
           model == ByModel(pool)
<1>1. /\ Within(pool, c, wanted, K)
      /\ Cardinality(c) = wanted * Cardinality(Models) \/ Augmented(pool, c, wanted) = {}
  BY Selected
<1> HIDE DEF c
<1>2. c \subseteq pool /\ IsFiniteSet(c) /\ IsFiniteSet(Models)
  BY <1>1, CorpusAssumption, FS_Subset DEF Within
<1>3. SUFFICES ASSUME NEW m0 \in K, OfModel(c, m0) # wanted PROVE FALSE
  BY DEF c
<1>4. OfModel(c, m0) < wanted
  <2>1. OfModel(c, m0) <= wanted
    BY <1>1 DEF Within
  <2>2. OfModel(c, m0) \in Nat
    BY <1>2, FS_Subset, FS_CardinalityType DEF OfModel
  <2> QED BY <2>1, <2>2, <1>3
<1>5. CASE Augmented(pool, c, wanted) = {}
  <2>1. PICK A, B : Cut(pool, c, wanted, K, A, B)
    BY <1>1, <1>5, NoPathMeansCut
  <2> QED BY <2>1, <1>1, <1>4, CutMeansNone
<1>6. CASE Cardinality(c) = wanted * Cardinality(Models)
  <2>1. \A x \in pool : model[x] = x[2].gen
    BY DEF ByModel
  <2>2. ASSUME NEW k PROVE Cardinality(Keyed(c, model, {k})) = OfModel(c, k)
    <3>1. c \in SUBSET pool
      BY <1>2
    <3> QED BY <3>1, CountsByKey
  <2> HIDE DEF model
  <2>3. Keyed(c, model, Models) = c
    BY <1>2, <2>1 DEF Keyed
  <2> DEFINE V == Models \ {m0}
  <2>4. /\ Cardinality(c) = Cardinality(Keyed(c, model, V)) + OfModel(c, m0)
        /\ Cardinality(Models) = Cardinality(V) + 1 /\ Cardinality(V) \in Nat
        /\ Cardinality(Keyed(c, model, V)) \in Nat /\ OfModel(c, m0) \in Nat
    <3>1. /\ Cardinality(Keyed(c, model, Models)) =
                Cardinality(Keyed(c, model, V)) + Cardinality(Keyed(c, model, {m0}))
          /\ Cardinality(Models) = Cardinality(V) + 1 /\ Cardinality(V) \in Nat
          /\ Cardinality(Keyed(c, model, V)) \in Nat /\ Cardinality(Keyed(c, model, {m0})) \in Nat
      <4>1. m0 \in Models
        OBVIOUS
      <4> QED BY <4>1, <1>2, KeyedOne
    <3>2. Cardinality(Keyed(c, model, {m0})) = OfModel(c, m0)
      BY <2>2
    <3> QED BY <3>1, <3>2, <2>3
  <2>5. ASSUME NEW m \in V PROVE Cardinality(Keyed(c, model, {m})) <= wanted
    <3>1. CASE m \in K
      BY <3>1, <2>2, <1>1 DEF Within
    <3>2. CASE m \notin K
      <4>1. {x \in c : x[2].gen = m} = {}
        BY <3>2, <1>2
      <4>2. OfModel(c, m) = 0
        BY <4>1, FS_EmptySet DEF OfModel
      <4> QED BY <4>2, <2>2
    <3> QED BY <3>1, <3>2
  <2>6. IsFiniteSet(V)
    BY <1>2, FS_Subset
  <2> HIDE DEF V
  <2>7. Cardinality(Keyed(c, model, V)) <= wanted * Cardinality(V)
    BY <2>5, <2>6, <1>2, KeyedAtMost
  <2>8. \A v \in Nat : wanted * (v + 1) = wanted * v + wanted /\ wanted * v \in Nat
    OBVIOUS
  <2> QED BY <2>4, <2>7, <2>8, <1>4, <1>6
<1> QED BY <1>1, <1>5, <1>6

-----------------------------------------------------------------------------
(* The kinds of answers each style file holds, and rows that stand in the    *)
(* partition of the corpus row they were made from.                          *)
SlicesOf(s) ==
    CASE s = "spliced" -> Bands
      [] s = "paraphrased" -> {"light", "heavy"}
      [] s = "human_edited" -> {"genuine", "simulated"}
StyledRow(r) == IsRow(r) /\ r.id[3] # "raw" /\ \E x : r.src = {x} /\ x[1] = r.q
StyleLike(s, rows) == IsFiniteSet(rows) /\ \A r \in rows : StyledRow(r) /\ r.slice \in SlicesOf(s)
Follows(corpus, rows) == {<<r.src, r.part>> : r \in rows} \subseteq {<<{s.id}, s.part>> : s \in corpus}

(* The answers spliced for one partition and band.                           *)
SplicesFor(rows, p, b, wanted) == Numbered(Select(Pool(rows, p, b), wanted), p, b)

(* The candidates, whose AI answers are of the corpus' models, and how many  *)
(* are wanted of each.                                                       *)
LEMMA PoolIs ==
    ASSUME NEW rows, CorpusLike(rows), NEW p, NEW b
    PROVE  /\ IsFiniteSet(Pool(rows, p, b)) /\ Pool(rows, p, b) \subseteq rows \X rows
           /\ ModelsIn(rows) \in SUBSET Models
           /\ \A x \in Pool(rows, p, b) : x[2].gen \in ModelsIn(rows)
<1>1. Pool(rows, p, b) \subseteq rows \X rows
  BY DEF Pool, Human, Ai
<1>2. IsFiniteSet(Pool(rows, p, b))
  BY <1>1, FS_Product, FS_Subset DEF CorpusLike
<1>3. \A r \in Ai(rows) : r.gen \in Models
  BY DEF CorpusLike, SourceRow, Ai
<1>4. ASSUME NEW x \in Pool(rows, p, b) PROVE x[2] \in Ai(rows)
  <2>1. PICK h \in rows, a \in rows : x = <<h, a>> /\ a \in Ai(rows)
    BY DEF Pool, Ai, Human
  <2> QED BY <2>1
<1> QED BY <1>1, <1>2, <1>3, <1>4 DEF ModelsIn
LEMMA CountsAre ==
    ASSUME NEW rows, CorpusLike(rows), NEW p \in DOMAIN AnswersPerBand
    PROVE  CountsPerModel(rows)[p] \in Nat
<1> DEFINE k == Cardinality(ModelsIn(rows))
           g == [r \in Ai(rows) |-> r.gen]
<1>1. IsFiniteSet(Ai(rows))
  BY FS_Subset DEF CorpusLike, Ai
<1>2. IsFiniteSet(ModelsIn(rows))
  <2>1. ModelsIn(rows) = {g[r] : r \in Ai(rows)}
    BY DEF ModelsIn
  <2> HIDE DEF g
  <2> QED BY <1>1, <2>1, ImageFinite
<1>3. k \in Nat /\ k # 0
  <2>1. ModelsIn(rows) # {}
    BY DEF CorpusLike, ModelsIn
  <2> QED BY <1>2, <2>1, FS_CardinalityType, FS_EmptySet
<1>4. AnswersPerBand[p] \in Nat
  BY CorpusAssumption
<1>5. CountsPerModel(rows)[p] = AnswersPerBand[p] \div k
  BY DEF CountsPerModel
<1> HIDE DEF k
<1> QED BY <1>3, <1>4, <1>5

(* The splices for one partition and band are rows of that band, in the      *)
(* places of corpus rows.                                                    *)
LEMMA SplicedOne ==
    ASSUME NEW rows, CorpusLike(rows), NEW p, NEW b \in Bands,
           NEW wanted \in Nat
    PROVE  /\ IsFiniteSet(SplicesFor(rows, p, b, wanted))
           /\ \A r \in SplicesFor(rows, p, b, wanted) :
                StyledRow(r) /\ r.slice \in Bands /\ <<r.q, r.part>> \in Places(rows)
<1> DEFINE pool == Pool(rows, p, b)
           chosen == Select(pool, wanted)
           order == SetToSeq(chosen)
           splice == [i \in 1..Len(order) |->
                       [order[i][2] EXCEPT !.id = <<i, p, "spliced", b>>, !.slice = b, !.src = {order[i][2].id}]]
<1>1. pool \subseteq rows \X rows
  BY PoolIs
<1>2. IsFiniteSet(pool)
  BY PoolIs
<1>3. chosen \subseteq pool
  <2>1. ModelsIn(rows) \in SUBSET Models /\ \A x \in pool : x[2].gen \in ModelsIn(rows)
    BY PoolIs
  <2> HIDE DEF pool
  <2> QED BY <2>1, <1>2, Selected DEF Within
<1>4. IsFiniteSet(chosen)
  BY <1>2, <1>3, FS_Subset
<1>0. order \in Seq(chosen) /\ Len(order) \in Nat
  <2> HIDE DEF chosen
  <2> QED BY <1>4, InTurn
<1>5. ASSUME NEW i \in 1..Len(order)
      PROVE  StyledRow(splice[i]) /\ splice[i].slice = b /\ <<splice[i].q, splice[i].part>> \in Places(rows)
  <2> DEFINE a == order[i][2]
             id == <<i, p, "spliced", b>>
  <2>0. order[i] \in rows \X rows
    <3> HIDE DEF order, chosen, pool
    <3> QED BY <1>0, <1>1, <1>3
  <2>1. a \in rows /\ IsRow(a) /\ a.q = a.id[1]
    BY <2>0 DEF CorpusLike, SourceRow
  <2>3. splice[i] = [a EXCEPT !.id = id, !.slice = b, !.src = {a.id}]
    <3> HIDE DEF order
    <3> QED OBVIOUS
  <2> HIDE DEF splice, a
  <2>4. splice[i] = [id |-> id, q |-> a.q, part |-> a.part, gen |-> a.gen, slice |-> b, src |-> {a.id}]
    <3>1. a = [id |-> a.id, q |-> a.q, part |-> a.part, gen |-> a.gen, slice |-> a.slice, src |-> a.src]
      BY <2>1 DEF IsRow
    <3> HIDE DEF id
    <3> QED BY <2>3, <3>1
  <2>5. id[3] # "raw" /\ a.id[1] = a.q
    BY <2>1
  <2> HIDE DEF id
  <2>6. StyledRow(splice[i]) /\ splice[i].slice = b
    BY <2>4, <2>5 DEF IsRow, StyledRow
  <2>7. <<a.q, a.part>> \in Places(rows)
    BY <2>1 DEF Places
  <2> QED BY <2>4, <2>6, <2>7
<1>6. IsFiniteSet({splice[i] : i \in 1..Len(order)})
  <2>1. IsFiniteSet(1..Len(order))
    <3> HIDE DEF order
    <3> QED BY <1>0, FS_Interval
  <2> HIDE DEF splice, order
  <2> QED BY <2>1, ImageFinite
<1>7. SplicesFor(rows, p, b, wanted) = {splice[i] : i \in 1..Len(order)}
  BY DEF SplicesFor, Numbered
<1> HIDE DEF splice, order
<1> QED BY <1>5, <1>6, <1>7

(* What the splicer writes is a finite set of rows of the bands, all in the  *)
(* places of corpus rows.                                                    *)
LEMMA SplicedStyle ==
    ASSUME NEW rows, CorpusLike(rows), CheckConfig(rows)
    PROVE  StyleLike("spliced", SplicedRows(rows)) /\ Places(SplicedRows(rows)) \subseteq Places(rows)
<1> DEFINE made(p, b) == SplicesFor(rows, p, b, CountsPerModel(rows)[p])
           where == DOMAIN AnswersPerBand
           f == [x \in where \X Bands |-> made(x[1], x[2])]
<1>1. SplicedRows(rows) = UNION {made(p, b) : p \in where, b \in Bands}
  BY DEF SplicedRows, SplicesFor
<1>2. ASSUME NEW p \in where, NEW b \in Bands
      PROVE  /\ IsFiniteSet(made(p, b))
             /\ \A r \in made(p, b) : StyledRow(r) /\ r.slice \in Bands /\ <<r.q, r.part>> \in Places(rows)
  <2>1. CountsPerModel(rows)[p] \in Nat
    BY CountsAre
  <2> QED BY <2>1, SplicedOne
<1> HIDE DEF made
<1>3. IsFiniteSet({f[x] : x \in where \X Bands})
  <2>1. IsFiniteSet(where \X Bands)
    <3>1. where \in SUBSET {"train", "val", "test"} /\ IsFiniteSet({"train", "val", "test"})
      <4>1. IsFiniteSet({"train"}) /\ IsFiniteSet({"val"}) /\ IsFiniteSet({"test"})
        BY FS_Singleton
      <4>2. IsFiniteSet({"train"} \cup {"val"})
        BY <4>1, FS_Union
      <4>3. IsFiniteSet(({"train"} \cup {"val"}) \cup {"test"})
        BY <4>1, <4>2, FS_Union
      <4>4. ({"train"} \cup {"val"}) \cup {"test"} = {"train", "val", "test"}
        OBVIOUS
      <4>5. DOMAIN AnswersPerBand \subseteq {"train", "val", "test"}
        BY CorpusAssumption
      <4> QED BY <4>3, <4>4, <4>5
    <3>2. IsFiniteSet(where) /\ IsFiniteSet(Bands)
      BY <3>1, CorpusAssumption, FS_Subset
    <3> HIDE DEF where
    <3> QED BY <3>2, FS_Product
  <2> HIDE DEF f
  <2> QED BY <2>1, ImageFinite
<1>4. SplicedRows(rows) = UNION {f[x] : x \in where \X Bands}
  <2>1. \A x \in where \X Bands : x[1] \in where /\ x[2] \in Bands /\ f[x] = made(x[1], x[2])
    OBVIOUS
  <2>2. ASSUME NEW p \in where, NEW b \in Bands PROVE <<p, b>> \in where \X Bands /\ f[<<p, b>>] = made(p, b)
    OBVIOUS
  <2> HIDE DEF f, where
  <2>3. ASSUME NEW r \in SplicedRows(rows) PROVE \E x \in where \X Bands : r \in f[x]
    <3>1. PICK p \in where, b \in Bands : r \in made(p, b)
      BY <1>1
    <3> QED BY <3>1, <2>2
  <2>4. ASSUME NEW x \in where \X Bands, NEW r \in f[x] PROVE r \in SplicedRows(rows)
    BY <1>1, <2>1
  <2> QED BY <2>3, <2>4
<1>5. \A x \in where \X Bands : IsFiniteSet(f[x])
  BY <1>2
<1>6. IsFiniteSet(SplicedRows(rows))
  <2> HIDE DEF f
  <2> QED BY <1>3, <1>4, <1>5, FS_UNION
<1>7. \A r \in SplicedRows(rows) : StyledRow(r) /\ r.slice \in Bands /\ <<r.q, r.part>> \in Places(rows)
  <2> TAKE r \in SplicedRows(rows)
  <2>1. PICK p \in where, b \in Bands : r \in made(p, b)
    BY <1>1
  <2> QED BY <2>1, <1>2
<1>8. Places(SplicedRows(rows)) \subseteq Places(rows)
  <2> SUFFICES ASSUME NEW r \in SplicedRows(rows) PROVE <<r.q, r.part>> \in Places(rows)
    BY DEF Places
  <2> QED BY <1>7
<1> QED BY <1>6, <1>7, <1>8 DEF StyleLike, SlicesOf

(* The raw AI answers among rows.                                            *)
RawAi(rows) == {r \in rows : r.slice = "raw-ai"}

(* A derived answer is one of another kind, with its source named.           *)
LEMMA DerivedIs ==
    ASSUME NEW r, IsRow(r), r.q = r.id[1], NEW kind, kind # "raw"
    PROVE  /\ StyledRow(Derived(r, kind)) /\ Derived(r, kind).slice = kind
           /\ Derived(r, kind).src = {r.id} /\ Derived(r, kind).part = r.part
<1> DEFINE id == <<r.id[1], r.id[2], kind, r.id[4]>>
<1>1. Derived(r, kind) = [r EXCEPT !.id = id, !.slice = kind, !.src = {r.id}]
  <2>1. r = [id |-> r.id, q |-> r.q, part |-> r.part, gen |-> r.gen, slice |-> r.slice, src |-> r.src]
    BY DEF IsRow
  <2>2. r.id = r.id
    OBVIOUS
  <2> QED BY <2>1 DEF Derived
<1>0. id[3] # "raw"
  OBVIOUS
<1> HIDE DEF id
<1>2. r = [id |-> r.id, q |-> r.q, part |-> r.part, gen |-> r.gen, slice |-> r.slice, src |-> r.src]
  BY DEF IsRow
<1>3. Derived(r, kind) = [id |-> id, q |-> r.q, part |-> r.part, gen |-> r.gen, slice |-> kind, src |-> {r.id}]
  BY <1>1, <1>2
<1> QED BY <1>0, <1>3 DEF IsRow, StyledRow

(* What attach_styles.py writes are rows of its kinds, each in the partition *)
(* of its source.                                                            *)
LEMMA Attachment ==
    ASSUME NEW style \in {"paraphrased", "human_edited"}, CorpusLike(disk["corpus"].rows)
    PROVE  /\ StyleLike(style, Attached(style))
           /\ Follows(disk["corpus"].rows, Attached(style))
<1> DEFINE rows == disk["corpus"].rows
           raw == RawAi(rows)
           sources == {[r EXCEPT !.part = Placed(r)] : r \in {r \in rows : r.slice = "raw-ai"}}
<1>1. \A r \in raw : IsRow(r) /\ r.q = r.id[1] /\ r.id \in DOMAIN Edited /\ r \in rows
  BY DEF CorpusLike, SourceRow, RawAi
<1>2. sources = raw
  <2>1. \A r \in raw : [r EXCEPT !.part = Placed(r)] = r
    BY <1>1 DEF IsRow, Placed
  <2> QED BY <2>1 DEF RawAi
<1>3. IsFiniteSet(raw)
  BY FS_Subset DEF CorpusLike, RawAi
<1>4. \A r, kind : IsRow(r) /\ r.q = r.id[1] /\ kind # "raw" =>
                      /\ StyledRow(Derived(r, kind)) /\ Derived(r, kind).slice = kind
                      /\ Derived(r, kind).src = {r.id} /\ Derived(r, kind).part = r.part
  BY DerivedIs
<1> HIDE DEF sources, raw, rows
<1>5. CASE style = "paraphrased"
  <2> DEFINE pairs == {p \in sources \X {"light", "heavy"} : <<p[1].id, p[2]>> \in Rewrites}
             f == [p \in pairs |-> Derived(p[1], p[2])]
  <2>1. Attached(style) = {f[p] : p \in pairs}
    BY <1>5 DEF Attached, sources, rows
  <2>2. IsFiniteSet(pairs)
    <3>1. IsFiniteSet({"light"}) /\ IsFiniteSet({"heavy"}) /\ {"light"} \cup {"heavy"} = {"light", "heavy"}
      BY FS_Singleton
    <3>2. IsFiniteSet({"light", "heavy"})
      BY <3>1, FS_Union
    <3>3. IsFiniteSet(sources \X {"light", "heavy"})
      BY <3>2, <1>2, <1>3, FS_Product
    <3> QED BY <3>3, FS_Subset
  <2>3. \A p \in pairs : p[1] \in raw /\ p[2] \in {"light", "heavy"} /\ f[p] = Derived(p[1], p[2])
    BY <1>2
  <2> HIDE DEF f, pairs
  <2>4. IsFiniteSet(Attached(style))
    BY <2>1, <2>2, ImageFinite
  <2>5. \A r \in Attached(style) : \E s \in raw, kind \in {"light", "heavy"} : r = Derived(s, kind)
    BY <2>1, <2>3
  <2>6. StyleLike(style, Attached(style))
    BY <1>5, <2>4, <2>5, <1>1, <1>4 DEF StyleLike, SlicesOf
  <2>7. Follows(rows, Attached(style))
    BY <2>5, <1>1, <1>4 DEF Follows
  <2> QED BY <2>6, <2>7 DEF rows
<1>6. CASE style = "human_edited"
  <2> DEFINE edits == {x \in sources : Edited[x.id] # "none"}
             f == [r \in edits |-> Derived(r, Edited[r.id])]
  <2>1. Attached(style) = {f[r] : r \in edits}
    BY <1>6 DEF Attached, sources, rows
  <2>2. IsFiniteSet(edits)
    BY <1>2, <1>3, FS_Subset
  <2>3. \A r \in edits : r \in raw /\ Edited[r.id] \in {"genuine", "simulated"} /\ f[r] = Derived(r, Edited[r.id])
    BY <1>1, <1>2, CorpusAssumption
  <2> HIDE DEF f, edits
  <2>4. IsFiniteSet(Attached(style))
    BY <2>1, <2>2, ImageFinite
  <2>5. \A r \in Attached(style) : \E s \in raw, kind \in {"genuine", "simulated"} : r = Derived(s, kind)
    BY <2>1, <2>3
  <2>6. StyleLike(style, Attached(style))
    BY <1>6, <2>4, <2>5, <1>1, <1>4 DEF StyleLike, SlicesOf
  <2>7. Follows(rows, Attached(style))
    BY <2>5, <1>1, <1>4 DEF Follows
  <2> QED BY <2>6, <2>7 DEF rows
<1> QED BY <1>5, <1>6

(* Styled answers that follow the corpus are in the places of its rows.      *)
LEMMA FollowersPlaces ==
    ASSUME NEW corpus, CorpusLike(corpus), NEW rows, \A r \in rows : StyledRow(r), Follows(corpus, rows)
    PROVE  Places(rows) \subseteq Places(corpus)
<1> SUFFICES ASSUME NEW r \in rows PROVE <<r.q, r.part>> \in Places(corpus)
  BY DEF Places
<1>1. <<r.src, r.part>> \in {<<{s.id}, s.part>> : s \in corpus}
  BY DEF Follows
<1>2. PICK s \in corpus : r.src = {s.id} /\ r.part = s.part
  BY <1>1
<1>3. PICK x : r.src = {x} /\ x[1] = r.q
  BY DEF StyledRow
<1>4. x = s.id /\ s.q = s.id[1]
  BY <1>2, <1>3 DEF CorpusLike, SourceRow
<1> QED BY <1>2, <1>3, <1>4 DEF Places

-----------------------------------------------------------------------------
(* A share dealt out evenly is a number.                                     *)
LEMMA Even ==
    ASSUME NEW total \in Nat, NEW k \in Nat \ {0}, NEW i \in 1..k
    PROVE  Evenly(total, k)[i] \in Nat
<1>1. total \div k \in Nat
  OBVIOUS
<1> HIDE DEF Evenly
<1>2. Evenly(total, k)[i] = (total \div k) + (IF i <= total % k THEN 1 ELSE 0)
  BY DEF Evenly
<1> QED BY <1>1, <1>2

(* The bands in the order the script takes them.                             *)
LEMMA BandsInTurn ==
    /\ Len(SetToSeq(Bands)) = Cardinality(Bands) /\ Cardinality(Bands) \in Nat
    /\ DOMAIN SetToSeq(Bands) = 1..Cardinality(Bands)
    /\ \A i \in DOMAIN SetToSeq(Bands) : SetToSeq(Bands)[i] \in Bands
<1>1. SetToSeq(Bands) \in Seq(Bands) /\ Len(SetToSeq(Bands)) = Cardinality(Bands) /\ Cardinality(Bands) \in Nat
  BY CorpusAssumption, InTurn
<1> HIDE DEF Bands
<1> QED BY <1>1

(* A raw answer that is also a source is in the training set only when fewer *)
(* raw ones that are none were left than it takes.                           *)
RawFits(corpus, train) ==
    LET raw == RawAi(train)
        others == {r \in Ai(corpus) : r.part = "train" /\ r.id \notin Sources(train)}
    IN  \A r \in raw : r.id \in Sources(train) => Cardinality(others) < Cardinality(raw)

(* What the extended training set consists of: the human and the styled      *)
(* answers, and a draw from the raw ones, those that are no source preferred. *)
RawTrain(all) == {r \in all : r.part = "train" /\ r.slice = "raw-ai"}
TrainIs(all, rest, raw, nRaw) ==
    LET clean == Clean(RawTrain(all), Sources(rest))
    IN  /\ Train(all) = rest \cup raw
        /\ \A r \in rest : r \in all /\ r.slice # "raw-ai"
        /\ raw = IF Cardinality(clean) >= nRaw THEN Draw(clean, nRaw) ELSE Sample(RawTrain(all), nRaw)
(* The training set has these parts, whatever the counts come to.            *)
LEMMA TrainParts ==
    ASSUME NEW all, IsFiniteSet(all),
           \A r \in all : r.slice \in {"human", "raw-ai"} => r.src = {}
    PROVE  \E rest, raw : \E nRaw \in Nat : TrainIs(all, rest, raw, nRaw)
<1> DEFINE train == {r \in all : r.part = "train"}
           of(slice) == {r \in train : r.slice = slice}
           n == Cardinality(of("human"))
           nRaw == Round(n, 50)
           each == Evenly(n - nRaw, 3)
           bands == SetToSeq(Bands)
           spliced == UNION {Sample(of(bands[i]), Evenly(each[1], Len(bands))[i]) : i \in DOMAIN bands}
           genuine == Sample(of("genuine"), each[3])
           simulated == Sample(Fresh(of("simulated"), Sources(spliced)), each[3] - Cardinality(genuine))
           before == Sources(spliced \cup genuine \cup simulated)
           light == Sample(Fresh(of("light"), before), Evenly(each[2], 2)[1])
           heavy == Sample(Fresh(of("heavy"), before \cup Sources(light)), Evenly(each[2], 2)[2])
           used == before \cup Sources(light \cup heavy)
           clean == Clean(of("raw-ai"), used)
           raw == IF Cardinality(clean) >= nRaw THEN Draw(clean, nRaw) ELSE Sample(of("raw-ai"), nRaw)
           rest == of("human") \cup spliced \cup genuine \cup simulated \cup light \cup heavy
<1>1. Train(all) = rest \cup raw
  BY Zenon DEF Train
<1>2. \A s : of(s) \subseteq all /\ IsFiniteSet(of(s)) /\ \A r \in of(s) : r.slice = s
  <2> TAKE s
  <2>1. of(s) \in SUBSET all
    OBVIOUS
  <2>2. IsFiniteSet(of(s))
    BY <2>1, FS_Subset
  <2> QED BY <2>1, <2>2
<1>3. of("raw-ai") = RawTrain(all)
  BY DEF RawTrain
<1>4. \A r \in of("human") : r.src = {}
  OBVIOUS
<1> HIDE DEF of
<1>5. n \in Nat
  BY <1>2, FS_CardinalityType
<1>6. nRaw \in 0..n
  <2> HIDE DEF n
  <2>1. 50 \in 1..100
    OBVIOUS
  <2> QED BY <2>1, <1>5, Rounded
<1> HIDE DEF n, nRaw
<1>7. each[1] \in Nat /\ each[2] \in Nat /\ each[3] \in Nat
  <2>1. n - nRaw \in Nat
    BY <1>5, <1>6
  <2> QED BY <2>1, Even
<1> HIDE DEF each
<1>8. \A r \in spliced : r \in all /\ r.slice # "raw-ai"
  <2> SUFFICES ASSUME NEW i \in DOMAIN bands, NEW r \in Sample(of(bands[i]), Evenly(each[1], Len(bands))[i])
               PROVE  r \in all /\ r.slice # "raw-ai"
    OBVIOUS
  <2>1. bands[i] \in Bands /\ Len(bands) \in Nat \ {0} /\ i \in 1..Len(bands)
    BY BandsInTurn
  <2> HIDE DEF bands
  <2>2. Evenly(each[1], Len(bands))[i] \in Nat
    BY <2>1, <1>7, Even
  <2>3. r \in of(bands[i])
    BY <2>2, <1>2, Sampled
  <2>4. "raw-ai" \notin Bands
    BY CorpusAssumption
  <2> QED BY <2>1, <2>3, <2>4, <1>2
<1> HIDE DEF spliced
<1>9. genuine \subseteq of("genuine") /\ Cardinality(genuine) \in 0..each[3]
  <2>1. /\ genuine \subseteq of("genuine")
        /\ Cardinality(genuine) = Least(each[3], Cardinality(of("genuine")))
    BY <1>2, <1>7, Sampled
  <2>2. Cardinality(of("genuine")) \in Nat
    BY <1>2, FS_CardinalityType
  <2> QED BY <2>1, <2>2, <1>7 DEF Least
<1> HIDE DEF genuine
<1>10. \A s, B : IsFiniteSet(Fresh(of(s), B)) /\ Fresh(of(s), B) \subseteq of(s)
  <2> TAKE s, B
  <2>1. Fresh(of(s), B) \in SUBSET of(s)
    BY DEF Fresh
  <2> QED BY <2>1, <1>2, FS_Subset
<1>11. simulated \subseteq of("simulated")
  <2>1. each[3] - Cardinality(genuine) \in Nat
    BY <1>7, <1>9
  <2> QED BY <2>1, <1>10, Sampled
<1> HIDE DEF simulated
<1>12. light \subseteq of("light")
  <2>1. Evenly(each[2], 2)[1] \in Nat
    BY <1>7, Even
  <2> QED BY <2>1, <1>10, Sampled
<1> HIDE DEF light
<1>13. heavy \subseteq of("heavy")
  <2>1. Evenly(each[2], 2)[2] \in Nat
    BY <1>7, Even
  <2> QED BY <2>1, <1>10, Sampled
<1> HIDE DEF heavy
<1>14. \A r \in rest : r \in all /\ r.slice # "raw-ai"
  BY <1>2, <1>8, <1>9, <1>11, <1>12, <1>13
<1>15. Sources(rest) = used
  BY <1>4 DEF Sources
<1>16. raw = IF Cardinality(Clean(of("raw-ai"), Sources(rest))) >= nRaw
             THEN Draw(Clean(of("raw-ai"), Sources(rest)), nRaw) ELSE Sample(of("raw-ai"), nRaw)
  BY <1>15
<1>17. nRaw \in Nat
  BY <1>5, <1>6
<1> HIDE DEF rest, raw
<1>18. TrainIs(all, rest, raw, nRaw)
  BY <1>1, <1>3, <1>14, <1>16 DEF TrainIs
<1> QED BY <1>17, <1>18

(* So it fits the corpus that its raw answers are from.                      *)
LEMMA TrainFits ==
    ASSUME NEW all, IsFiniteSet(all),
           \A r \in all : r.slice \in {"human", "raw-ai"} => r.src = {},
           NEW corpus, {r \in Ai(corpus) : r.part = "train"} = RawTrain(all)
    PROVE  RawFits(corpus, Train(all)) /\ Train(all) \subseteq all
<1> DEFINE ofRaw == RawTrain(all)
<1>1. PICK rest, raw : \E nRaw \in Nat : TrainIs(all, rest, raw, nRaw)
  BY TrainParts
<1>2. PICK nRaw \in Nat : TrainIs(all, rest, raw, nRaw)
  BY <1>1
<1>3. /\ Train(all) = rest \cup raw
      /\ \A r \in rest : r \in all /\ r.slice # "raw-ai"
      /\ raw = IF Cardinality(Clean(ofRaw, Sources(rest))) >= nRaw
               THEN Draw(Clean(ofRaw, Sources(rest)), nRaw) ELSE Sample(ofRaw, nRaw)
  BY <1>2 DEF TrainIs
<1> DEFINE clean == Clean(ofRaw, Sources(rest))
<1>4. raw = IF Cardinality(clean) >= nRaw THEN Draw(clean, nRaw) ELSE Sample(ofRaw, nRaw)
  BY <1>3
<1>5. IsFiniteSet(ofRaw) /\ clean \subseteq ofRaw /\ ofRaw \subseteq all /\ \A r \in ofRaw : r.slice = "raw-ai" /\ r.src = {}
  BY FS_Subset DEF Clean, RawTrain
<1> HIDE DEF ofRaw
<1>6. IsFiniteSet(clean) /\ Cardinality(clean) \in Nat /\ Cardinality(ofRaw) \in Nat
  BY <1>5, FS_Subset, FS_CardinalityType
<1> HIDE DEF clean
<1>7. /\ Cardinality(clean) >= nRaw => raw \subseteq clean
      /\ Cardinality(clean) < nRaw => raw \subseteq ofRaw /\ Cardinality(raw) = Least(nRaw, Cardinality(ofRaw))
  <2>1. ASSUME Cardinality(clean) >= nRaw PROVE raw \subseteq clean
    <3>1. raw = Draw(clean, nRaw) /\ nRaw \in 0..Cardinality(clean)
      BY <1>4, <2>1, <1>6
    <3> QED BY <3>1, <1>6, Drawn
  <2>2. ASSUME Cardinality(clean) < nRaw
        PROVE  raw \subseteq ofRaw /\ Cardinality(raw) = Least(nRaw, Cardinality(ofRaw))
    <3>1. raw = Sample(ofRaw, nRaw)
      BY <1>4, <2>2, <1>6
    <3> QED BY <3>1, <1>5, Sampled
  <2> QED BY <2>1, <2>2
<1>8. raw \subseteq ofRaw
  BY <1>5, <1>6, <1>7
<1>9. RawAi(Train(all)) = raw
  BY <1>3, <1>5, <1>8 DEF RawAi
<1>10. Sources(Train(all)) = Sources(rest)
  <2>1. Train(all) = rest \cup raw /\ \A r \in raw : r.src = {}
    BY <1>3, <1>5, <1>8
  <2> HIDE DEF Train
  <2>2. Sources(rest \cup raw) = Sources(rest) \cup UNION {r.src : r \in raw}
    BY DEF Sources
  <2>3. UNION {r.src : r \in raw} = {}
    BY <2>1
  <2> QED BY <2>1, <2>2, <2>3
<1>11. {r \in Ai(corpus) : r.part = "train" /\ r.id \notin Sources(Train(all))} = clean
  BY <1>10 DEF Clean, clean, ofRaw
<1>12. ASSUME NEW r \in raw, r.id \in Sources(rest) PROVE Cardinality(clean) < Cardinality(raw)
  <2>1. r \notin clean
    BY <1>12 DEF clean, Clean
  <2>2. Cardinality(clean) < nRaw /\ Cardinality(raw) = Least(nRaw, Cardinality(ofRaw))
    BY <2>1, <1>6, <1>7, <1>12
  <2>3. Cardinality(clean) < Cardinality(ofRaw)
    <3>1. clean # ofRaw
      BY <2>1, <1>8, <1>12
    <3>2. Cardinality(clean) <= Cardinality(ofRaw) /\ Cardinality(clean) # Cardinality(ofRaw)
      BY <3>1, <1>5, FS_Subset
    <3> QED BY <3>2, <1>6
  <2> QED BY <2>2, <2>3, <1>6 DEF Least
<1>13. Train(all) \subseteq all
  BY <1>3, <1>5, <1>8
<1> QED BY <1>9, <1>10, <1>11, <1>12, <1>13 DEF RawFits

(* The rows a run of build_extended_corpus.py reads: the raw answers are     *)
(* those of the corpus and name no source.                                   *)
Tidy(rows) == IsFiniteSet(rows) /\ \A r \in rows : r.id[3] = "raw" => r.q = r.id[1]
(* Every question there is told by the id of a raw answer in the partition.  *)
Told(rows) == \A r \in rows : \E t \in rows : t.part = r.part /\ t.id[3] = "raw" /\ t.id[1] = r.q
PartLike(p, file) ==
    /\ Tidy(file.rows)
    /\ p # "train" /\ file.splices = file.build => Told(file.rows)
LEMMA RowsRead ==
    ASSUME CorpusLike(disk["corpus"].rows), \A s \in Styles : StyleLike(s, disk[s].rows)
    PROVE  /\ Tidy(AllRows)
           /\ \A r \in AllRows : r.slice \in {"human", "raw-ai"} => r.src = {}
           /\ {r \in Ai(disk["corpus"].rows) : r.part = "train"} = RawTrain(AllRows)
<1> DEFINE corpus == disk["corpus"].rows
           styled == disk["spliced"].rows \cup disk["paraphrased"].rows \cup disk["human_edited"].rows
<1>1. AllRows = corpus \cup styled
  BY DEF AllRows, Styles
<1>2. IsFiniteSet(corpus) /\ \A r \in corpus : r.slice \in {"human", "raw-ai"} /\ r.src = {}
  BY DEF CorpusLike, SourceRow
<1>3. \A s \in Styles : \A r \in disk[s].rows : r.slice \notin {"human", "raw-ai"}
  <2>1. \A s \in Styles : {"human", "raw-ai"} \cap SlicesOf(s) = {}
    BY CorpusAssumption DEF SlicesOf, Styles
  <2> QED BY <2>1 DEF StyleLike
<1>4. \A r \in styled : r.slice \notin {"human", "raw-ai"}
  BY <1>3 DEF Styles
<1>5. IsFiniteSet(styled)
  <2>1. /\ IsFiniteSet(disk["spliced"].rows) /\ IsFiniteSet(disk["paraphrased"].rows)
        /\ IsFiniteSet(disk["human_edited"].rows)
    BY DEF Styles, StyleLike
  <2> QED BY <2>1, FS_Union
<1> HIDE DEF corpus, styled
<1>6. IsFiniteSet(AllRows)
  BY <1>1, <1>2, <1>5, FS_Union
<1>7. {r \in Ai(corpus) : r.part = "train"} = RawTrain(AllRows)
  BY <1>1, <1>2, <1>4 DEF Ai, RawTrain
<1>8. \A r \in AllRows : r.id[3] = "raw" => r.q = r.id[1]
  BY DEF AllRows, CorpusLike, SourceRow, StyleLike, StyledRow
<1> QED BY <1>1, <1>2, <1>4, <1>6, <1>7, <1>8 DEF corpus, Tidy

-----------------------------------------------------------------------------
(* What is on disk.                                                          *)
Typed ==
    /\ disk = [f \in Files |-> disk[f]]
    /\ \A f \in Files : /\ disk[f].state \in {"missing", "torn", "whole"} /\ disk[f].build \in 0..MaxBuilds
                        /\ disk[f].state # "whole" => disk[f].rows = {}
FilesOK ==
    /\ Readable("corpus") => CorpusLike(disk["corpus"].rows)
    /\ \A s \in Styles : StyleLike(s, disk[s].rows)
    /\ \A p \in Partitions : PartLike(p, disk[p])
    /\ \A f \in Styles \cup Partitions : disk[f].build <= disk["corpus"].build
    /\ \A f \in {"corpus"} \cup Styles : disk[f].splices = disk[f].build
(* What a file of the corpus' build owes to the corpus.                      *)
Fits(f, corpus, file) ==
    /\ f \in Rewritten => Follows(corpus, file.rows)
    /\ f = "train" => RawFits(corpus, file.rows)
    /\ file.splices = file.build => Places(file.rows) \subseteq Places(corpus)
SameBuildFits ==
    \A f \in Styles \cup Partitions :
        Readable("corpus") /\ Readable(f) /\ disk[f].build = disk["corpus"].build =>
            Fits(f, disk["corpus"].rows, disk[f])
(* The files of one build, whichever are left of it, are placed fairly: each *)
(* was made of the build's corpus, which may be gone.                        *)
OfBuild(f, n) == Readable(f) /\ disk[f].build = n /\ disk[f].splices = n
BuildsFair ==
    \A n \in 1..MaxBuilds : \E places :
        /\ FairPlaces(places)
        /\ \A f \in {"corpus"} \cup Styles \cup Partitions :
              OfBuild(f, n) => Places(disk[f].rows) \subseteq places
(* What a tool still has to write: the corpus first, of a new build, or files *)
(* made of the corpus on disk.                                               *)
WriteOK(i) ==
    LET f == job[i].file holds == job[i].holds
    IN  /\ f \in Files /\ holds.state = "whole" /\ holds.build \in 0..MaxBuilds
        /\ f \in {"corpus"} \cup Styles => holds.splices = holds.build
        /\ f = "corpus" => i = 1 /\ holds.build = disk["corpus"].build + 1 /\ CorpusLike(holds.rows)
        /\ f \in Styles \cup Partitions =>
            /\ \A j \in DOMAIN job : job[j].file # "corpus"
            /\ Readable("corpus") /\ holds.build = disk["corpus"].build
            /\ f \in Styles => StyleLike(f, holds.rows)
            /\ f \in Partitions => PartLike(f, holds)
            /\ Fits(f, disk["corpus"].rows, holds)
WritesOK == (\E S : job \in Seq(S)) /\ \A i \in DOMAIN job : WriteOK(i)
CorpusInv == Typed /\ FilesOK /\ SameBuildFits /\ BuildsFair /\ WritesOK

(* A file without rows is one of its style.                                  *)
LEMMA NoRows ==
    /\ \A p, file : file.rows = {} => PartLike(p, file)
    /\ \A s \in Styles : StyleLike(s, {})
  BY FS_EmptySet DEF StyleLike, Tidy, Told, PartLike

(* With no file there yet the invariant holds.                               *)
LEMMA InvInit == ASSUME Init PROVE CorpusInv
<1>1. \A f \in Files : disk[f] = Missing
  BY DEF Init
<1>2. Typed
  BY <1>1, CorpusAssumption DEF Typed, Missing, Init
<1>3. FilesOK /\ SameBuildFits
  BY <1>1, NoRows DEF FilesOK, SameBuildFits, Readable, Missing, Files, Styles, Partitions
<1>5. BuildsFair
  <2>1. \A f \in Files : ~Readable(f)
    BY <1>1 DEF Readable, Missing
  <2>2. FairPlaces({})
    BY DEF FairPlaces
  <2> QED BY <2>1, <2>2 DEF BuildsFair, OfBuild, Files
<1>4. WritesOK
  <2>1. job = <<>>
    BY DEF Init
  <2> QED BY <2>1 DEF WritesOK
<1> QED BY <1>2, <1>3, <1>4, <1>5 DEF CorpusInv

(* What is on disk stays so when no file is written.                         *)
LEMMA DiskKept ==
    ASSUME Typed, FilesOK, SameBuildFits, BuildsFair, disk' = disk
    PROVE  (Typed /\ FilesOK /\ SameBuildFits /\ BuildsFair)'
<1>1. (Typed /\ FilesOK)'
  BY DEF Typed, FilesOK, Readable
<1>2. SameBuildFits'
  BY DEF SameBuildFits, Readable
<1>3. BuildsFair'
  BY DEF BuildsFair, OfBuild, Readable
<1> QED BY <1>1, <1>2, <1>3

(* A tool that starts leaves the disk alone; only its writes are to be shown.*)
LEMMA Started ==
    ASSUME CorpusInv, NEW writes, Start(writes), NEW S, writes \in Seq(S),
           \A i \in DOMAIN writes : WriteOK(i)'
    PROVE  CorpusInv'
<1>1. job' = writes /\ disk' = disk
  BY DEF Start
<1>2. WritesOK'
  BY <1>1 DEF WritesOK
<1> QED BY <1>1, <1>2, DiskKept DEF CorpusInv

(* corpus/build.py is to write a corpus of the next build, then the manifest.*)
LEMMA InvBuildCorpus == ASSUME CorpusInv, BuildCorpus PROVE CorpusInv'
<1> DEFINE build == disk["corpus"].build + 1
<1>1. PICK made \in Built :
         Start(<<[file |-> "corpus", holds |-> Whole(made.rows, build, build)],
                 [file |-> "manifest", holds |-> Whole(made.manifest, build, build)]>>)
  BY DEF BuildCorpus
<1>2. build \in 0..MaxBuilds
  <2>1. disk["corpus"].build \in 0..MaxBuilds
    BY DEF CorpusInv, Typed, Files
  <2>2. build <= MaxBuilds
    BY DEF BuildCorpus
  <2>3. MaxBuilds \in Nat
    BY CorpusAssumption
  <2> QED BY <2>1, <2>2, <2>3
<1>3. CorpusLike(made.rows)
  BY BuiltRows
<1> DEFINE first == [file |-> "corpus", holds |-> Whole(made.rows, build, build)]
           second == [file |-> "manifest", holds |-> Whole(made.manifest, build, build)]
<1>4. job' = <<first, second>> /\ disk' = disk
  BY <1>1 DEF Start
<1>5. /\ first.file = "corpus" /\ first.holds.state = "whole" /\ first.holds.build = build
      /\ first.holds.rows = made.rows /\ first.holds.splices = build
      /\ second.file = "manifest" /\ second.holds.state = "whole" /\ second.holds.build = build
  BY DEF Whole
<1> HIDE DEF first, second
<1>6. <<first, second>> \in Seq({first, second}) /\ DOMAIN <<first, second>> = {1, 2}
  OBVIOUS
<1>7. WriteOK(1)' /\ WriteOK(2)'
  BY <1>2, <1>3, <1>4, <1>5 DEF WriteOK, Files, Styles, Partitions
<1>8. Start(<<first, second>>)
  BY <1>1 DEF first, second
<1> QED BY <1>6, <1>7, <1>8, Started

(* A tool with one file to write, made of the corpus on disk.                *)
LEMMA StartedOne ==
    ASSUME CorpusInv, NEW f \in Styles, NEW rows, Readable("corpus"), StyleLike(f, rows),
           NEW build, build = disk["corpus"].build,
           Fits(f, disk["corpus"].rows, Whole(rows, build, build)),
           Start(<<[file |-> f, holds |-> Whole(rows, build, build)]>>)
    PROVE  CorpusInv'
<1> DEFINE write == [file |-> f, holds |-> Whole(rows, build, build)]
<1>1. job' = <<write>> /\ disk' = disk
  BY DEF Start
<1>2. /\ write.file = f /\ write.holds = Whole(rows, build, build)
      /\ write.holds.state = "whole" /\ write.holds.rows = rows
      /\ write.holds.build = build /\ write.holds.splices = build
  BY DEF Whole
<1>3. Start(<<write>>)
  OBVIOUS
<1> HIDE DEF write
<1>4. <<write>> \in Seq({write}) /\ DOMAIN <<write>> = {1}
  OBVIOUS
<1>5. WriteOK(1)'
  <2>1. f \in Files /\ f # "corpus" /\ f \notin Partitions /\ build \in 0..MaxBuilds
    BY DEF Files, Styles, Partitions, CorpusInv, Typed
  <2>2. Readable("corpus")' /\ DOMAIN job' = {1} /\ job'[1] = write
    BY <1>1, <1>4 DEF Readable
  <2> QED BY <1>1, <1>2, <2>1, <2>2 DEF WriteOK
<1> QED BY <1>3, <1>4, <1>5, Started

(* attach_styles.py reads the corpus on disk.                                *)
LEMMA InvAttach ==
    ASSUME CorpusInv, NEW s \in Styles, AttachStyle(s) PROVE CorpusInv'
<1>1. s \in {"paraphrased", "human_edited"} /\ Readable("corpus")
  BY DEF AttachStyle
<1>2. CorpusLike(disk["corpus"].rows)
  BY <1>1 DEF CorpusInv, FilesOK
<1>3. StyleLike(s, Attached(s)) /\ Follows(disk["corpus"].rows, Attached(s))
  BY <1>1, <1>2, Attachment
<1> DEFINE build == disk["corpus"].build
<1>4. Fits(s, disk["corpus"].rows, Whole(Attached(s), build, build))
  <2>1. Places(Attached(s)) \subseteq Places(disk["corpus"].rows)
    BY <1>2, <1>3, FollowersPlaces DEF StyleLike
  <2>2. Whole(Attached(s), build, build).rows = Attached(s) /\ s # "train"
    BY <1>1 DEF Whole
  <2> QED BY <1>3, <2>1, <2>2 DEF Fits
<1>5. Start(<<[file |-> s, holds |-> Whole(Attached(s), build, build)]>>)
  BY DEF AttachStyle
<1> HIDE DEF build
<1>6. build = disk["corpus"].build
  BY DEF build
<1> QED BY <1>1, <1>3, <1>4, <1>5, <1>6, StartedOne

(* So does the splicer.                                                      *)
LEMMA InvSplice == ASSUME CorpusInv, BuildSpliced PROVE CorpusInv'
<1> DEFINE rows == SplicedRows(disk["corpus"].rows)
           build == disk["corpus"].build
<1>1. Readable("corpus") /\ CheckConfig(disk["corpus"].rows)
  BY DEF BuildSpliced
<1>2. CorpusLike(disk["corpus"].rows)
  BY <1>1 DEF CorpusInv, FilesOK
<1>3. StyleLike("spliced", rows) /\ Places(rows) \subseteq Places(disk["corpus"].rows)
  BY <1>1, <1>2, SplicedStyle
<1>4. Start(<<[file |-> "spliced", holds |-> Whole(rows, build, build)]>>)
  BY DEF BuildSpliced
<1>5. build = disk["corpus"].build
  OBVIOUS
<1> HIDE DEF rows, build
<1>6. "spliced" \in Styles /\ Fits("spliced", disk["corpus"].rows, Whole(rows, build, build))
  BY <1>3 DEF Styles, Fits, Whole, Rewritten
<1> QED BY <1>1, <1>3, <1>4, <1>5, <1>6, StartedOne

(* And build_extended_corpus.py, whose three files are made of one reading.  *)
LEMMA InvExtend == ASSUME CorpusInv, NEW force, BuildExtended(force) PROVE CorpusInv'
<1> DEFINE train == Train(AllRows)
           extended(p) == IF p = "train" THEN train ELSE {r \in AllRows : r.part = p}
           corpus == disk["corpus"].rows
           build == disk["corpus"].build
           splices == disk["spliced"].build
           names == <<"train", "val", "test">>
           writes == [i \in 1..3 |->
                       LET p == names[i]
                       IN  [file |-> p, holds |-> Whole(extended(p), build, splices)]]
<1>1. Start(writes)
  BY DEF BuildExtended
<1>2. \A f \in {"corpus"} \cup Styles : Readable(f)
  BY DEF BuildExtended
<1>3. CorpusLike(corpus) /\ \A s \in Styles : StyleLike(s, disk[s].rows)
  BY <1>2 DEF CorpusInv, FilesOK
<1>4. RawFits(corpus, train) /\ train \subseteq AllRows /\ Tidy(AllRows)
  <2>1. Tidy(AllRows) => IsFiniteSet(AllRows)
    BY DEF Tidy
  <2> QED BY <1>3, <2>1, RowsRead, TrainFits
<1>5. \A p \in Partitions : extended(p) \subseteq AllRows
  BY <1>4
<1>6. \A p \in Partitions : Tidy(extended(p))
  <2> HIDE DEF extended
  <2> QED BY <1>4, <1>5, FS_Subset DEF Tidy
<1>7. splices = build => Places(AllRows) \subseteq Places(corpus)
  <2> SUFFICES ASSUME splices = build, NEW r \in AllRows PROVE <<r.q, r.part>> \in Places(corpus)
    BY DEF Places
  <2>1. CASE r \in corpus
    BY <2>1 DEF Places
  <2>2. CASE r \in disk["spliced"].rows
    <3>1. "spliced" \in Styles /\ disk["spliced"].splices = disk["spliced"].build
      BY DEF Styles, CorpusInv, FilesOK
    <3>2. Fits("spliced", corpus, disk["spliced"])
      BY <1>2, <3>1 DEF CorpusInv, SameBuildFits
    <3> QED BY <2>2, <3>1, <3>2 DEF Fits, Places
  <2>3. ASSUME NEW s \in Rewritten, r \in disk[s].rows PROVE <<r.q, r.part>> \in Places(corpus)
    <3>1. s \in Styles /\ \A x \in disk[s].rows : StyledRow(x)
      BY <1>3 DEF Rewritten, Styles, StyleLike
    <3>2. FollowSources(disk["paraphrased"].rows \cup disk["human_edited"].rows)
      BY DEF BuildExtended
    <3>3. Follows(corpus, disk[s].rows)
      BY <3>2 DEF FollowSources, Follows, Rewritten
    <3>4. Places(disk[s].rows) \subseteq Places(corpus)
      <4> DEFINE rows == disk[s].rows
      <4> HIDE DEF rows, corpus
      <4>1. CorpusLike(corpus) /\ Follows(corpus, rows) /\ \A x \in rows : StyledRow(x)
        BY <1>3, <3>1, <3>3 DEF rows
      <4>2. Places(rows) \subseteq Places(corpus)
        BY <4>1, FollowersPlaces
      <4> QED BY <4>2 DEF rows
    <3> QED BY <2>3, <3>4 DEF Places
  <2> QED BY <2>1, <2>2, <2>3 DEF AllRows, Styles, Rewritten
<1>15. ASSUME NEW p \in Partitions PROVE PartLike(p, Whole(extended(p), build, splices))
  <2>1. /\ Whole(extended(p), build, splices).rows = extended(p)
        /\ Whole(extended(p), build, splices).build = build
        /\ Whole(extended(p), build, splices).splices = splices
    BY DEF Whole
  <2>2. ASSUME p # "train", splices = build PROVE Told(extended(p))
    <3> SUFFICES ASSUME NEW r \in AllRows, r.part = p
                 PROVE  \E t \in AllRows : t.part = p /\ t.id[3] = "raw" /\ t.id[1] = r.q
      BY <2>2 DEF Told
    <3>1. PICK t \in corpus : t.q = r.q /\ t.part = r.part
      <4>1. <<r.q, r.part>> \in Places(corpus)
        BY <1>7, <2>2 DEF Places
      <4> HIDE DEF corpus
      <4> QED BY <4>1 DEF Places
    <3>2. t.id[3] = "raw" /\ t.id[1] = t.q
      BY <1>3, <3>1 DEF CorpusLike, SourceRow
    <3>3. t \in AllRows
      BY <3>1 DEF AllRows
    <3> QED BY <3>1, <3>2, <3>3
  <2> HIDE DEF extended, build, splices
  <2> QED BY <2>1, <2>2, <1>6 DEF PartLike
<1>8. ASSUME NEW p \in Partitions PROVE Fits(p, corpus, Whole(extended(p), build, splices))
  <2> HIDE DEF corpus
  <2>1. splices = build => Places(extended(p)) \subseteq Places(corpus)
    <3> HIDE DEF extended
    <3> QED BY <1>5, <1>7 DEF Places
  <2>2. p = "train" => extended(p) = train
    OBVIOUS
  <2>3. /\ Whole(extended(p), build, splices).rows = extended(p)
        /\ Whole(extended(p), build, splices).build = build
        /\ Whole(extended(p), build, splices).splices = splices
    BY DEF Whole
  <2>4. p \notin Rewritten
    BY DEF Rewritten, Partitions
  <2> HIDE DEF extended
  <2> QED BY <1>4, <2>1, <2>2, <2>3, <2>4 DEF Fits
<1> HIDE DEF extended
<1>9. writes \in Seq({writes[i] : i \in 1..3}) /\ DOMAIN writes = 1..3
  <2>1. writes = [i \in 1..3 |-> writes[i]]
    OBVIOUS
  <2> HIDE DEF writes
  <2> QED BY <2>1
<1>10. job' = writes /\ disk' = disk
  BY <1>1 DEF Start
<1>11. build \in 0..MaxBuilds
  BY DEF CorpusInv, Typed, Files
<1>12. \A i \in 1..3 : names[i] \in Partitions
  BY DEF Partitions
<1>13. ASSUME NEW i \in 1..3
       PROVE  /\ writes[i].file = names[i] /\ writes[i].holds = Whole(extended(names[i]), build, splices)
              /\ writes[i].holds.state = "whole" /\ writes[i].holds.build = build
              /\ writes[i].holds.rows = extended(names[i])
  <2>1. writes[i] = [file |-> names[i], holds |-> Whole(extended(names[i]), build, splices)]
    OBVIOUS
  <2> HIDE DEF writes, names
  <2> QED BY <2>1 DEF Whole
<1> HIDE DEF writes, names
<1>14. ASSUME NEW i \in 1..3 PROVE WriteOK(i)'
  <2>1. /\ names[i] \in Partitions /\ names[i] \in Files /\ names[i] # "corpus" /\ names[i] \notin Styles
        /\ \A j \in 1..3 : names[j] # "corpus"
    BY <1>12 DEF Partitions, Files, Styles
  <2>2. \A j \in 1..3 : writes[j].file # "corpus"
    BY <1>13, <2>1
  <2>3. PartLike(names[i], writes[i].holds) /\ Fits(names[i], corpus, writes[i].holds)
    BY <1>8, <1>13, <1>15, <2>1
  <2>4. Readable("corpus")' /\ disk'["corpus"].rows = corpus /\ disk'["corpus"].build = build
    BY <1>2, <1>10 DEF Readable
  <2> HIDE DEF build, corpus, splices
  <2> QED BY <1>9, <1>10, <1>11, <1>13, <2>1, <2>2, <2>3, <2>4 DEF WriteOK
<1> QED BY <1>1, <1>9, <1>14, Started

(* A file replaced: a corpus of a new build owes nothing to the files of the *)
(* old ones; any other file is of the corpus on disk.                        *)
LEMMA InvWrite == ASSUME CorpusInv, Write PROVE CorpusInv'
<1> DEFINE f == Head(job).file
           holds == Head(job).holds
           made == Styles \cup Partitions
<1>1. PICK S : job \in Seq(S)
  BY DEF CorpusInv, WritesOK
<1>2. job # <<>> /\ job' = Tail(job) /\ disk' = [disk EXCEPT ![f] = holds]
  BY DEF Write
<1>3. 1 \in DOMAIN job /\ Head(job) = job[1] /\ Tail(job) \in Seq(S)
      /\ DOMAIN Tail(job) = 1..(Len(job) - 1) /\ Len(job) \in Nat /\ DOMAIN job = 1..Len(job)
      /\ \A i \in 1..(Len(job) - 1) : Tail(job)[i] = job[i + 1]
  BY <1>1, <1>2
<1>4. WriteOK(1)
  BY <1>3 DEF CorpusInv, WritesOK
<1>5. /\ f \in Files /\ holds.state = "whole" /\ holds.build \in 0..MaxBuilds
      /\ f \in {"corpus"} \cup Styles => holds.splices = holds.build
  BY <1>3, <1>4 DEF WriteOK
<1>6. f = "corpus" => holds.build = disk["corpus"].build + 1 /\ CorpusLike(holds.rows)
  BY <1>3, <1>4 DEF WriteOK
<1>7. f \in made =>
         /\ \A j \in DOMAIN job : job[j].file # "corpus"
         /\ Readable("corpus") /\ holds.build = disk["corpus"].build
         /\ f \in Styles => StyleLike(f, holds.rows)
         /\ f \in Partitions => PartLike(f, holds)
         /\ Fits(f, disk["corpus"].rows, holds)
  BY <1>3, <1>4 DEF WriteOK
<1> HIDE DEF f, holds
<1>8. disk = [g \in Files |-> disk[g]] /\ disk["corpus"].build \in 0..MaxBuilds
  BY DEF CorpusInv, Typed, Files
<1>9. \A g \in Files : disk'[g] = IF g = f THEN holds ELSE disk[g]
  BY <1>2, <1>5, <1>8
<1>10. "corpus" \in Files /\ made \subseteq Files /\ "corpus" \notin made
  BY DEF Files, Styles, Partitions
<1>11. \A g \in made : disk[g].build <= disk["corpus"].build /\ disk[g].build \in 0..MaxBuilds
  BY <1>10 DEF CorpusInv, FilesOK, Typed
<1>12. Typed'
  <2>1. disk' = [g \in Files |-> disk'[g]]
    BY <1>2, <1>8
  <2> QED BY <2>1, <1>5, <1>9 DEF CorpusInv, Typed
<1>13. FilesOK'
  <2>1. Readable("corpus")' => CorpusLike(disk'["corpus"].rows)
    BY <1>6, <1>9, <1>10 DEF CorpusInv, FilesOK, Readable
  <2>2. /\ \A s \in Styles : StyleLike(s, disk'[s].rows)
        /\ \A p \in Partitions : PartLike(p, disk'[p])
    BY <1>7, <1>9, <1>10 DEF CorpusInv, FilesOK
  <2>3. \A g \in made : disk'[g].build <= disk'["corpus"].build
    BY <1>6, <1>7, <1>8, <1>9, <1>10, <1>11
  <2>4. \A g \in {"corpus"} \cup Styles : disk'[g].splices = disk'[g].build
    BY <1>5, <1>9, <1>10 DEF CorpusInv, FilesOK
  <2> QED BY <2>1, <2>2, <2>3, <2>4 DEF FilesOK, CorpusLike, StyleLike, Tidy, Told, PartLike
<1>14. SameBuildFits'
  <2> SUFFICES ASSUME NEW g \in made, Readable("corpus")', Readable(g)',
                      disk'[g].build = disk'["corpus"].build
               PROVE  Fits(g, disk'["corpus"].rows, disk'[g])
    BY DEF SameBuildFits, Fits, Follows, RawFits, RawAi, Ai, Sources, Places
  <2>1. CASE f = "corpus"
    BY <2>1, <1>6, <1>8, <1>9, <1>10, <1>11
  <2>2. CASE f # "corpus" /\ f = g
    BY <2>2, <1>7, <1>9, <1>10
  <2>3. CASE f # "corpus" /\ f # g
    BY <2>3, <1>9, <1>10 DEF CorpusInv, SameBuildFits, Readable
  <2> QED BY <2>1, <2>2, <2>3
<1>15. BuildsFair'
  <2> DEFINE all == {"corpus"} \cup made
  <2> SUFFICES ASSUME NEW n \in 1..MaxBuilds
               PROVE  \E places : /\ FairPlaces(places)
                                  /\ \A g \in all : OfBuild(g, n)' => Places(disk'[g].rows) \subseteq places
    BY DEF BuildsFair, FairPlaces, Places
  <2>1. PICK places : /\ FairPlaces(places)
                      /\ \A g \in all : OfBuild(g, n) => Places(disk[g].rows) \subseteq places
    BY DEF CorpusInv, BuildsFair
  <2>2. \A g \in all : g # f => (OfBuild(g, n)' <=> OfBuild(g, n)) /\ disk'[g] = disk[g]
    BY <1>9, <1>10 DEF OfBuild, Readable
  <2>3. \A g \in all : g = f => (OfBuild(g, n)' <=> holds.build = n /\ holds.splices = n) /\ disk'[g] = holds
    BY <1>5, <1>9, <1>10 DEF OfBuild, Readable
  <2>4. CASE f = "corpus"
    <3>1. CASE holds.build = n
      <4>1. \A g \in made : ~OfBuild(g, n)
        <5>1. n = disk["corpus"].build + 1
          BY <2>4, <3>1, <1>6
        <5>2. \A g \in made : disk[g].build # n
          BY <5>1, <1>8, <1>11
        <5> HIDE DEF made
        <5> QED BY <5>2 DEF OfBuild
      <4>2. FairPlaces(Places(holds.rows))
        BY <2>4, <1>6 DEF CorpusLike, Fair
      <4>3. \A g \in all : OfBuild(g, n)' => Places(disk'[g].rows) \subseteq Places(holds.rows)
        BY <2>2, <2>3, <2>4, <4>1, <1>10
      <4> QED BY <4>2, <4>3
    <3>2. CASE holds.build # n
      BY <2>1, <2>2, <2>3, <3>2
    <3> QED BY <3>1, <3>2
  <2>5. CASE f \in made
    <3>1. CASE holds.build = n /\ holds.splices = n
      <4>1. OfBuild("corpus", n)
        BY <2>5, <3>1, <1>7 DEF OfBuild, CorpusInv, FilesOK
      <4>2. Places(holds.rows) \subseteq Places(disk["corpus"].rows)
        BY <2>5, <3>1, <1>7 DEF Fits
      <4>3. Places(disk["corpus"].rows) \subseteq places
        BY <2>1, <4>1
      <4>4. \A g \in all : OfBuild(g, n)' => Places(disk'[g].rows) \subseteq places
        BY <2>1, <2>2, <2>3, <4>2, <4>3
      <4> QED BY <2>1, <4>4
    <3>2. CASE ~(holds.build = n /\ holds.splices = n)
      BY <2>1, <2>2, <2>3, <3>2
    <3> QED BY <3>1, <3>2
  <2>6. CASE f \notin all
    BY <2>1, <2>2, <2>6
  <2> QED BY <2>4, <2>5, <2>6
<1>16. WritesOK'
  <2>1. SUFFICES ASSUME NEW i \in 1..(Len(job) - 1) PROVE WriteOK(i)'
    BY <1>2, <1>3 DEF WritesOK
  <2>2. WriteOK(i + 1) /\ job'[i] = job[i + 1] /\ i + 1 # 1
    BY <1>2, <1>3, <2>1 DEF CorpusInv, WritesOK
  <2>3. job[i + 1].file # "corpus"
    BY <2>2 DEF WriteOK
  <2>4. \A j \in DOMAIN job' : \E k \in DOMAIN job : job'[j] = job[k]
    BY <1>2, <1>3
  <2>5. job[i + 1].file \in made => f # "corpus"
    BY <2>2, <1>3 DEF WriteOK, f
  <2>6. job[i + 1].file \in made => disk'["corpus"] = disk["corpus"]
    BY <2>5, <1>9, <1>10
  <2> QED BY <2>2, <2>3, <2>4, <2>6
          DEF WriteOK, Readable, Fits, Follows, RawFits, RawAi, Ai, Sources, Places, Tidy, Told, PartLike
<1> QED BY <1>12, <1>13, <1>14, <1>15, <1>16 DEF CorpusInv

(* A tool dies: what is half written is not read.                            *)
LEMMA InvDie == ASSUME CorpusInv, Die PROVE CorpusInv'
<1> DEFINE f == Head(job).file
           build == Head(job).holds.build
           made == Styles \cup Partitions
<1>1. PICK S : job \in Seq(S)
  BY DEF CorpusInv, WritesOK
<1>2. job # <<>> /\ job' = <<>>
  BY DEF Die
<1>3. 1 \in DOMAIN job /\ Head(job) = job[1]
  BY <1>1, <1>2
<1>4. WriteOK(1)
  BY <1>3 DEF CorpusInv, WritesOK
<1>5. /\ f \in Files /\ build \in 0..MaxBuilds
      /\ f = "corpus" => build = disk["corpus"].build + 1
      /\ f \in made => build = disk["corpus"].build
  BY <1>3, <1>4 DEF WriteOK
<1>6. disk' = disk \/ disk' = [disk EXCEPT ![f] = Torn(build)]
  BY DEF Die
<1>7. WritesOK'
  BY <1>2 DEF WritesOK
<1>8. CASE disk' = disk
  BY <1>7, <1>8, DiskKept DEF CorpusInv
<1>9. CASE disk' = [disk EXCEPT ![f] = Torn(build)]
  <2> HIDE DEF f, build
  <2>1. disk = [g \in Files |-> disk[g]] /\ disk["corpus"].build \in 0..MaxBuilds
    BY DEF CorpusInv, Typed, Files
  <2>2. /\ \A g \in Files : disk'[g] = IF g = f THEN Torn(build) ELSE disk[g]
        /\ disk' = [g \in Files |-> disk'[g]]
    BY <1>5, <1>9, <2>1
  <2>3. "corpus" \in Files /\ made \subseteq Files /\ "corpus" \notin made
    BY DEF Files, Styles, Partitions
  <2>4. /\ Torn(build).state = "torn" /\ Torn(build).rows = {}
        /\ Torn(build).build = build /\ Torn(build).splices = build
    BY DEF Torn
  <2>5. Typed'
    BY <1>5, <2>2, <2>4 DEF CorpusInv, Typed
  <2>6. FilesOK'
    <3>1. Readable("corpus")' => CorpusLike(disk'["corpus"].rows)
      BY <2>2, <2>3, <2>4 DEF CorpusInv, FilesOK, Readable
    <3>2. /\ \A s \in Styles : StyleLike(s, disk'[s].rows)
          /\ \A p \in Partitions : PartLike(p, disk'[p])
      BY <2>2, <2>3, <2>4, NoRows DEF CorpusInv, FilesOK
    <3>3. ASSUME NEW g \in made PROVE disk'[g].build <= disk'["corpus"].build
      <4>1. disk[g].build <= disk["corpus"].build /\ disk[g].build \in 0..MaxBuilds
        BY <2>3 DEF CorpusInv, FilesOK, Typed
      <4>2. CASE f = "corpus"
        BY <4>1, <4>2, <1>5, <2>1, <2>2, <2>3, <2>4
      <4>3. CASE f # "corpus"
        BY <4>1, <4>3, <1>5, <2>1, <2>2, <2>3, <2>4
      <4> QED BY <4>2, <4>3
    <3>4. \A g \in {"corpus"} \cup Styles : disk'[g].splices = disk'[g].build
      BY <2>2, <2>3, <2>4 DEF CorpusInv, FilesOK
    <3> QED BY <3>1, <3>2, <3>3, <3>4 DEF FilesOK, StyleLike, CorpusLike, Tidy, Told, PartLike
  <2>7. SameBuildFits'
    <3> SUFFICES ASSUME NEW g \in made, Readable("corpus")', Readable(g)',
                        disk'[g].build = disk'["corpus"].build
                 PROVE  Fits(g, disk'["corpus"].rows, disk'[g])
      BY DEF SameBuildFits, Fits, Follows, RawFits, RawAi, Ai, Sources, Places
    <3>1. f # "corpus" /\ f # g
      BY <2>2, <2>3, <2>4 DEF Readable
    <3> QED BY <3>1, <2>2, <2>3 DEF CorpusInv, SameBuildFits, Readable
  <2>8. BuildsFair'
    <3> DEFINE all == {"corpus"} \cup made
    <3>1. \A g \in all, n \in 1..MaxBuilds : OfBuild(g, n)' => OfBuild(g, n) /\ disk'[g] = disk[g]
      BY <2>2, <2>3, <2>4 DEF OfBuild, Readable
    <3>2. ASSUME NEW n \in 1..MaxBuilds
          PROVE  \E places : /\ FairPlaces(places)
                             /\ \A g \in all : OfBuild(g, n)' => Places(disk'[g].rows) \subseteq places
      <4>1. PICK places : /\ FairPlaces(places)
                          /\ \A g \in all : OfBuild(g, n) => Places(disk[g].rows) \subseteq places
        BY DEF CorpusInv, BuildsFair
      <4> HIDE DEF all
      <4> QED BY <3>1, <4>1
    <3> QED BY <3>2 DEF BuildsFair, FairPlaces, Places
  <2> QED BY <1>7, <2>5, <2>6, <2>7, <2>8 DEF CorpusInv
<1> QED BY <1>6, <1>8, <1>9

(* New sources change no file.                                               *)
LEMMA InvUnchanged == ASSUME CorpusInv, UNCHANGED <<disk, job>> PROVE CorpusInv'
<1>1. WritesOK'
  BY DEF CorpusInv, WritesOK, WriteOK, Readable
<1> QED BY <1>1, DiskKept DEF CorpusInv

(* Every step of the tools keeps the invariant.                              *)
LEMMA InvNext == ASSUME CorpusInv, [Next]_vars PROVE CorpusInv'
<1>1. CASE BuildCorpus
  BY <1>1, InvBuildCorpus
<1>2. CASE \E s \in Styles : AttachStyle(s)
  BY <1>2, InvAttach
<1>3. CASE BuildSpliced
  BY <1>3, InvSplice
<1>4. CASE \E force \in BOOLEAN : BuildExtended(force)
  BY <1>4, InvExtend
<1>5. CASE Write
  BY <1>5, InvWrite
<1>6. CASE Die
  BY <1>6, InvDie
<1>7. CASE NewSources \/ UNCHANGED vars
  BY <1>7, InvUnchanged DEF NewSources, vars
<1> QED BY <1>1, <1>2, <1>3, <1>4, <1>5, <1>6, <1>7 DEF Next

(* What is true of the files in every reachable state.                       *)
LEMMA CorpusAlways == Spec => []CorpusInv
<1>1. Init => CorpusInv
  BY InvInit
<1>2. CorpusInv /\ [Next]_vars => CorpusInv'
  BY InvNext
<1> QED BY <1>1, <1>2, PTL DEF Spec

(* The variables keep their types.                                           *)
THEOREM TypeTheorem == Spec => []TypeOK
<1>1. Init => revision \in DOMAIN Revisions
  BY CorpusAssumption DEF Init
<1>2. revision \in DOMAIN Revisions /\ [Next]_vars => (revision \in DOMAIN Revisions)'
  <2> SUFFICES ASSUME revision \in DOMAIN Revisions, [Next]_vars PROVE revision' \in DOMAIN Revisions
    OBVIOUS
  <2>1. CASE NewSources
    BY <2>1, CorpusAssumption DEF NewSources
  <2>2. CASE ~NewSources
    BY <2>2 DEF Next, vars, BuildCorpus, AttachStyle, BuildSpliced, BuildExtended, Start, Write, Die
  <2> QED BY <2>1, <2>2
<1>3. CorpusInv /\ revision \in DOMAIN Revisions => TypeOK
  BY DEF CorpusInv, Typed, WritesOK, WriteOK, TypeOK
<1>4. Spec => [](revision \in DOMAIN Revisions)
  BY <1>1, <1>2, PTL DEF Spec
<1> QED BY <1>3, <1>4, CorpusAlways, PTL

(* However the files were made and whichever writes were cut short, train    *)
(* never holds more human than AI answers to a question (cap_train_humans).  *)
THEOREM BalancedTheorem == Spec => []TrainNotMostlyHuman
<1>1. CorpusInv => TrainNotMostlyHuman
  <2> SUFFICES ASSUME CorpusInv, Readable("corpus") PROVE NotMostlyHuman(disk["corpus"].rows)
    BY DEF TrainNotMostlyHuman, NotMostlyHuman, InTrain, AnswersTo
  <2> QED BY DEF CorpusInv, FilesOK, CorpusLike
<1> QED BY <1>1, CorpusAlways, PTL

(* A paraphrase or a human edit of the build on disk stands in the partition *)
(* of the answer it was made from, also after a build that died half way.    *)
THEOREM StylesTheorem == Spec => []StylesFollowSources
<1>1. CorpusInv => StylesFollowSources
  <2> SUFFICES ASSUME CorpusInv, NEW s \in {"paraphrased", "human_edited"}, Readable("corpus"),
                      disk[s].build = disk["corpus"].build
               PROVE  FollowSources(disk[s].rows)
    BY DEF StylesFollowSources
  <2>1. CASE Readable(s)
    BY <2>1 DEF CorpusInv, SameBuildFits, Fits, Follows, FollowSources, Styles, Rewritten
  <2>2. CASE ~Readable(s)
    <3>1. disk[s].rows = {}
      BY <2>2 DEF CorpusInv, Typed, Readable, Files, Styles
    <3> QED BY <3>1 DEF FollowSources
  <2> QED BY <2>1, <2>2
<1> QED BY <1>1, CorpusAlways, PTL

(* The splicer gives up only when no choice of candidates would do: a flow   *)
(* that no path augments is cut off from what it lacks.                      *)
THEOREM SpliceTheorem == Spec => []SpliceStopsOnlyIfImpossible
<1>1. ASSUME CorpusInv PROVE SpliceStopsOnlyIfImpossible
  <2> DEFINE rows == disk["corpus"].rows
  <2>1. SUFFICES ASSUME Readable("corpus"), NEW p \in DOMAIN AnswersPerBand, NEW b \in Bands,
                        NEW choice \in [1..(CountsPerModel(rows)[p] * Cardinality(ModelsIn(rows)))
                                          -> Pool(rows, p, b)],
                        LET c == {choice[i] : i \in DOMAIN choice}
                        IN  /\ \A m \in ModelsIn(rows) : OfModel(c, m) = CountsPerModel(rows)[p]
                            /\ \A x \in c : OfBase(c, x[1]) <= MaxBaseUses
                 PROVE  \A m \in ModelsIn(rows) :
                            OfModel(Select(Pool(rows, p, b), CountsPerModel(rows)[p]), m) = CountsPerModel(rows)[p]
    BY DEF SpliceStopsOnlyIfImpossible
  <2> DEFINE best == {choice[i] : i \in DOMAIN choice}
             n == CountsPerModel(rows)[p]
             pool == Pool(rows, p, b)
             K == ModelsIn(rows)
  <2>2. CorpusLike(rows)
    BY <1>1, <2>1 DEF CorpusInv, FilesOK
  <2>3. /\ IsFiniteSet(pool) /\ K \in SUBSET Models /\ n \in Nat
        /\ \A x \in pool : x[2].gen \in K
    BY <2>2, PoolIs, CountsAre
  <2>4. best \in SUBSET pool
    OBVIOUS
  <2>5. (\A m \in K : OfModel(best, m) = n) /\ \A x \in best : OfBase(best, x[1]) <= MaxBaseUses
    BY <2>1
  <2>6. \A m \in K : OfModel(Select(pool, n), m) = n
    <3> HIDE DEF best, n, pool, K
    <3> QED BY <2>3, <2>4, <2>5, SelectIsMost
  <2> QED BY <2>6
<1> QED BY <1>1, CorpusAlways, PTL

(* The extended training set has an answer both raw and as a source only if *)
(* too few others were left (build_extended_corpus.py, clean and its else).  *)
THEOREM RawTheorem == Spec => []RawIsNotASource
<1>1. CorpusInv => RawIsNotASource
  <2> SUFFICES ASSUME CorpusInv, Readable("train"), Readable("corpus"),
                      disk["train"].build = disk["corpus"].build
               PROVE  RawFits(disk["corpus"].rows, disk["train"].rows)
    BY DEF RawIsNotASource, RawFits, RawAi
  <2> QED BY DEF CorpusInv, SameBuildFits, Fits, Partitions
<1> QED BY <1>1, CorpusAlways, PTL

(* The runs that score leave the files alone: what holds of the corpus tools *)
(* also holds with the runs and tables of Evaluation beside them.            *)
LEMMA EvaluationIsACorpus == EvaluationSpec => Spec
<1>1. EvaluationInit => Init
  BY DEF EvaluationInit
<1>2. [EvaluationNext]_evaluationVars => [Next]_vars
  BY DEF EvaluationNext, evaluationVars, vars, RunRadar, RunDesklibUntouched, RunRadarUntouched, RunDesklib, Scores
<1> QED BY <1>1, <1>2, PTL DEF EvaluationSpec, Spec

-----------------------------------------------------------------------------
(* Rows that a loader finds in one partition for each question are so.       *)
LEMMA OnePartitionMeans ==
    ASSUME NEW rows, IsFiniteSet(rows), OnePartition(rows)
    PROVE  OnePlace(rows)
<1> DEFINE place == [r \in rows |-> <<r.q, r.part>>]
           places == {<<r.q, r.part>> : r \in rows}
           asked == {r.q : r \in rows}
<1>1. Cardinality(places) = Cardinality(asked)
  BY DEF OnePartition, Single
<1>2. asked = {x[1] : x \in places}
  <2>1. \A r \in rows : <<r.q, r.part>>[1] = r.q
    OBVIOUS
  <2>2. \A r \in rows : r.q \in {x[1] : x \in places}
    BY <2>1
  <2>3. \A x \in places : x[1] \in asked
    OBVIOUS
  <2>4. \A q \in asked : q \in {x[1] : x \in places}
    BY <2>2
  <2> HIDE DEF places, asked
  <2> QED BY <2>3, <2>4
<1>3. IsFiniteSet(places)
  <2>1. \A r \in rows : place[r] = <<r.q, r.part>>
    OBVIOUS
  <2>2. places = {place[r] : r \in rows}
    <3> HIDE DEF place
    <3> QED BY <2>1
  <2> HIDE DEF place, places
  <2> QED BY <2>2, ImageFinite
<1>4. \A x, y \in places : x[1] = y[1] => x = y
  <2> HIDE DEF places, asked
  <2> QED BY <1>1, <1>2, <1>3, SingleMeans
<1>5. ASSUME NEW r \in rows, NEW t \in rows, r.q = t.q PROVE r.part = t.part
  <2>1. <<r.q, r.part>> \in places /\ <<t.q, t.part>> \in places
    OBVIOUS
  <2> HIDE DEF places
  <2>2. <<r.q, r.part>> = <<t.q, t.part>>
    BY <2>1, <1>4, <1>5
  <2> QED BY <2>2
<1> QED BY <1>5 DEF OnePlace

(* What the loaders accept keeps questions apart by their ids, and if it is  *)
(* of one build also what is alike.                                          *)
LEMMA LoadedIs ==
    ASSUME CorpusInv, NEW data \in {"extended", "combined"}, Loads(data)
    PROVE  /\ Tidy(Frames(data)) /\ OnePlace(Frames(data))
           /\ OneBuild(FilesOf(data)) =>
                /\ Fair(Frames(data))
                /\ \A p \in {"val", "test"} : Told(Frame(Frames(data), p))
<1>1. /\ \A f \in FilesOf(data) : f \in {"corpus"} \cup Styles \cup Partitions /\ Readable(f)
      /\ OnePartition(Frames(data))
      /\ Frames(data) = UNION {disk[f].rows : f \in FilesOf(data)}
  <2>1. CASE data = "extended"
    BY <2>1 DEF Loads, ExtendedLoads, FilesOf, Frames, Everything
  <2>2. CASE data = "combined"
    BY <2>2 DEF Loads, CombinedLoads, FilesOf, Frames, Combined, Styles
  <2> QED BY <2>1, <2>2
<1>2. \A f \in FilesOf(data) : Tidy(disk[f].rows)
  <2>1. \A r : SourceRow(r) \/ StyledRow(r) => (r.id[3] = "raw" => r.q = r.id[1])
    BY DEF SourceRow, StyledRow
  <2>2. \A rows : CorpusLike(rows) => Tidy(rows)
    BY <2>1 DEF CorpusLike, Tidy
  <2>3. \A t, rows : StyleLike(t, rows) => Tidy(rows)
    BY <2>1 DEF StyleLike, Tidy
  <2> QED BY <1>1, <2>2, <2>3 DEF CorpusInv, FilesOK, PartLike
<1>3. Tidy(Frames(data))
  <2>1. IsFiniteSet(Frames(data))
    <3>1. CASE data = "extended"
      <4>1. Frames(data) = (disk["train"].rows \cup disk["val"].rows) \cup disk["test"].rows
        BY <3>1, <1>1 DEF FilesOf, Partitions
      <4>2. IsFiniteSet(disk["train"].rows) /\ IsFiniteSet(disk["val"].rows) /\ IsFiniteSet(disk["test"].rows)
        BY <3>1, <1>2 DEF FilesOf, Partitions, Tidy
      <4> QED BY <4>1, <4>2, FS_Union
    <3>2. CASE data = "combined"
      <4>1. Frames(data) = disk["corpus"].rows \cup disk["spliced"].rows
        BY <3>2, <1>1 DEF FilesOf
      <4>2. IsFiniteSet(disk["corpus"].rows) /\ IsFiniteSet(disk["spliced"].rows)
        BY <3>2, <1>2 DEF FilesOf, Tidy
      <4> QED BY <4>1, <4>2, FS_Union
    <3> QED BY <3>1, <3>2
  <2> QED BY <2>1, <1>1, <1>2 DEF Tidy
<1>4. OnePlace(Frames(data))
  BY <1>1, <1>3, OnePartitionMeans DEF Tidy
<1>5. ASSUME NEW n \in 1..MaxBuilds, \A f \in FilesOf(data) : disk[f].build = n /\ disk[f].splices = n
      PROVE  Fair(Frames(data))
  <2>1. PICK places : /\ FairPlaces(places)
                      /\ \A f \in {"corpus"} \cup Styles \cup Partitions :
                            OfBuild(f, n) => Places(disk[f].rows) \subseteq places
    BY DEF CorpusInv, BuildsFair
  <2>2. \A f \in FilesOf(data) : Places(disk[f].rows) \subseteq places
    BY <1>1, <1>5, <2>1 DEF OfBuild
  <2>3. Places(Frames(data)) \subseteq places
    BY <1>1, <2>2 DEF Places
  <2> QED BY <2>1, <2>3 DEF Fair, FairPlaces
<1>6. ASSUME NEW n \in 1..MaxBuilds, \A f \in FilesOf(data) : disk[f].build = n /\ disk[f].splices = n,
             NEW p \in {"val", "test"}
      PROVE  Told(Frame(Frames(data), p))
  <2>1. CASE data = "extended"
    <3>1. Frame(Frames(data), p) = disk[p].rows
      BY <2>1 DEF Frame, Frames, Everything, Loads, ExtendedLoads, Partitions
    <3>2. PartLike(p, disk[p]) /\ disk[p].splices = disk[p].build
      BY <2>1, <1>6 DEF FilesOf, Partitions, CorpusInv, FilesOK
    <3> QED BY <3>1, <3>2 DEF PartLike
  <2>2. CASE data = "combined"
    <3>1. /\ Readable("corpus") /\ Readable("spliced") /\ disk["spliced"].build = disk["corpus"].build
          /\ disk["spliced"].splices = disk["spliced"].build
      BY <2>2, <1>1, <1>6 DEF FilesOf
    <3>2. Fits("spliced", disk["corpus"].rows, disk["spliced"]) /\ CorpusLike(disk["corpus"].rows)
      BY <3>1 DEF CorpusInv, SameBuildFits, FilesOK, Styles
    <3>3. Places(disk["spliced"].rows) \subseteq Places(disk["corpus"].rows)
      BY <3>1, <3>2 DEF Fits
    <3>4. Frames(data) = disk["corpus"].rows \cup disk["spliced"].rows
      BY <2>2 DEF Frames, Combined
    <3> DEFINE corpus == disk["corpus"].rows
               spliced == disk["spliced"].rows
    <3> HIDE DEF corpus, spliced
    <3>5. ASSUME NEW r \in corpus \cup spliced, r.part = p
          PROVE  \E t \in corpus : t.part = p /\ t.id[3] = "raw" /\ t.id[1] = r.q
      <4>1. <<r.q, r.part>> \in Places(corpus)
        BY <3>3 DEF Places, corpus, spliced
      <4>2. PICK t \in corpus : <<r.q, r.part>> = <<t.q, t.part>>
        BY <4>1 DEF Places
      <4>3. t.id[3] = "raw" /\ t.id[1] = t.q
        BY <3>2, <4>2 DEF CorpusLike, SourceRow, corpus
      <4> QED BY <3>5, <4>2, <4>3
    <3> QED BY <3>4, <3>5 DEF Told, Frame, corpus, spliced
  <2> QED BY <2>1, <2>2
<1> QED BY <1>3, <1>4, <1>5, <1>6 DEF OneBuild

(* The questions of the answers a run scored in a partition.                 *)
Asked(run, split) == {s.q : s \in {x \in run.scores : x.split = split}}
(* A run asks, in val and in test, nothing it was trained on, and in test    *)
(* nothing it asked in val: by id, and of files of one build in any words;   *)
(* of a combination that is said when its ids tell the questions apart.      *)
FairRun(run) ==
    /\ \A s \in run.scores : s.id[3] = "raw" => s.q = s.id[1]
    /\ run.known => /\ run.trained \cap (Asked(run, "val") \cup Asked(run, "test")) = {}
                    /\ Asked(run, "val") \cap Asked(run, "test") = {}
    /\ run.known /\ ~run.mixed => /\ Apart(run.trained, Asked(run, "val") \cup Asked(run, "test"))
                                 /\ Apart(Asked(run, "val"), Asked(run, "test"))
    /\ ~run.mixed => run.known /\ Named(run.scores)
RunsFair ==
    /\ runs = [tool \in Tools |-> runs[tool]]
    /\ \A tool \in Tools : FairRun(runs[tool]) /\ runs[tool].known

(* A run on what was loaded, trained on some of its train rows.              *)
LEMMA LoadedRunIsFair ==
    ASSUME CorpusInv, NEW data \in {"extended", "combined"}, Loads(data),
           NEW train, train \subseteq Frame(Frames(data), "train")
    PROVE  FairRun(Run(data, train)) /\ Run(data, train).known
<1> DEFINE rows == Frames(data)
           run == Run(data, train)
           placed(p) == {r.q : r \in Frame(rows, p)}
<1>1. /\ Tidy(rows) /\ OnePlace(rows)
      /\ OneBuild(FilesOf(data)) => Fair(rows) /\ \A p \in {"val", "test"} : Told(Frame(rows, p))
  BY LoadedIs
<1>2. /\ run.trained = {r.q : r \in train} /\ run.mixed = ~OneBuild(FilesOf(data)) /\ run.known
      /\ run.scores = ScoreRows(rows, "val") \cup ScoreRows(rows, "test")
  BY DEF Run
<1> HIDE DEF rows, run
<1>3. run.trained \subseteq placed("train")
  BY <1>2 DEF rows
<1>4. \A s \in run.scores : s.id[3] = "raw" => s.q = s.id[1]
  BY <1>1, <1>2 DEF ScoreRows, Frame, Tidy
<1>0. ASSUME ~run.mixed, NEW s \in run.scores
      PROVE  \E t \in run.scores : t.split = s.split /\ t.id[3] = "raw" /\ t.id[1] = s.q
  <2>1. PICK p \in {"val", "test"} : s \in ScoreRows(rows, p)
    BY <1>2
  <2>2. PICK r \in Frame(rows, p) : s.q = r.q /\ s.split = p
    BY <2>1 DEF ScoreRows
  <2>3. PICK u \in Frame(rows, p) : u.id[3] = "raw" /\ u.id[1] = r.q
    BY <1>0, <1>1, <1>2, <2>2 DEF Told
  <2> DEFINE t == [id |-> u.id, q |-> u.q, split |-> p, human |-> u.slice = "human"]
  <2>4. t \in run.scores
    BY <1>2, <2>3 DEF ScoreRows
  <2> QED BY <2>2, <2>3, <2>4
<1>5. Asked(run, "val") \subseteq placed("val") /\ Asked(run, "test") \subseteq placed("test")
  BY <1>2 DEF Asked, ScoreRows
<1>6. \A p, t : p # t => placed(p) \cap placed(t) = {}
  BY <1>1 DEF OnePlace, Frame
<1>7. ASSUME Fair(rows), NEW p, NEW t, p # t PROVE Apart(placed(p), placed(t))
  <2> SUFFICES ASSUME NEW r \in Frame(rows, p), NEW u \in Frame(rows, t) PROVE ~Alike(r.q, u.q)
    BY DEF Apart
  <2>1. r \in rows /\ u \in rows /\ r.part = p /\ u.part = t
    BY DEF Frame
  <2>2. <<r.q, r.part>> \in Places(rows) /\ <<u.q, u.part>> \in Places(rows)
    BY <2>1 DEF Places
  <2> QED BY <1>7, <2>1, <2>2 DEF Fair, FairPlaces
<1> HIDE DEF placed
<1>8. ~run.mixed => /\ Apart(run.trained, Asked(run, "val") \cup Asked(run, "test"))
                   /\ Apart(Asked(run, "val"), Asked(run, "test"))
  <2> SUFFICES ASSUME ~run.mixed
               PROVE  /\ Apart(run.trained, Asked(run, "val") \cup Asked(run, "test"))
                      /\ Apart(Asked(run, "val"), Asked(run, "test"))
    OBVIOUS
  <2>1. Fair(rows)
    BY <1>1, <1>2
  <2>2. /\ Apart(placed("train"), placed("val")) /\ Apart(placed("train"), placed("test"))
        /\ Apart(placed("val"), placed("test"))
    BY <2>1, <1>7
  <2> QED BY <2>2, <1>3, <1>5 DEF Apart
<1>9. /\ run.trained \cap (Asked(run, "val") \cup Asked(run, "test")) = {}
      /\ Asked(run, "val") \cap Asked(run, "test") = {}
  <2>1. /\ placed("train") \cap placed("val") = {} /\ placed("train") \cap placed("test") = {}
        /\ placed("val") \cap placed("test") = {}
    BY <1>6
  <2> QED BY <2>1, <1>3, <1>5
<1> QED BY <1>0, <1>2, <1>4, <1>8, <1>9 DEF FairRun, Named, run

(* Balancing the classes only takes answers away.                            *)
LEMMA BalancedIn ==
    ASSUME NEW train, IsFiniteSet(train)
    PROVE  Balanced(train) \subseteq train
<1> DEFINE h == Human(train) a == Ai(train)
           n == Least(Cardinality(h), Cardinality(a))
<1>1. h \subseteq train /\ a \subseteq train /\ IsFiniteSet(h) /\ IsFiniteSet(a)
  BY FS_Subset DEF Human, Ai
<1>2. Balanced(train) = Draw(h, n) \cup Draw(a, n)
  BY DEF Balanced
<1> HIDE DEF h, a
<1>3. n \in 0..Cardinality(h) /\ n \in 0..Cardinality(a)
  BY <1>1, FS_CardinalityType DEF Least
<1> HIDE DEF n
<1> QED BY <1>1, <1>2, <1>3, Drawn

(* A run that scores is fair, and the runs before it stay.                   *)
LEMMA ScoredFair ==
    ASSUME RunsFair, NEW tool \in Tools, NEW data, NEW run, Scores(tool, data, run),
           FairRun(run), run.known
    PROVE  RunsFair'
<1>1. runs = [t \in Tools |-> runs[t]] /\ runs' = [runs EXCEPT ![tool] = run]
  BY DEF RunsFair, Scores
<1>2. \A t \in Tools : runs'[t] = IF t = tool THEN run ELSE runs[t]
  BY <1>1
<1>3. runs' = [t \in Tools |-> runs'[t]]
  BY <1>1
<1>4. \A t \in Tools : FairRun(runs'[t]) /\ runs'[t].known
  BY <1>2 DEF RunsFair
<1> QED BY <1>3, <1>4 DEF RunsFair, FairRun, Asked, Apart, Named

(* Every step keeps the runs fair.                                           *)
LEMMA RunsStayFair ==
    ASSUME CorpusInv, RunsFair, [EvaluationNext]_evaluationVars
    PROVE  RunsFair'
<1>1. CASE UNCHANGED runs
  BY <1>1 DEF RunsFair
<1>2. ASSUME NEW data \in {"extended", "combined"}, RunRadar(data) PROVE RunsFair'
  <2> DEFINE train == Frame(Frames(data), "train")
  <2>1. Scores("radar", data, Run(data, train)) /\ Loads(data)
    BY <1>2 DEF RunRadar, Scores
  <2>2. FairRun(Run(data, train)) /\ Run(data, train).known
    BY <2>1, LoadedRunIsFair
  <2> HIDE DEF train
  <2> QED BY <2>1, <2>2, ScoredFair DEF Tools
<1>3. ASSUME NEW data \in {"extended", "combined"}, RunDesklib(data) PROVE RunsFair'
  <2> DEFINE all == Frame(Frames(data), "train")
             train == Balanced(all)
  <2>1. Scores("desklib", data, Run(data, train)) /\ Loads(data)
    BY <1>3 DEF RunDesklib, Scores
  <2>2. IsFiniteSet(all)
    <3>1. IsFiniteSet(Frames(data))
      BY <2>1, LoadedIs DEF Tidy
    <3> QED BY <3>1, FS_Subset DEF Frame
  <2>3. train \subseteq all
    BY <2>2, BalancedIn
  <2>4. FairRun(Run(data, train)) /\ Run(data, train).known
    BY <2>1, <2>3, LoadedRunIsFair
  <2> HIDE DEF train
  <2> QED BY <2>1, <2>4, ScoredFair DEF Tools
<1>4. ASSUME NEW data \in {"extended", "combined"}, RunDesklibUntouched(data) \/ RunRadarUntouched(data)
      PROVE  RunsFair'
  <2>1. Scores("untouched", data, Run(data, {})) /\ Loads(data)
    BY <1>4 DEF RunDesklibUntouched, RunRadarUntouched, Scores
  <2>2. FairRun(Run(data, {})) /\ Run(data, {}).known
    BY <2>1, LoadedRunIsFair
  <2> QED BY <2>1, <2>2, ScoredFair DEF Tools
<1> QED BY <1>1, <1>2, <1>3, <1>4 DEF EvaluationNext, evaluationVars

(* Rows with the same ids ask the same questions, when the ids tell them.     *)
IdsTell(R) == \A s \in R : s.id[3] = "raw" => s.q = s.id[1]
IdsAmong(R, S, split) == \A s \in R : s.split = split => \E t \in S : t.split = split /\ t.id = s.id
AskedAmong(R, S, split) == \A s \in R : s.split = split => \E t \in S : t.split = split /\ t.q = s.q
LEMMA NamedAskTheSame ==
    ASSUME NEW R, NEW S, NEW split, Named(R), IdsTell(R), IdsTell(S), IdsAmong(R, S, split)
    PROVE  AskedAmong(R, S, split)
<1> SUFFICES ASSUME NEW s \in R, s.split = split PROVE \E t \in S : t.split = split /\ t.q = s.q
  BY DEF AskedAmong
<1>1. PICK u \in R : u.split = split /\ u.id[3] = "raw" /\ u.id[1] = s.q
  BY DEF Named
<1>2. PICK t \in S : t.split = split /\ t.id = u.id
  BY <1>1 DEF IdsAmong
<1> QED BY <1>1, <1>2 DEF IdsTell

(* The combination of two runs on the same ids is a fair run too.            *)
LEMMA CombinationIsFair ==
    ASSUME NEW a, NEW b, FairRun(a), FairRun(b), a.known, b.known, Matched(a.scores) = Matched(b.scores)
    PROVE  FairRun(WriteCombination(a, b))
<1> DEFINE c == WriteCombination(a, b)
<1>1. /\ c.trained = a.trained \cup b.trained /\ c.scores = a.scores /\ c.mixed = (a.mixed \/ b.mixed)
      /\ c.known = (Named(a.scores) /\ Named(b.scores))
  BY DEF WriteCombination
<1>2. ASSUME c.known, NEW split PROVE Asked(c, split) = Asked(a, split) /\ Asked(b, split) = Asked(a, split)
  <2>1. \A s \in a.scores : \E t \in b.scores : t.split = s.split /\ t.id = s.id
    <3> TAKE s \in a.scores
    <3>1. [id |-> s.id, split |-> s.split, human |-> s.human] \in Matched(b.scores)
      BY DEF Matched
    <3>2. PICK t \in b.scores : [id |-> s.id, split |-> s.split, human |-> s.human]
                                 = [id |-> t.id, split |-> t.split, human |-> t.human]
      BY <3>1 DEF Matched
    <3> QED BY <3>2
  <2>2. \A s \in b.scores : \E t \in a.scores : t.split = s.split /\ t.id = s.id
    <3> TAKE s \in b.scores
    <3>1. [id |-> s.id, split |-> s.split, human |-> s.human] \in Matched(a.scores)
      BY DEF Matched
    <3>2. PICK t \in a.scores : [id |-> s.id, split |-> s.split, human |-> s.human]
                                 = [id |-> t.id, split |-> t.split, human |-> t.human]
      BY <3>1 DEF Matched
    <3> QED BY <3>2
  <2> DEFINE R == a.scores S == b.scores
  <2>3. IdsTell(R) /\ IdsTell(S) /\ Named(R) /\ Named(S)
    BY <1>1, <1>2 DEF FairRun, IdsTell
  <2>4. IdsAmong(R, S, split) /\ IdsAmong(S, R, split)
    BY <2>1, <2>2 DEF IdsAmong
  <2> HIDE DEF R, S, c
  <2>5. AskedAmong(R, S, split) /\ AskedAmong(S, R, split)
    BY <2>3, <2>4, NamedAskTheSame
  <2> QED BY <2>5, <1>1 DEF Asked, AskedAmong, R, S
<1> HIDE DEF c
<1>3. ~c.mixed => ~a.mixed /\ ~b.mixed
  BY <1>1
<1>4. c.known /\ ~c.mixed => /\ Apart(c.trained, Asked(c, "val") \cup Asked(c, "test"))
                            /\ Apart(Asked(c, "val"), Asked(c, "test"))
  BY <1>1, <1>2, <1>3 DEF FairRun, Apart
<1>5. c.known => /\ c.trained \cap (Asked(c, "val") \cup Asked(c, "test")) = {}
                /\ Asked(c, "val") \cap Asked(c, "test") = {}
  BY <1>1, <1>2 DEF FairRun
<1>6. \A s \in c.scores : s.id[3] = "raw" => s.q = s.id[1]
  BY <1>1 DEF FairRun
<1>7. ~c.mixed => c.known /\ Named(c.scores)
  BY <1>1, <1>3 DEF FairRun
<1> QED BY <1>4, <1>5, <1>6, <1>7 DEF FairRun, c

(* What a row of a table must not mix.                                       *)
FairRow(row) ==
    /\ row.known => row.trained \cap (row.fitted \cup row.measured) = {} /\ row.fitted \cap row.measured = {}
    /\ row.known /\ ~row.mixed => Apart(row.trained, row.fitted \cup row.measured) /\ Apart(row.fitted, row.measured)
    /\ ~row.mixed /\ row.whole => row.known

(* The row of a fair run is fair, whatever answers are left out.             *)
LEMMA ModelRowIsFair ==
    ASSUME NEW run, FairRun(run), NEW dropped
    PROVE  FairRow(EvaluateModel(run, dropped))
<1> DEFINE row == EvaluateModel(run, dropped)
<1>1. /\ row.trained = run.trained /\ row.mixed = run.mixed /\ row.known = run.known
      /\ row.fitted \subseteq Asked(run, "val") /\ row.measured \subseteq Asked(run, "test")
  BY DEF EvaluateModel, RowsOf, AsksOf, Asked
<1> HIDE DEF row
<1>2. row.known /\ ~row.mixed => Apart(row.trained, row.fitted \cup row.measured) /\ Apart(row.fitted, row.measured)
  BY <1>1 DEF FairRun, Apart
<1>3. row.known => row.trained \cap (row.fitted \cup row.measured) = {} /\ row.fitted \cap row.measured = {}
  BY <1>1 DEF FairRun
<1>4. ~row.mixed => row.known
  BY <1>1 DEF FairRun
<1> QED BY <1>2, <1>3, <1>4 DEF FairRow, row

(* So is that of two compared: where the ids tell the questions, both were   *)
(* measured on the same ones.                                                *)
LEMMA PairRowIsFair ==
    ASSUME NEW a, NEW b, FairRun(a), FairRun(b), NEW dropped, Comparable(a, b, dropped)
    PROVE  FairRow(ComparePair(a, b, dropped))
<1> DEFINE row == ComparePair(a, b, dropped)
           R == RowsOf(a, "test", dropped)
           S == RowsOf(b, "test", dropped)
<1>1. /\ row.trained = a.trained \cup b.trained /\ row.mixed = (a.mixed \/ b.mixed)
      /\ row.fitted = {} /\ row.measured = AsksOf(R) \cup AsksOf(S) /\ row.whole = (dropped = {})
      /\ row.known = (a.known /\ b.known /\ Named(R) /\ Named(S))
  <2>1. {RowsOf(run, "test", dropped) : run \in {a, b}} = {R, S}
    OBVIOUS
  <2>2. AsksOf(UNION {R, S}) = AsksOf(R) \cup AsksOf(S)
    <3> HIDE DEF R, S
    <3> QED BY DEF AsksOf
  <2> HIDE DEF R, S
  <2> QED BY <2>1, <2>2 DEF ComparePair
<1>2. AsksOf(R) \subseteq Asked(a, "test") /\ AsksOf(S) \subseteq Asked(b, "test")
  BY DEF RowsOf, AsksOf, Asked
<1>3. /\ \A s \in R : \E t \in S : t.id = s.id
      /\ \A s \in S : \E t \in R : t.id = s.id
  <2>1. {s.id : s \in R} = {s.id : s \in S}
    BY DEF Comparable
  <2> HIDE DEF R, S
  <2> QED BY <2>1
<1>4. /\ \A s \in R \cup S : s.split = "test"
      /\ IdsTell(R) /\ IdsTell(S)
  BY DEF RowsOf, FairRun, IdsTell
<1>5. ~row.mixed /\ dropped = {} => Named(R) /\ Named(S)
  <2>1. ~row.mixed => Named(a.scores) /\ Named(b.scores)
    BY <1>1 DEF FairRun
  <2> QED BY <2>1 DEF RowsOf, Named
<1> HIDE DEF row, R, S
<1>6. row.known => AsksOf(R) = AsksOf(S)
  <2> SUFFICES ASSUME Named(R), Named(S) PROVE AsksOf(R) = AsksOf(S)
    BY <1>1
  <2>1. IdsAmong(R, S, "test") /\ IdsAmong(S, R, "test")
    BY <1>3, <1>4 DEF IdsAmong
  <2>2. AskedAmong(R, S, "test") /\ AskedAmong(S, R, "test")
    BY <1>4, <2>1, NamedAskTheSame
  <2> QED BY <1>4, <2>2 DEF AsksOf, AskedAmong
<1>7. row.known => row.measured \subseteq Asked(a, "test") /\ row.measured \subseteq Asked(b, "test")
  BY <1>1, <1>2, <1>6
<1>8. row.known /\ ~row.mixed => Apart(row.trained, row.fitted \cup row.measured) /\ Apart(row.fitted, row.measured)
  BY <1>1, <1>7 DEF FairRun, Apart
<1>9. row.known => row.trained \cap (row.fitted \cup row.measured) = {} /\ row.fitted \cap row.measured = {}
  BY <1>1, <1>7 DEF FairRun
<1>10. ~row.mixed /\ row.whole => row.known
  BY <1>1, <1>5 DEF FairRun
<1> QED BY <1>8, <1>9, <1>10 DEF FairRow, row

(* With fair files and fair runs every row of every table is fair.           *)
LEMMA TableIsFair ==
    ASSUME RunsFair, NEW row \in Table
    PROVE  FairRow(row)
<1> DEFINE a == TunedRows("radar") b == TunedRows("desklib")
           files == {runs[tool] : tool \in Tools} \cup (IF PairRows(a, b) THEN {WriteCombination(a, b)} ELSE {})
           loaded == {run \in files : LoadRun(run)}
<1>1. FairRun(a) /\ FairRun(b) /\ a.known /\ b.known
  BY DEF TunedRows, RunsFair, Tools
<1>2. PairRows(a, b) => FairRun(WriteCombination(a, b))
  BY <1>1, CombinationIsFair DEF PairRows
<1>3. row \in CompareModels(loaded) \cup
         {ComparePair(x[1], x[2], x[3]) :
             x \in {y \in loaded \X loaded \X Filters : Comparable(y[1], y[2], y[3])}}
  BY DEF Table
<1> HIDE DEF a, b
<1>4. \A run \in loaded : FairRun(run)
  BY <1>2 DEF RunsFair
<1> HIDE DEF loaded
<1>5. CASE row \in CompareModels(loaded)
  <2>1. PICK x \in loaded \X Filters : row = EvaluateModel(x[1], x[2])
    BY <1>5 DEF CompareModels
  <2> QED BY <2>1, <1>4, ModelRowIsFair
<1>6. CASE \E x \in loaded \X loaded \X Filters :
               Comparable(x[1], x[2], x[3]) /\ row = ComparePair(x[1], x[2], x[3])
  <2>1. PICK a1 \in loaded, b1 \in loaded, dropped \in Filters :
           Comparable(a1, b1, dropped) /\ row = ComparePair(a1, b1, dropped)
    BY <1>6
  <2> QED BY <2>1, <1>4, PairRowIsFair
<1> QED BY <1>3, <1>5, <1>6

(* What a question asks never reaches training and evaluation both: not in   *)
(* what the loaders accept of one build (combined_data.py), not in rewritten *)
(* answers tested beside it, and not in a table of runs made on several      *)
(* builds (harness.py, ensemble_scores.py) that match by ids alone, as far   *)
(* as the ids tell the questions apart.                                      *)
THEOREM MeasuredTheorem == EvaluationSpec => []NothingMeasuredWasSeen
<1>1. EvaluationInit => RunsFair
  BY DEF EvaluationInit, RunsFair, FairRun, NoRun, Asked, Apart, Named
<1>2. CorpusInv /\ RunsFair /\ [EvaluationNext]_evaluationVars => RunsFair'
  BY RunsStayFair
<1>3. CorpusInv /\ RunsFair => NothingMeasuredWasSeen
  <2> SUFFICES ASSUME CorpusInv, RunsFair PROVE NothingMeasuredWasSeen
    OBVIOUS
  <2>1. \A data \in {"extended", "combined"} : Loads(data) /\ OneBuild(FilesOf(data)) => Fair(Frames(data))
    BY LoadedIs
  <2>2. SplitsLoad => Fair(disk["corpus"].rows)
    BY DEF SplitsLoad, CorpusInv, FilesOK, CorpusLike
  <2>3. ASSUME CombinedLoads, OneBuild({"corpus", "spliced"} \cup Rewritten) PROVE Fair(Combined \cup Robustness)
    <3>1. PICK n \in 1..MaxBuilds :
             \A f \in {"corpus", "spliced"} \cup Rewritten : disk[f].build = n /\ disk[f].splices = n
      BY <2>3 DEF OneBuild
    <3>2. PICK places : /\ FairPlaces(places)
                        /\ \A f \in {"corpus"} \cup Styles \cup Partitions :
                              OfBuild(f, n) => Places(disk[f].rows) \subseteq places
      BY DEF CorpusInv, BuildsFair
    <3>3. ASSUME NEW f \in {"corpus", "spliced"} \cup Rewritten PROVE Places(disk[f].rows) \subseteq places
      <4>1. f \in {"corpus"} \cup Styles /\ f \in Files
        BY DEF Styles, Rewritten, Files
      <4>2. CASE Readable(f)
        BY <4>1, <4>2, <3>1, <3>2 DEF OfBuild
      <4>3. CASE ~Readable(f)
        <5>1. disk[f].rows = {}
          BY <4>1, <4>3 DEF CorpusInv, Typed, Readable
        <5> QED BY <5>1 DEF Places
      <4> QED BY <4>2, <4>3
    <3>4. Combined \cup Robustness \subseteq UNION {disk[f].rows : f \in {"corpus", "spliced"} \cup Rewritten}
      BY DEF Combined, Robustness, Frame, Rewritten
    <3>5. Places(Combined \cup Robustness) \subseteq places
      <4> SUFFICES ASSUME NEW r \in Combined \cup Robustness PROVE <<r.q, r.part>> \in places
        BY DEF Places
      <4>1. PICK f \in {"corpus", "spliced"} \cup Rewritten : r \in disk[f].rows
        BY <3>4
      <4> QED BY <4>1, <3>3 DEF Places
    <3> QED BY <3>2, <3>5 DEF Fair, FairPlaces
  <2>4. \A row \in Table : FairRow(row)
    BY TableIsFair
  <2> QED BY <2>1, <2>2, <2>3, <2>4 DEF NothingMeasuredWasSeen, FairRow
<1> QED BY <1>1, <1>2, <1>3, EvaluationIsACorpus, CorpusAlways, PTL DEF EvaluationSpec
=============================================================================
