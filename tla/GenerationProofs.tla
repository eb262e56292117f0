--------------------------- MODULE GenerationProofs ---------------------------
(* Theorems about the paid runs (Generation) and the tools around them       *)
(* (Edits), for any generators, plans, strata, sheets, stops and numbers of   *)
(* runs: an answer is bought once, a resumed run makes what the first attempt *)
(* would have made, and the files built from the answers hold each once.      *)
EXTENDS Edits, FiniteSetTheorems, SequenceTheorems, TLAPS

(* ------------------------- the plan and its sample ------------------------ *)
(* Division with a remainder.                                                 *)
LEMMA Division ==
    ASSUME NEW n \in Nat \ {0}, NEW a \in Nat
    PROVE  /\ a \div n \in Nat /\ a % n \in Nat /\ a % n < n
           /\ a = n * (a \div n) + (a % n)
OBVIOUS

LEMMA DivisionBound ==
    ASSUME NEW n \in Nat \ {0}, NEW m \in Nat, NEW a \in Nat, a < m * n
    PROVE  a \div n < m
<1> SUFFICES ASSUME a \div n >= m PROVE FALSE
  BY Division
<1>1. \A q, x \in Nat : q >= x => n * q >= x * n
  OBVIOUS
<1>2. n * (a \div n) >= m * n
  BY <1>1, Division
<1>3. \A x, y, z \in Nat : x = y + z => x >= y
  OBVIOUS
<1>4. n * (a \div n) \in Nat /\ m * n \in Nat
  BY Division
<1> QED BY <1>2, <1>3, <1>4, Division

Rank(S, s) == Cardinality({r \in S : r <= s})

(* Members of a finite set of numbers have different ranks, 1 to its size.    *)
LEMMA RankInto ==
    ASSUME NEW S \in SUBSET Int, IsFiniteSet(S)
    PROVE  /\ Cardinality(S) \in Nat
           /\ \A s \in S : Rank(S, s) \in 1..Cardinality(S)
           /\ \A s, t \in S : Rank(S, s) = Rank(S, t) => s = t
<1>1. \A s \in S : IsFiniteSet({r \in S : r <= s}) /\ {r \in S : r <= s} \in SUBSET S
  BY FS_Subset
<1>2. \A T \in SUBSET S : IsFiniteSet(T) /\ Cardinality(T) \in Nat /\ Cardinality(T) <= Cardinality(S)
  BY FS_Subset, FS_CardinalityType
<1>3. ASSUME NEW s \in S PROVE Rank(S, s) \in 1..Cardinality(S)
  <2> DEFINE T == {r \in S : r <= s}
  <2>1. s \in T /\ T \in SUBSET S
    OBVIOUS
  <2>2. Cardinality(T) # 0
    BY <2>1, <1>2, FS_EmptySet
  <2>3. Cardinality(T) \in Nat /\ Cardinality(T) <= Cardinality(S) /\ Cardinality(S) \in Nat
    BY <2>1, <1>2
  <2>4. Rank(S, s) = Cardinality(T)
    BY DEF Rank
  <2> HIDE DEF T
  <2> QED BY <2>2, <2>3, <2>4
<1>4. ASSUME NEW s \in S, NEW t \in S, s < t PROVE Rank(S, s) # Rank(S, t)
  <2>i. \A x \in S : x \in Int
    OBVIOUS
  <2> DEFINE A == {r \in S : r <= s}
             B == {r \in S : r <= t}
  <2>1. A \in SUBSET B /\ t \in B /\ t \notin A /\ B \in SUBSET S
    <3>1. s \in Int /\ t \in Int /\ ~(t <= s) /\ t <= t
      BY <1>4, <2>i
    <3>2. \A r \in S : r <= s => r <= t
      <4>1. \A r, x, y \in Int : r <= x /\ x < y => r <= y
        OBVIOUS
      <4> QED BY <4>1, <1>4, <2>i
    <3> QED BY <3>1, <3>2
  <2>2. IsFiniteSet(B)
    BY <2>1, <1>2
  <2>3. Cardinality(A) # Cardinality(B)
    <3> HIDE DEF A, B
    <3> QED BY <2>1, <2>2, FS_Subset
  <2> QED BY <2>3 DEF Rank
<1>5. \A s, t \in S : s # t => s < t \/ t < s
  OBVIOUS
<1> QED BY <1>2, <1>3, <1>4, <1>5

(* Every rank is somebody's.                                                  *)
LEMMA NthHasRank ==
    ASSUME NEW S \in SUBSET Int, IsFiniteSet(S), NEW k \in 1..Cardinality(S)
    PROVE  Nth(S, k) \in S /\ Rank(S, Nth(S, k)) = k
<1> DEFINE n == Cardinality(S)
           f == [s \in S |-> Rank(S, s)]
<1>1. n \in Nat /\ IsFiniteSet(1..n) /\ Cardinality(1..n) = n
  BY RankInto, FS_Interval
<1>2. f \in Injection(S, 1..n)
  BY RankInto DEF Injection, IsInjective
<1>3. f \in Surjection(S, 1..n)
  <2> HIDE DEF f
  <2> QED BY <1>1, <1>2, FS_Injection
<1>4. \E s \in S : Rank(S, s) = k
  BY <1>3 DEF Surjection
<1> QED BY <1>4 DEF Nth, Rank

(* A plan asks for nothing twice, and for nothing out of the configuration.   *)
Distinct(s) == \A i, j \in DOMAIN s : s[i] = s[j] => i = j
LEMMA PlanTyped ==
    ASSUME NEW config \in Seq(Generators), NEW S \in SUBSET Sources,
           \A i, j \in DOMAIN config : config[i] = config[j] => i = j
    PROVE  /\ PlanOf(config, S) \in Seq(Ids)
           /\ Distinct(PlanOf(config, S))
           /\ \A k \in DOMAIN PlanOf(config, S) :
                 \E m \in DOMAIN config : PlanOf(config, S)[k][1] = config[m]
<1> DEFINE n == Cardinality(S)
           L == Len(config) * n
<1>1. IsFiniteSet(S) /\ S \in SUBSET Int /\ n \in Nat
  <2>1. Cardinality(Sources) \in Nat
    BY GenerationAssumption, FS_CardinalityType
  <2>2. Sources \subseteq Int
    BY <2>1, GenerationAssumption
  <2>3. IsFiniteSet(S)
    BY GenerationAssumption, FS_Subset
  <2> QED BY <2>2, <2>3, FS_CardinalityType
<1>2. Len(config) \in Nat /\ L \in Nat
  BY <1>1
<1>3. PlanOf(config, S) = [k \in 1..L |-> <<config[((k - 1) \div n) + 1], Nth(S, ((k - 1) % n) + 1)>>]
  BY DEF PlanOf
<1>4. ASSUME NEW k \in 1..L
      PROVE  /\ n \in Nat \ {0}
             /\ (k - 1) \div n \in Nat /\ (k - 1) % n \in Nat
             /\ k - 1 = n * ((k - 1) \div n) + ((k - 1) % n)
             /\ ((k - 1) \div n) + 1 \in 1..Len(config)
             /\ ((k - 1) % n) + 1 \in 1..n
  <2>1. n # 0
    BY <1>1, <1>2
  <2>2. k - 1 \in Nat /\ k - 1 < Len(config) * n
    BY <1>2
  <2>3. (k - 1) \div n < Len(config)
    BY <2>1, <2>2, <1>1, <1>2, DivisionBound
  <2>4. /\ (k - 1) \div n \in Nat /\ (k - 1) % n \in Nat /\ (k - 1) % n < n
        /\ k - 1 = n * ((k - 1) \div n) + ((k - 1) % n)
    BY <2>1, <2>2, <1>1, Division
  <2> HIDE DEF n, L
  <2> QED BY <2>1, <2>3, <2>4, <1>1, <1>2
<1>5. \A k \in 1..L : Nth(S, ((k - 1) % n) + 1) \in S /\ Rank(S, Nth(S, ((k - 1) % n) + 1)) = ((k - 1) % n) + 1
  BY <1>1, <1>4, NthHasRank
<1>6. \A k \in 1..L : <<config[((k - 1) \div n) + 1], Nth(S, ((k - 1) % n) + 1)>> \in Ids
  <2>1. \A m \in 1..Len(config) : config[m] \in Generators
    OBVIOUS
  <2> HIDE DEF n, L
  <2> QED BY <1>4, <1>5, <2>1 DEF Ids
<1>7. PlanOf(config, S) \in Seq(Ids)
  <2> HIDE DEF L
  <2> QED BY <1>2, <1>3, <1>6
<1>8. ASSUME NEW i \in 1..L, NEW j \in 1..L,
             <<config[((i - 1) \div n) + 1], Nth(S, ((i - 1) % n) + 1)>> = <<config[((j - 1) \div n) + 1], Nth(S, ((j - 1) % n) + 1)>>
      PROVE  i = j
  <2>1. config[((i - 1) \div n) + 1] = config[((j - 1) \div n) + 1] /\ Nth(S, ((i - 1) % n) + 1) = Nth(S, ((j - 1) % n) + 1)
    BY <1>8
  <2>2. ((i - 1) % n) + 1 = ((j - 1) % n) + 1
    BY <2>1, <1>5
  <2>3. ((i - 1) \div n) + 1 = ((j - 1) \div n) + 1
    <3>1. \A p, q \in 1..Len(config) : config[p] = config[q] => p = q
      OBVIOUS
    <3> HIDE DEF n, L
    <3> QED BY <2>1, <1>4, <3>1
  <2>4. (i - 1) % n = (j - 1) % n /\ (i - 1) \div n = (j - 1) \div n
    <3>1. \A p, q \in Nat : p + 1 = q + 1 => p = q
      OBVIOUS
    <3> HIDE DEF n, L
    <3> QED BY <2>2, <2>3, <1>4, <3>1
  <2>5. i - 1 = j - 1
    <3> HIDE DEF n, L
    <3>1. i - 1 = n * ((j - 1) \div n) + ((j - 1) % n)
      BY <2>4, <1>4
    <3> QED BY <3>1, <1>4
  <2>6. i \in Int /\ j \in Int
    BY <1>2
  <2> QED BY <2>5, <2>6
<1>9. \A k \in 1..L : \E m \in DOMAIN config :
         <<config[((k - 1) \div n) + 1], Nth(S, ((k - 1) % n) + 1)>>[1] = config[m]
  <2>1. DOMAIN config = 1..Len(config)
    OBVIOUS
  <2> HIDE DEF L, n
  <2> QED BY <1>4, <2>1
<1> QED
  <2> HIDE DEF L, n
  <2> QED BY <1>3, <1>7, <1>8, <1>9 DEF Distinct

(* The plan of a run that calls the editor's model only.                      *)
LEMMA EditorsPlan ==
    ASSUME NEW S \in SUBSET Sources
    PROVE  /\ PlanOf(<<Editor>>, S) \in Seq(Ids)
           /\ Distinct(PlanOf(<<Editor>>, S))
           /\ \A k \in DOMAIN PlanOf(<<Editor>>, S) :
                 /\ PlanOf(<<Editor>>, S)[k][1] = Editor
                 /\ Rank(S, PlanOf(<<Editor>>, S)[k][2]) = k
<1> DEFINE n == Cardinality(S)
           plan == PlanOf(<<Editor>>, S)
<1>1. <<Editor>> \in Seq(Generators) /\ \A i, j \in DOMAIN <<Editor>> : <<Editor>>[i] = <<Editor>>[j] => i = j
  BY GenerationAssumption
<1>2. plan \in Seq(Ids) /\ Distinct(plan)
  <2> HIDE DEF plan
  <2> QED BY <1>1, PlanTyped DEF plan
<1>3. IsFiniteSet(S) /\ S \in SUBSET Int /\ n \in Nat
  <2>1. Cardinality(Sources) \in Nat
    BY GenerationAssumption, FS_CardinalityType
  <2>2. Sources \subseteq Int
    BY <2>1, GenerationAssumption
  <2>3. IsFiniteSet(S)
    BY GenerationAssumption, FS_Subset
  <2> QED BY <2>2, <2>3, FS_CardinalityType
<1>4. Len(<<Editor>>) * n = n
  BY <1>3
<1>5. plan = [k \in 1..n |-> <<<<Editor>>[((k - 1) \div n) + 1], Nth(S, ((k - 1) % n) + 1)>>]
  BY <1>4 DEF PlanOf
<1>6. ASSUME NEW k \in 1..n PROVE plan[k] = <<Editor, Nth(S, k)>>
  <2>1. n \in Nat \ {0} /\ k - 1 \in Nat /\ k - 1 < 1 * n /\ k \in Int
    BY <1>3
  <2>2. (k - 1) \div n < 1 /\ (k - 1) \div n \in Nat
    BY <2>1, Division, DivisionBound
  <2>3. (k - 1) \div n = 0
    BY <2>2
  <2>4. k - 1 = n * 0 + ((k - 1) % n) /\ (k - 1) % n \in Nat
    BY <2>1, <2>3, Division
  <2>5. (k - 1) % n = k - 1
    BY <2>1, <2>4
  <2>6. ((k - 1) \div n) + 1 = 1 /\ ((k - 1) % n) + 1 = k
    BY <2>1, <2>3, <2>5
  <2> HIDE DEF n, plan
  <2> QED BY <1>5, <2>6
<1>7. \A k \in 1..n : Rank(S, Nth(S, k)) = k
  BY <1>3, NthHasRank
<1>8. DOMAIN plan = 1..n
  <2> HIDE DEF n, plan
  <2> QED BY <1>5
<1>9. \A k \in 1..n : plan[k][1] = Editor /\ plan[k][2] = Nth(S, k)
  <2> HIDE DEF n, plan
  <2> QED BY <1>6
<1>10. \A k \in DOMAIN plan : plan[k][1] = Editor /\ Rank(S, plan[k][2]) = k
  <2> HIDE DEF n, plan
  <2> QED BY <1>7, <1>8, <1>9
<1> QED BY <1>2, <1>10

(* A sample is drawn from what is there.                                      *)
LEMMA SizeFits ==
    ASSUME NEW T, IsFiniteSet(T), T # {}
    PROVE  SampleSize(T) \in 1..Cardinality(T)
<1> DEFINE c == Cardinality(T)
           down == (c * Share) \div 100
           rest == (c * Share) % 100
<1>1. c \in Nat \ {0} /\ Share \in 1..100
  BY FS_CardinalityType, FS_EmptySet, GenerationAssumption
<1>2. \A x \in Nat \ {0}, s \in 1..100 : x * s \in Nat /\ x * s <= 100 * x
  OBVIOUS
<1>3. c * Share \in Nat /\ c * Share <= 100 * c
  BY <1>1, <1>2
<1>4. SampleSize(T) = IF down = 0 \/ rest > 50 \/ (rest = 50 /\ down % 2 = 1) THEN down + 1 ELSE down
  BY DEF SampleSize
<1> HIDE DEF c
<1>5. down \in Nat /\ rest \in 0..99 /\ c * Share = 100 * down + rest
  BY <1>3
<1> HIDE DEF down, rest
<1>6. c * Share \in Nat
  BY <1>3
<1>7. down <= c /\ (down = c => rest = 0)
  BY <1>1, <1>3, <1>5, <1>6
<1>8. SampleSize(T) \in 1..c
  BY <1>1, <1>4, <1>5, <1>7
<1> QED BY <1>8 DEF c

LEMMA PartOfSize ==
    ASSUME NEW T, IsFiniteSet(T), NEW m \in 1..Cardinality(T)
    PROVE  \E D \in SUBSET T : Cardinality(D) = m
<1>1. PICK f : f \in Bijection(1..Cardinality(T), T)
  BY FS_CardinalityType DEF ExistsBijection
<1>2. Cardinality(T) \in Nat
  BY FS_CardinalityType
<1> DEFINE D == {f[i] : i \in 1..m}
           g == [i \in 1..m |-> f[i]]
<1>3. \A i, j \in 1..Cardinality(T) : f[i] = f[j] => i = j
  BY <1>1 DEF Bijection, Injection, IsInjective
<1>4. 1..m \subseteq 1..Cardinality(T)
  BY <1>2
<1>5. D \in SUBSET T
  BY <1>1, <1>4 DEF Bijection, Surjection
<1>6. g \in Bijection(1..m, D)
  BY <1>3, <1>4 DEF Bijection, Injection, IsInjective, Surjection
<1>7. IsFiniteSet(1..m) /\ Cardinality(1..m) = m
  BY <1>2, FS_Interval
<1> HIDE DEF g, D
<1>8. Cardinality(D) = m
  BY <1>6, <1>7, FS_Bijection DEF ExistsBijection
<1> QED BY <1>5, <1>8

LEMMA SampleOf ==
    ASSUME NEW S \in SUBSET Sources
    PROVE  StratifiedSample(S) \in SUBSET Sources
<1>1. IsFiniteSet(S)
  BY GenerationAssumption, FS_Subset
<1>2. ASSUME NEW r \in S PROVE Drawn({s \in S : Stratum[s] = Stratum[r]}) \subseteq S
  <2> DEFINE T == {s \in S : Stratum[s] = Stratum[r]}
  <2>1. IsFiniteSet(T) /\ T # {} /\ T \subseteq S
    BY <1>1, FS_Subset
  <2> HIDE DEF T
  <2>2. \E D \in SUBSET T : Cardinality(D) = SampleSize(T)
    BY <2>1, SizeFits, PartOfSize
  <2>3. Drawn(T) \in SUBSET T
    BY <2>2 DEF Drawn
  <2> QED BY <2>1, <2>3 DEF T
<1> QED BY <1>2 DEF StratifiedSample

LEMMA Samples ==
    /\ StratifiedSample(LoadAnswers) \in SUBSET Sources
    /\ \A byHand : Selected(byHand) \in SUBSET Sources
BY SampleOf DEF LoadAnswers, Selected

(* ------------------------------- sequences -------------------------------- *)
(* The end of a sequence.                                                     *)
LEMMA Suffix ==
    ASSUME NEW S, NEW s \in Seq(S), NEW m \in 1..(Len(s) + 1)
    PROVE  LET t == SubSeq(s, m, Len(s))
           IN  /\ t \in Seq(S) /\ Len(t) = Len(s) - m + 1
               /\ \A i \in 1..Len(t) : t[i] = s[m + i - 1] /\ m + i - 1 \in 1..Len(s)
<1>1. Len(s) \in Nat
  OBVIOUS
<1>2. \A i \in 1..(Len(s) - m + 1) : m + i - 1 \in 1..Len(s)
  BY <1>1
<1> QED BY <1>1, <1>2, SubSeqProperties

(* A sequence of lines with an id each has as many ids as lines.              *)
OneLineEach(lines) == \A i, j \in DOMAIN lines : lines[i].id = lines[j].id => i = j
LEMMA AsManyIds ==
    ASSUME NEW R, NEW lines \in Seq(R), OneLineEach(lines)
    PROVE  Cardinality(IdsOf(lines)) = Len(lines)
<1> DEFINE n == Len(lines)
           f == [i \in 1..n |-> lines[i].id]
<1>1. n \in Nat /\ DOMAIN lines = 1..n
  OBVIOUS
<1>2. IsFiniteSet(1..n) /\ Cardinality(1..n) = n
  BY <1>1, FS_Interval
<1>3. f \in Bijection(1..n, IdsOf(lines))
  BY <1>1 DEF Bijection, Injection, IsInjective, Surjection, IdsOf, OneLineEach
<1> HIDE DEF f
<1> QED BY <1>2, <1>3, FS_Bijection DEF ExistsBijection

(* What stands in two sequences of lines, and in a beginning of both.         *)
LEMMA IdsOfBoth ==
    ASSUME NEW R, NEW s \in Seq(R), NEW t \in Seq(R)
    PROVE  IdsOf(s) \cup IdsOf(t) = IdsOf(s \o t)
<1>1. /\ Len(s) \in Nat /\ Len(t) \in Nat /\ DOMAIN s = 1..Len(s) /\ DOMAIN t = 1..Len(t)
      /\ DOMAIN (s \o t) = 1..(Len(s) + Len(t))
      /\ \A i \in 1..(Len(s) + Len(t)) : (s \o t)[i] = IF i <= Len(s) THEN s[i] ELSE t[i - Len(s)]
  BY ConcatProperties
<1>2. ASSUME NEW i \in DOMAIN s PROVE s[i].id \in IdsOf(s \o t)
  <2>1. i \in DOMAIN (s \o t) /\ (s \o t)[i] = s[i]
    BY <1>1
  <2> QED BY <2>1 DEF IdsOf
<1>3. ASSUME NEW i \in DOMAIN t PROVE t[i].id \in IdsOf(s \o t)
  <2>1. Len(s) + i \in DOMAIN (s \o t) /\ (s \o t)[Len(s) + i] = t[i]
    BY <1>1
  <2> QED BY <2>1 DEF IdsOf
<1>4. ASSUME NEW i \in DOMAIN (s \o t) PROVE (s \o t)[i].id \in IdsOf(s) \cup IdsOf(t)
  <2>1. CASE i <= Len(s)
    <3>1. i \in DOMAIN s /\ (s \o t)[i] = s[i]
      BY <1>1, <2>1
    <3> QED BY <3>1 DEF IdsOf
  <2>2. CASE ~(i <= Len(s))
    <3>1. i - Len(s) \in DOMAIN t /\ (s \o t)[i] = t[i - Len(s)]
      BY <1>1, <2>2
    <3> QED BY <3>1 DEF IdsOf
  <2> QED BY <2>1, <2>2
<1> QED BY <1>2, <1>3, <1>4 DEF IdsOf

LEMMA Beginning ==
    ASSUME NEW R, NEW s \in Seq(R), NEW t \in Seq(R), NEW k \in 0..Len(t)
    PROVE  \A i \in DOMAIN (s \o SubSeq(t, 1, k)) :
              i \in DOMAIN (s \o t) /\ (s \o SubSeq(t, 1, k))[i] = (s \o t)[i]
<1> DEFINE u == SubSeq(t, 1, k)
<1>1. u \in Seq(R) /\ Len(u) = k /\ Len(s) \in Nat /\ Len(t) \in Nat /\ \A i \in 1..k : u[i] = t[i]
  OBVIOUS
<1> HIDE DEF u
<1>2. \A v \in Seq(R) :
        /\ DOMAIN (s \o v) = 1..(Len(s) + Len(v))
        /\ \A i \in 1..(Len(s) + Len(v)) : (s \o v)[i] = IF i <= Len(s) THEN s[i] ELSE v[i - Len(s)]
  BY ConcatProperties
<1>3. ASSUME NEW i \in 1..(Len(s) + k) PROVE i \in 1..(Len(s) + Len(t)) /\ (s \o u)[i] = (s \o t)[i]
  <2>1. i \in 1..(Len(s) + Len(t))
    BY <1>1
  <2>2. CASE i <= Len(s)
    BY <1>1, <1>2, <2>1, <2>2
  <2>3. CASE ~(i <= Len(s))
    <3>1. i - Len(s) \in 1..k
      BY <1>1, <2>3
    <3> QED BY <1>1, <1>2, <2>1, <2>3, <3>1
  <2> QED BY <2>2, <2>3
<1>4. DOMAIN (s \o u) = 1..(Len(s) + k) /\ DOMAIN (s \o t) = 1..(Len(s) + Len(t))
  BY <1>1, <1>2
<1> QED BY <1>3, <1>4 DEF u

(* ------------------------------ the invariant ----------------------------- *)
(* Answers people may have been given; what a line and a run say of how an    *)
(* answer is made.                                                            *)
DealNumbers == DOMAIN Deals \cup {0}
Hands == UNION {Dealt(k)[e] : k \in DealNumbers, e \in Editors}
LineHows == {<<p>> : p \in Prompts} \cup {<<>>} \cup (Nat \X SUBSET Hands)
RunHows == {<<p>> : p \in Prompts} \cup {<<>>} \cup {<<g>> : g \in SUBSET Hands}
Records == [id : Ids, how : LineHows]

Phases == {"next", "calling", "empty", "holding", "written", "billing"}

(* Types, of the fields the properties depend on.                             *)
ProcTyped ==
    /\ proc = [on |-> proc.on, todo |-> proc.todo, done |-> proc.done, at |-> proc.at, phase |-> proc.phase,
               attempt |-> proc.attempt, streak |-> proc.streak, drawn |-> proc.drawn,
               report |-> proc.report, buffer |-> proc.buffer, how |-> proc.how]
    /\ proc.on \in BOOLEAN /\ proc.todo \in Seq(Ids) /\ proc.phase \in Phases
    /\ proc.drawn \in Nat /\ proc.buffer \in Seq(Records) /\ proc.how \in RunHows
FolderTyped ==
    /\ folder = [lines |-> folder.lines, torn |-> folder.torn, report |-> folder.report]
    /\ folder.lines \in Seq(Records)
BillTyped ==
    /\ bill = [runs |-> bill.runs, spent |-> bill.spent, dropped |-> bill.dropped, cuts |-> bill.cuts,
               bought |-> bill.bought, lost |-> bill.lost, stops |-> bill.stops, kills |-> bill.kills]
    /\ {bill.spent, bill.dropped, bill.cuts} \subseteq [Generators -> Nat]
    /\ bill.bought \in Nat /\ bill.lost \in Nat /\ bill.stops \in Nat /\ bill.kills \in Nat
Typed == tool \in Tools /\ ProcTyped /\ FolderTyped /\ BillTyped /\ genuine \in SUBSET Hands

(* ------------------------- what a step does to fields --------------------- *)
Fixed == UNCHANGED <<proc.on, proc.done, proc.buffer, proc.how>>

LEMMA NextCallFields ==
    ASSUME ProcTyped, NextCall
    PROVE  /\ ProcTyped' /\ Fixed
           /\ proc.on /\ proc.todo # <<>> /\ proc.phase = "next"
           /\ proc'.todo = Tail(proc.todo) /\ proc'.at = Head(proc.todo) /\ proc'.drawn = proc.drawn + 1
           /\ IF Head(proc.todo) \in proc.done
              THEN proc'.phase = "next" /\ proc'.report = proc.report
              ELSE /\ proc'.phase = "calling"
                   /\ proc'.report = [proc.report EXCEPT ![Head(proc.todo)[1]].requested = @ + 1]
<1> DEFINE id == Head(proc.todo)
           g == id[1]
           rest == Tail(proc.todo)
           next == proc.drawn + 1
           strk == IF g = proc.at[1] THEN proc.streak ELSE 0
           turn == [proc EXCEPT !.todo = rest, !.at = id, !.drawn = next, !.streak = strk]
           call == [turn EXCEPT !.phase = "calling", !.attempt = 1, !.report[g].requested = @ + 1]
<1>1. proc.on /\ proc.phase = "next" /\ proc.todo # <<>> /\ proc' = IF id \in proc.done THEN turn ELSE call
  BY DEF NextCall
<1>2. rest \in Seq(Ids) /\ next \in Nat
  BY <1>1, HeadTailProperties DEF ProcTyped
<1> HIDE DEF rest, next, strk, id, g
<1>a. PICK half : half = [proc EXCEPT !.todo = rest, !.at = id]
  OBVIOUS
<1>b. turn = [half EXCEPT !.drawn = next, !.streak = strk]
  BY <1>a
<1>c. half = [on |-> proc.on, todo |-> rest, done |-> proc.done, at |-> id, phase |-> proc.phase,
              attempt |-> proc.attempt, streak |-> proc.streak, drawn |-> proc.drawn,
              report |-> proc.report, buffer |-> proc.buffer, how |-> proc.how]
  BY <1>a DEF ProcTyped
<1> HIDE DEF turn
<1>3. turn = [on |-> proc.on, todo |-> rest, done |-> proc.done, at |-> id, phase |-> proc.phase,
              attempt |-> proc.attempt, streak |-> strk, drawn |-> next,
              report |-> proc.report, buffer |-> proc.buffer, how |-> proc.how]
  BY <1>b, <1>c
<1> DEFINE rep == [turn.report EXCEPT ![g].requested = @ + 1]
<1>d. PICK most : most = [turn EXCEPT !.phase = "calling", !.attempt = 1]
  OBVIOUS
<1>e. most = [on |-> proc.on, todo |-> rest, done |-> proc.done, at |-> id, phase |-> "calling",
              attempt |-> 1, streak |-> strk, drawn |-> next,
              report |-> turn.report, buffer |-> proc.buffer, how |-> proc.how]
  BY <1>3, <1>d
<1>f. call = [most EXCEPT !.report = rep]
  BY <1>3, <1>d, <1>e
<1> HIDE DEF call, rep
<1>4. call = [on |-> proc.on, todo |-> rest, done |-> proc.done, at |-> id, phase |-> "calling",
              attempt |-> 1, streak |-> strk, drawn |-> next,
              report |-> rep, buffer |-> proc.buffer, how |-> proc.how]
  BY <1>e, <1>f
<1>5. CASE id \in proc.done
  <2>1. proc' = turn
    BY <1>1, <1>5
  <2> QED BY <2>1, <1>1, <1>2, <1>3, <1>5 DEF ProcTyped, Fixed, id, rest, next
<1>6. CASE id \notin proc.done
  <2>1. proc' = call
    BY <1>1, <1>6
  <2>2. proc'.report = rep /\ proc'.phase = "calling" /\ proc'.todo = rest /\ proc'.at = id /\ proc'.drawn = next
    BY <2>1, <1>4
  <2>3. ProcTyped' /\ Fixed
    BY <2>1, <1>2, <1>4 DEF ProcTyped, Fixed, Phases
  <2>4. rep = [proc.report EXCEPT ![g].requested = @ + 1]
    BY <1>3 DEF rep
  <2> QED BY <2>2, <2>3, <2>4, <1>1, <1>6 DEF id, g, rest, next
<1> QED BY <1>5, <1>6

LEMMA RetryFields ==
    ASSUME ProcTyped, NEW e, CallFails(e), Retry(e)
    PROVE  /\ ProcTyped' /\ Fixed
           /\ UNCHANGED <<proc.todo, proc.at, proc.drawn, proc.phase, proc.report>>
<1> DEFINE n == (proc.attempt % MaxAttempts) + 1
<1>1. proc' = [proc EXCEPT !.attempt = n]
  BY DEF CallFails
<1> HIDE DEF n
<1>2. proc' = [on |-> proc.on, todo |-> proc.todo, done |-> proc.done, at |-> proc.at, phase |-> proc.phase,
               attempt |-> n, streak |-> proc.streak, drawn |-> proc.drawn,
               report |-> proc.report, buffer |-> proc.buffer, how |-> proc.how]
  BY <1>1 DEF ProcTyped
<1> QED BY <1>2 DEF ProcTyped, Fixed

(* What is left after a generator's turn is the end of what there was.        *)
LEMMA AfterTurnEnds ==
    ASSUME proc.todo \in Seq(Ids), NEW g
    PROVE  \E m \in 1..(Len(proc.todo) + 1) :
              /\ AfterTurn(g) = SubSeq(proc.todo, m, Len(proc.todo))
              /\ (\A k \in DOMAIN proc.todo : proc.todo[k][1] = g) => m = Len(proc.todo) + 1
<1> DEFINE later == {k \in DOMAIN proc.todo : proc.todo[k][1] # g}
           n == Len(proc.todo)
           c == Cardinality(later)
<1>1. n \in Nat /\ DOMAIN proc.todo = 1..n
  OBVIOUS
<1>2. IsFiniteSet(1..n) /\ Cardinality(1..n) = n
  BY <1>1, FS_Interval
<1>3. later \in SUBSET (1..n)
  BY <1>1
<1>4. IsFiniteSet(later) /\ c \in Nat /\ c <= n
  <2> HIDE DEF later
  <2> QED BY <1>2, <1>3, FS_Subset, FS_CardinalityType
<1>5. AfterTurn(g) = SubSeq(proc.todo, n - c + 1, n)
  BY DEF AfterTurn
<1>6. (\A k \in DOMAIN proc.todo : proc.todo[k][1] = g) => c = 0
  <2> SUFFICES ASSUME \A k \in DOMAIN proc.todo : proc.todo[k][1] = g PROVE c = 0
    OBVIOUS
  <2>1. later = {}
    OBVIOUS
  <2> QED BY <2>1, FS_EmptySet
<1> HIDE DEF c
<1>7. n - c + 1 \in 1..(n + 1) /\ (c = 0 => n - c + 1 = n + 1)
  BY <1>1, <1>4
<1> QED BY <1>5, <1>6, <1>7

LEMMA FailedFields ==
    ASSUME ProcTyped, NEW tokens, proc' = Failed(tokens)
    PROVE  /\ ProcTyped' /\ Fixed
           /\ UNCHANGED <<proc.at, proc.drawn>> /\ proc'.phase = "next"
           /\ proc'.report = [proc.report EXCEPT ![proc.at[1]] =
                                [proc.report[proc.at[1]] EXCEPT !.failed = @ + 1, !.tokens = @ + tokens]]
           /\ \E m \in 1..(Len(proc.todo) + 1) :
                 /\ proc'.todo = SubSeq(proc.todo, m, Len(proc.todo))
                 /\ m = 1 \/ ((\A k \in DOMAIN proc.todo : proc.todo[k][1] = proc.at[1]) => m = Len(proc.todo) + 1)
<1> DEFINE g == proc.at[1]
           over == proc.streak + 1 >= MaxStreak
           todo == IF over THEN AfterTurn(g) ELSE proc.todo
           strk == proc.streak + 1
           entry == [proc.report[g] EXCEPT !.failed = @ + 1, !.tokens = @ + tokens]
           n == Len(proc.todo)
<1>1. proc' = [proc EXCEPT !.phase = "next", !.attempt = 0, !.streak = strk, !.todo = todo,
                           !.report[g] = entry]
  BY DEF Failed
<1>2. proc.todo \in Seq(Ids) /\ n \in Nat
  BY DEF ProcTyped
<1>3. PICK m \in 1..(n + 1) :
         /\ todo = SubSeq(proc.todo, m, n)
         /\ m = 1 \/ ((\A k \in DOMAIN proc.todo : proc.todo[k][1] = g) => m = n + 1)
  <2>1. SubSeq(proc.todo, 1, n) = proc.todo
    BY <1>2
  <2> HIDE DEF over
  <2>2. CASE over
    BY <2>2, <1>2, AfterTurnEnds
  <2>3. CASE ~over
    BY <2>1, <2>3, <1>2
  <2> QED BY <2>2, <2>3
<1>4. todo \in Seq(Ids)
  <2> HIDE DEF todo
  <2> QED BY <1>2, <1>3, Suffix
<1> HIDE DEF todo, over, strk, g, entry
<1>a. PICK half : half = [proc EXCEPT !.phase = "next", !.attempt = 0, !.streak = strk]
  OBVIOUS
<1>b. half = [on |-> proc.on, todo |-> proc.todo, done |-> proc.done, at |-> proc.at, phase |-> "next",
              attempt |-> 0, streak |-> strk, drawn |-> proc.drawn,
              report |-> proc.report, buffer |-> proc.buffer, how |-> proc.how]
  BY <1>a DEF ProcTyped
<1>c. PICK most : most = [half EXCEPT !.todo = todo]
  OBVIOUS
<1>d. most = [on |-> proc.on, todo |-> todo, done |-> proc.done, at |-> proc.at, phase |-> "next",
              attempt |-> 0, streak |-> strk, drawn |-> proc.drawn,
              report |-> proc.report, buffer |-> proc.buffer, how |-> proc.how]
  BY <1>b, <1>c
<1> DEFINE rep == [proc.report EXCEPT ![g] = entry]
<1>e. proc' = [most EXCEPT !.report[g] = entry]
  BY <1>1, <1>a, <1>c
<1>5. proc' = [on |-> proc.on, todo |-> todo, done |-> proc.done, at |-> proc.at, phase |-> "next",
               attempt |-> 0, streak |-> strk, drawn |-> proc.drawn,
               report |-> rep, buffer |-> proc.buffer, how |-> proc.how]
  BY <1>d, <1>e
<1> HIDE DEF rep
<1>6. ProcTyped' /\ Fixed /\ UNCHANGED <<proc.at, proc.drawn>> /\ proc'.phase = "next" /\ proc'.todo = todo
      /\ proc'.report = rep
  BY <1>4, <1>5 DEF ProcTyped, Fixed, Phases
<1> QED BY <1>3, <1>6 DEF g, entry, rep

LEMMA NothingFields ==
    ASSUME ProcTyped, CallReturnsNothing
    PROVE  /\ ProcTyped' /\ Fixed
           /\ UNCHANGED <<proc.todo, proc.at, proc.drawn, proc.report>>
           /\ proc.phase = "calling" /\ proc'.phase = "empty"
<1>1. proc.phase = "calling" /\ proc' = [proc EXCEPT !.phase = "empty"]
  BY DEF CallReturnsNothing
<1>2. proc' = [on |-> proc.on, todo |-> proc.todo, done |-> proc.done, at |-> proc.at, phase |-> "empty",
               attempt |-> proc.attempt, streak |-> proc.streak, drawn |-> proc.drawn,
               report |-> proc.report, buffer |-> proc.buffer, how |-> proc.how]
  BY <1>1 DEF ProcTyped
<1> QED BY <1>1, <1>2 DEF ProcTyped, Fixed, Phases

LEMMA TextFields ==
    ASSUME ProcTyped, CallReturnsText
    PROVE  /\ ProcTyped' /\ Fixed
           /\ UNCHANGED <<proc.todo, proc.at, proc.drawn>>
           /\ tool = "generate" /\ proc.report \in [Generators -> Entry] => UNCHANGED proc.report
           /\ proc.phase = "calling" /\ proc'.phase = "holding"
<1> DEFINE g == proc.at[1]
           rep == [proc.report EXCEPT ![g].tokens = IF tool = "generate" THEN @ ELSE @ + 1]
<1>1. /\ proc.phase = "calling"
      /\ proc' = [proc EXCEPT !.phase = "holding", !.attempt = 0, !.streak = 0,
                              !.report[g].tokens = IF tool = "generate" THEN @ ELSE @ + 1]
  BY DEF CallReturnsText
<1> HIDE DEF g
<1>2. PICK half : half = [proc EXCEPT !.phase = "holding", !.attempt = 0, !.streak = 0]
  OBVIOUS
<1>3. half = [on |-> proc.on, todo |-> proc.todo, done |-> proc.done, at |-> proc.at, phase |-> "holding",
              attempt |-> 0, streak |-> 0, drawn |-> proc.drawn,
              report |-> proc.report, buffer |-> proc.buffer, how |-> proc.how]
  BY <1>2 DEF ProcTyped
<1>4. proc' = [half EXCEPT !.report = rep]
  BY <1>1, <1>2, <1>3
<1> HIDE DEF rep
<1>5. proc' = [on |-> proc.on, todo |-> proc.todo, done |-> proc.done, at |-> proc.at, phase |-> "holding",
               attempt |-> 0, streak |-> 0, drawn |-> proc.drawn,
               report |-> rep, buffer |-> proc.buffer, how |-> proc.how]
  BY <1>3, <1>4
<1>6. proc'.report = rep /\ UNCHANGED <<proc.on, proc.todo, proc.done, proc.at, proc.drawn, proc.buffer, proc.how>>
      /\ proc'.phase = "holding"
  BY <1>5
<1>7. ProcTyped'
  BY <1>5 DEF ProcTyped, Phases
<1>8. ASSUME tool = "generate", proc.report \in [Generators -> Entry] PROVE rep = proc.report
  <2>1. rep = [proc.report EXCEPT ![g] = [proc.report[g] EXCEPT !.tokens = proc.report[g].tokens]]
    BY <1>8 DEF rep
  <2>2. CASE g \in Generators
    <3>1. proc.report[g] \in Entry
      BY <1>8, <2>2
    <3>2. [proc.report[g] EXCEPT !.tokens = proc.report[g].tokens] = proc.report[g]
      BY <3>1 DEF Entry
    <3> QED BY <2>1, <3>2, <1>8
  <2>3. CASE g \notin Generators
    BY <2>1, <2>3, <1>8
  <2> QED BY <2>2, <2>3
<1> QED BY <1>1, <1>6, <1>7, <1>8 DEF Fixed

LEMMA RecordFields ==
    ASSUME ProcTyped, FolderTyped, Line \in Records, WriteRecord
    PROVE  /\ ProcTyped' /\ FolderTyped'
           /\ UNCHANGED <<proc.on, proc.done, proc.todo, proc.at, proc.drawn, proc.how, proc.report>>
           /\ proc.phase = "holding" /\ proc'.phase = "written" /\ UNCHANGED folder.report
           /\ IF tool = "generate"
              THEN folder'.lines = Append(folder.lines, Line) /\ proc'.buffer = proc.buffer
              ELSE folder'.lines = folder.lines /\ proc'.buffer = Append(proc.buffer, Line)
<1> DEFINE lines == IF Flushed THEN Append(folder.lines, Line) ELSE folder.lines
           buffer == IF Flushed THEN proc.buffer ELSE Append(proc.buffer, Line)
<1>1. /\ proc.phase = "holding"
      /\ folder' = [folder EXCEPT !.lines = lines]
      /\ proc' = [proc EXCEPT !.phase = "written", !.buffer = buffer]
  BY DEF WriteRecord
<1>2. lines \in Seq(Records) /\ buffer \in Seq(Records)
  BY DEF ProcTyped, FolderTyped
<1>3. IF tool = "generate"
      THEN lines = Append(folder.lines, Line) /\ buffer = proc.buffer
      ELSE lines = folder.lines /\ buffer = Append(proc.buffer, Line)
  BY DEF Flushed
<1> HIDE DEF lines, buffer
<1>4. proc' = [on |-> proc.on, todo |-> proc.todo, done |-> proc.done, at |-> proc.at, phase |-> "written",
               attempt |-> proc.attempt, streak |-> proc.streak, drawn |-> proc.drawn,
               report |-> proc.report, buffer |-> buffer, how |-> proc.how]
  BY <1>1 DEF ProcTyped
<1>5. folder' = [lines |-> lines, torn |-> folder.torn, report |-> folder.report]
  BY <1>1 DEF FolderTyped
<1>6. ProcTyped' /\ UNCHANGED <<proc.on, proc.done, proc.todo, proc.at, proc.drawn, proc.how, proc.report>>
      /\ proc'.phase = "written" /\ proc'.buffer = buffer
  BY <1>2, <1>4 DEF ProcTyped, Phases
<1>7. FolderTyped' /\ folder'.lines = lines /\ UNCHANGED folder.report
  BY <1>2, <1>5 DEF FolderTyped
<1> QED BY <1>1, <1>3, <1>6, <1>7

(* A line, or its tokens, are counted.                                        *)
LEMMA CountFields ==
    ASSUME ProcTyped, CountRecord \/ CountTokens
    PROVE  /\ ProcTyped' /\ Fixed /\ UNCHANGED <<tool, folder, genuine, bill>>
           /\ UNCHANGED <<proc.todo, proc.at, proc.drawn>>
           /\ proc.phase \in {"written", "billing"} /\ proc'.phase \in {"next", "billing"}
           /\ CountRecord /\ tool = "generate" =>
                 /\ proc.phase = "written" /\ proc'.phase = "billing"
                 /\ proc'.report = [proc.report EXCEPT ![proc.at[1]].succeeded = @ + 1]
           /\ CountTokens =>
                 /\ proc.phase = "billing" /\ proc'.phase = "next"
                 /\ proc'.report = [proc.report EXCEPT ![proc.at[1]].tokens = @ + 1]
<1> DEFINE g == proc.at[1]
           more == [proc.report EXCEPT ![g].succeeded = @ + 1]
           paid == [proc.report EXCEPT ![g].tokens = @ + 1]
           after == IF tool = "generate" THEN "billing" ELSE "next"
<1>1. ASSUME NEW phase \in Phases, NEW rep, proc' = [proc EXCEPT !.phase = phase, !.report = rep]
      PROVE  /\ ProcTyped' /\ Fixed /\ UNCHANGED <<proc.todo, proc.at, proc.drawn>>
             /\ proc'.phase = phase /\ proc'.report = rep
  <2>1. proc' = [on |-> proc.on, todo |-> proc.todo, done |-> proc.done, at |-> proc.at, phase |-> phase,
                 attempt |-> proc.attempt, streak |-> proc.streak, drawn |-> proc.drawn,
                 report |-> rep, buffer |-> proc.buffer, how |-> proc.how]
    BY <1>1 DEF ProcTyped
  <2> QED BY <2>1 DEF ProcTyped, Fixed
<1>2. after \in Phases /\ "next" \in Phases
  BY DEF Phases
<1>3. CASE CountRecord
  <2>1. proc.phase = "written" /\ UNCHANGED <<tool, folder, genuine, bill>>
    BY <1>3 DEF CountRecord
  <2>2. proc' = [proc EXCEPT !.phase = after, !.report = more]
    BY <1>3 DEF CountRecord
  <2>3. ~CountTokens
    BY <2>1 DEF CountTokens
  <2>4. tool = "generate" => after = "billing"
    OBVIOUS
  <2>5. after \in {"next", "billing"}
    OBVIOUS
  <2> HIDE DEF after, more
  <2>6. ProcTyped' /\ Fixed /\ UNCHANGED <<proc.todo, proc.at, proc.drawn>> /\ proc'.phase = after /\ proc'.report = more
    BY <1>1, <1>2, <2>2
  <2> QED BY <2>1, <2>3, <2>4, <2>5, <2>6 DEF more
<1>4. CASE CountTokens
  <2>1. proc.phase = "billing" /\ UNCHANGED <<tool, folder, genuine, bill>>
    BY <1>4 DEF CountTokens
  <2>2. proc' = [proc EXCEPT !.phase = "next", !.report = paid]
    BY <1>4 DEF CountTokens
  <2>3. ~CountRecord
    BY <2>1 DEF CountRecord
  <2> HIDE DEF paid
  <2>4. ProcTyped' /\ Fixed /\ UNCHANGED <<proc.todo, proc.at, proc.drawn>> /\ proc'.phase = "next" /\ proc'.report = paid
    BY <1>1, <1>2, <2>2
  <2> QED BY <2>1, <2>3, <2>4 DEF paid
<1> QED BY <1>3, <1>4

LEMMA RestingFields ==
    proc' = Resting =>
        /\ ProcTyped'
        /\ ~proc'.on /\ proc'.todo = <<>> /\ proc'.phase = "next" /\ proc'.buffer = <<>> /\ proc'.how = <<>>
BY DEF Resting, ProcTyped, RunHows, Phases

LEMMA BeginFields ==
    ASSUME BillTyped, NEW todo \in Seq(Ids), NEW report, NEW how \in RunHows, Begin(todo, report, how)
    PROVE  /\ ProcTyped' /\ BillTyped' /\ UNCHANGED <<tool, folder, genuine, bill.bought, bill.lost, bill.stops>>
           /\ UNCHANGED <<bill.spent, bill.dropped, bill.cuts, bill.kills>> /\ proc'.report = report
           /\ ~proc.on /\ proc'.on /\ proc'.todo = todo /\ proc'.done = IdsOf(folder.lines)
           /\ proc'.phase = "next" /\ proc'.drawn = 0 /\ proc'.buffer = <<>> /\ proc'.how = how
<1> DEFINE ids == IdsOf(folder.lines)
           more == bill.runs + 1
<1>1. /\ ~proc.on /\ UNCHANGED <<tool, folder, genuine>>
      /\ proc' = [Resting EXCEPT !.on = TRUE, !.todo = todo, !.done = ids, !.report = report, !.how = how]
      /\ bill' = [bill EXCEPT !.runs = more]
  BY DEF Begin
<1> HIDE DEF ids, more
<1>2. PICK half : half = [Resting EXCEPT !.on = TRUE, !.todo = todo, !.done = ids]
  OBVIOUS
<1>3. PICK rest : rest = Resting.report
  OBVIOUS
<1>4. half = [on |-> TRUE, todo |-> todo, done |-> ids, at |-> <<Editor, 0>>, phase |-> "next",
              attempt |-> 0, streak |-> 0, drawn |-> 0, report |-> rest, buffer |-> <<>>, how |-> <<>>]
  BY <1>2, <1>3 DEF Resting
<1>5. proc' = [half EXCEPT !.report = report, !.how = how]
  BY <1>1, <1>2
<1>6. proc' = [on |-> TRUE, todo |-> todo, done |-> ids, at |-> <<Editor, 0>>, phase |-> "next",
               attempt |-> 0, streak |-> 0, drawn |-> 0, report |-> report, buffer |-> <<>>, how |-> how]
  BY <1>4, <1>5
<1>7. bill' = [runs |-> more, spent |-> bill.spent, dropped |-> bill.dropped, cuts |-> bill.cuts,
               bought |-> bill.bought, lost |-> bill.lost, stops |-> bill.stops, kills |-> bill.kills]
  BY <1>1 DEF BillTyped
<1>8. BillTyped' /\ UNCHANGED <<bill.bought, bill.lost, bill.stops, bill.spent, bill.dropped, bill.cuts, bill.kills>>
  <2>1. bill.kills \in Nat
    BY DEF BillTyped
  <2> QED BY <2>1, <1>7 DEF BillTyped
<1>9. <<>> \in Seq(Records)
  OBVIOUS
<1>10. ProcTyped'
  BY <1>6, <1>9 DEF ProcTyped, Phases
<1>11. /\ proc'.on /\ proc'.todo = todo /\ proc'.done = ids /\ proc'.report = report
       /\ proc'.phase = "next" /\ proc'.drawn = 0 /\ proc'.buffer = <<>> /\ proc'.how = how
  BY <1>6
<1> QED BY <1>1, <1>8, <1>10, <1>11 DEF ids

LEMMA CloseFields ==
    ASSUME ProcTyped, FolderTyped, Close
    PROVE  /\ FolderTyped' /\ folder'.lines = folder.lines \o proc.buffer /\ UNCHANGED <<tool, genuine>>
           /\ proc' = Resting /\ folder'.report = proc.report
<1> DEFINE lines == folder.lines \o proc.buffer
<1>1. /\ folder' = [folder EXCEPT !.lines = lines, !.report = proc.report]
      /\ proc' = Resting /\ UNCHANGED <<tool, genuine>>
  BY DEF Close
<1>2. lines \in Seq(Records)
  BY DEF ProcTyped, FolderTyped
<1> HIDE DEF lines
<1>3. folder' = [lines |-> lines, torn |-> folder.torn, report |-> proc.report]
  BY <1>1 DEF FolderTyped
<1> QED BY <1>1, <1>2, <1>3 DEF FolderTyped, lines

LEMMA KillFields ==
    ASSUME ProcTyped, FolderTyped, BillTyped, Kill
    PROVE  /\ FolderTyped' /\ BillTyped'
           /\ UNCHANGED <<tool, genuine, bill.bought, bill.spent, bill.dropped, bill.cuts, folder.report>>
           /\ bill'.kills = bill.kills + 1
           /\ proc.on /\ proc' = Resting /\ bill'.stops = bill.stops + 1
           /\ \E kept \in 0..Len(proc.buffer) :
                 /\ folder'.lines = folder.lines \o SubSeq(proc.buffer, 1, kept)
                 /\ bill'.lost = bill.lost + (Len(proc.buffer) - kept + (IF proc.phase = "holding" THEN 1 ELSE 0))
<1>1. PICK kept \in 0..Len(proc.buffer), torn \in BOOLEAN :
         LET held == IF proc.phase = "holding" THEN 1 ELSE 0
             lost == Len(proc.buffer) - kept + held
         IN  /\ folder' = [folder EXCEPT !.lines = @ \o SubSeq(proc.buffer, 1, kept), !.torn = torn]
             /\ bill' = [bill EXCEPT !.stops = @ + 1, !.kills = @ + 1, !.lost = @ + lost]
  BY DEF Kill
<1> DEFINE held == IF proc.phase = "holding" THEN 1 ELSE 0
           lost == Len(proc.buffer) - kept + held
           lines == folder.lines \o SubSeq(proc.buffer, 1, kept)
           gone == bill.lost + lost
           stops == bill.stops + 1
           kills == bill.kills + 1
<1>2. folder' = [folder EXCEPT !.lines = lines, !.torn = torn]
  BY <1>1
<1>3. bill' = [bill EXCEPT !.stops = stops, !.kills = kills, !.lost = gone]
  BY <1>1
<1>4. lines \in Seq(Records)
  <2>1. SubSeq(proc.buffer, 1, kept) \in Seq(Records)
    BY DEF ProcTyped
  <2> QED BY <2>1 DEF FolderTyped
<1>5. gone \in Nat /\ stops \in Nat /\ kills \in Nat
  <2>1. Len(proc.buffer) \in Nat /\ bill.lost \in Nat /\ bill.stops \in Nat /\ bill.kills \in Nat
    BY DEF ProcTyped, BillTyped
  <2>2. held \in 0..1
    OBVIOUS
  <2> HIDE DEF held
  <2> QED BY <2>1, <2>2
<1>6. gone = bill.lost + (Len(proc.buffer) - kept + (IF proc.phase = "holding" THEN 1 ELSE 0))
  OBVIOUS
<1> HIDE DEF lines, gone, stops, kills
<1>7. folder' = [lines |-> lines, torn |-> torn, report |-> folder.report]
  BY <1>2 DEF FolderTyped
<1>8. bill' = [runs |-> bill.runs, spent |-> bill.spent, dropped |-> bill.dropped, cuts |-> bill.cuts,
               bought |-> bill.bought, lost |-> gone, stops |-> stops, kills |-> kills]
  BY <1>3 DEF BillTyped
<1>9. FolderTyped' /\ folder'.lines = lines /\ UNCHANGED folder.report
  BY <1>4, <1>7 DEF FolderTyped
<1>10. BillTyped' /\ UNCHANGED <<bill.bought, bill.spent, bill.dropped, bill.cuts>> /\ bill'.lost = gone /\ bill'.stops = stops
       /\ bill'.kills = kills
  BY <1>5, <1>8 DEF BillTyped
<1>11. proc.on /\ proc' = Resting /\ UNCHANGED <<tool, genuine>>
  BY DEF Kill
<1> QED BY <1>6, <1>9, <1>10, <1>11 DEF lines, stops, kills

(* What the bill says after a call, and after a stop.                         *)
LEMMA BillFields ==
    ASSUME BillTyped
    PROVE  /\ CallReturnsNothing \/ CallReturnsText =>
                 /\ BillTyped' /\ UNCHANGED <<bill.lost, bill.stops, bill.kills, bill.dropped, bill.cuts>>
                 /\ bill'.spent = [bill.spent EXCEPT ![proc.at[1]] = @ + 1]
                 /\ bill'.bought = IF CallReturnsText THEN bill.bought + 1 ELSE bill.bought
           /\ Interrupt =>
                 /\ BillTyped' /\ UNCHANGED <<bill.bought, bill.kills, bill.spent>>
                 /\ bill'.stops = bill.stops + 1
                 /\ bill'.lost = bill.lost + (IF proc.phase = "holding" THEN 1 ELSE 0)
                 /\ bill'.dropped = [bill.dropped EXCEPT ![proc.at[1]] =
                                        @ + (IF proc.phase \in {"empty", "holding", "billing"} THEN 1 ELSE 0)]
                 /\ bill'.cuts = [bill.cuts EXCEPT ![proc.at[1]] = @ + (IF proc.phase = "written" THEN 1 ELSE 0)]
<1> DEFINE g == proc.at[1]
           spent == [bill.spent EXCEPT ![g] = @ + 1]
           stops == bill.stops + 1
           lost == bill.lost + (IF proc.phase = "holding" THEN 1 ELSE 0)
           out == IF proc.phase \in {"empty", "holding", "billing"} THEN 1 ELSE 0
           cut == IF proc.phase = "written" THEN 1 ELSE 0
           dropped == [bill.dropped EXCEPT ![g] = @ + out]
           cuts == [bill.cuts EXCEPT ![g] = @ + cut]
<1>1. stops \in Nat /\ lost \in Nat /\ bill.bought + 1 \in Nat
  BY DEF BillTyped
<1>2. ASSUME NEW f \in [Generators -> Nat], NEW n \in Nat PROVE [f EXCEPT ![g] = @ + n] \in [Generators -> Nat]
  <2>1. CASE g \in Generators
    BY <2>1
  <2>2. CASE g \notin Generators
    <3>1. [f EXCEPT ![g] = @ + n] = f
      <4> HIDE DEF g
      <4> QED BY <2>2
    <3> QED BY <3>1
  <2> QED BY <2>1, <2>2
<1>3. spent \in [Generators -> Nat] /\ dropped \in [Generators -> Nat] /\ cuts \in [Generators -> Nat]
  <2>1. out \in Nat /\ cut \in Nat /\ 1 \in Nat
    OBVIOUS
  <2> HIDE DEF out, cut, g
  <2> QED BY <1>2, <2>1 DEF BillTyped, g
<1>4. ASSUME CallReturnsNothing \/ CallReturnsText
      PROVE  /\ BillTyped' /\ UNCHANGED <<bill.lost, bill.stops, bill.kills, bill.dropped, bill.cuts>>
             /\ bill'.spent = spent /\ bill'.bought = IF CallReturnsText THEN bill.bought + 1 ELSE bill.bought
  <2> DEFINE bought == IF CallReturnsText THEN bill.bought + 1 ELSE bill.bought
  <2>1. bought \in Nat
    BY <1>1 DEF BillTyped
  <2>2. bill' = [bill EXCEPT !.spent = spent, !.bought = bought]
    <3>1. CASE CallReturnsText
      BY <3>1 DEF CallReturnsText
    <3>2. CASE ~CallReturnsText
      <4>1. bill' = [bill EXCEPT !.spent = spent]
        BY <1>4, <3>2 DEF CallReturnsNothing
      <4>2. bought = bill.bought
        BY <3>2
      <4> HIDE DEF spent, bought
      <4> QED BY <4>1, <4>2 DEF BillTyped
    <3> QED BY <3>1, <3>2
  <2> HIDE DEF spent, bought
  <2>3. bill' = [runs |-> bill.runs, spent |-> spent, dropped |-> bill.dropped, cuts |-> bill.cuts,
                 bought |-> bought, lost |-> bill.lost, stops |-> bill.stops, kills |-> bill.kills]
    BY <2>2 DEF BillTyped
  <2>4. BillTyped' /\ UNCHANGED <<bill.lost, bill.stops, bill.kills, bill.dropped, bill.cuts>>
        /\ bill'.spent = spent /\ bill'.bought = bought
    BY <2>1, <2>3, <1>3 DEF BillTyped
  <2> QED BY <2>4 DEF bought
<1>5. ASSUME Interrupt
      PROVE  /\ BillTyped' /\ UNCHANGED <<bill.bought, bill.kills, bill.spent>>
             /\ bill'.stops = stops /\ bill'.lost = lost /\ bill'.dropped = dropped /\ bill'.cuts = cuts
  <2>1. bill' = [bill EXCEPT !.stops = stops, !.lost = lost, !.dropped = dropped, !.cuts = cuts]
    BY <1>5 DEF Interrupt
  <2> HIDE DEF stops, lost, dropped, cuts
  <2>2. bill' = [runs |-> bill.runs, spent |-> bill.spent, dropped |-> dropped, cuts |-> cuts,
                 bought |-> bill.bought, lost |-> lost, stops |-> stops, kills |-> bill.kills]
    BY <2>1 DEF BillTyped
  <2> QED BY <2>2, <1>1, <1>3 DEF BillTyped
<1> QED BY <1>4, <1>5

(* ------------------------- an answer is bought once ----------------------- *)
(* What is on disk or in the buffer, in order; a call that is under way or    *)
(* holds its answer, or whose answer is being counted.                        *)
Written == folder.lines \o proc.buffer
Asking == proc.phase \in {"calling", "holding"}
Busy == proc.phase # "next"
Held == IF proc.phase = "holding" THEN 1 ELSE 0

(* No answer has two lines, and none that is still to be asked for, asked for *)
(* or held has one, unless the run will pass over it.                         *)
OnceOK ==
    /\ OneLineEach(Written)
    /\ Distinct(proc.todo)
    /\ \A k \in DOMAIN proc.todo : proc.todo[k] \in IdsOf(Written) => proc.todo[k] \in proc.done
    /\ Busy => proc.on /\ proc.at \in Ids
    /\ Asking => /\ proc.at \notin IdsOf(Written)
                 /\ \A k \in DOMAIN proc.todo : proc.todo[k] # proc.at
    /\ ~proc.on => proc = Resting
    /\ tool = "generate" => proc.buffer = <<>>

(* Every answer bought is in one place.                                       *)
BillOK ==
    /\ bill.bought = Len(Written) + Held + bill.lost
    /\ tool = "generate" => bill.lost <= bill.stops

(* How lines are made: by one prompt, or at a place of the selection.         *)
PlaceOf(source, G) == Cardinality({s \in Selected(G) : s <= source})
Planned == PlanOf(<<Editor>>, Selected(proc.how[1]))
HowLines ==
    /\ tool = "generate" =>
        /\ \A i, j \in DOMAIN Written : Written[i].how = Written[j].how
        /\ proc.on => \A i \in DOMAIN Written : Written[i].how = proc.how
    /\ tool # "generate" => \A i \in DOMAIN Written : Written[i].id[1] = Editor
    /\ tool = "simulate" =>
        \A i \in DOMAIN Written :
            /\ Written[i].how \in Nat \X SUBSET Hands
            /\ Written[i].how[1] = PlaceOf(Written[i].id[2], Written[i].how[2])
HowRun ==
    proc.on =>
        /\ tool = "generate" => \E p \in Prompts : proc.how = <<p>>
        /\ tool = "paraphrase" => proc.how = <<>>
        /\ tool = "simulate" => \E g \in SUBSET Hands : proc.how = <<g>>
        /\ tool # "generate" =>
            /\ \A k \in DOMAIN proc.todo : proc.todo[k][1] = Editor
            /\ Busy => proc.at[1] = Editor
        /\ tool = "simulate" =>
            /\ \A k \in DOMAIN proc.todo :
                  proc.drawn + k \in DOMAIN Planned /\ proc.todo[k] = Planned[proc.drawn + k]
            /\ Busy => proc.drawn \in DOMAIN Planned /\ proc.at = Planned[proc.drawn]

PaidInv == Typed /\ OnceOK /\ BillOK /\ HowLines /\ HowRun

LEMMA PaidInit == Init => PaidInv
<1> SUFFICES ASSUME Init PROVE PaidInv
  OBVIOUS
<1>1. /\ folder.lines = <<>> /\ proc = Resting /\ genuine = {} /\ tool \in Tools
      /\ bill = [runs |-> 0, spent |-> [g \in Generators |-> 0], dropped |-> [g \in Generators |-> 0],
                 cuts |-> [g \in Generators |-> 0], bought |-> 0, lost |-> 0, stops |-> 0, kills |-> 0]
      /\ folder = [lines |-> <<>>, torn |-> FALSE, report |-> folder.report]
  BY DEF Init
<1>2. ~proc.on /\ proc.todo = <<>> /\ proc.phase = "next" /\ proc.buffer = <<>> /\ ProcTyped
  BY <1>1 DEF Resting, ProcTyped, RunHows, Phases
<1>3. Typed
  BY <1>1, <1>2 DEF Typed, FolderTyped, BillTyped
<1>4. Written = <<>>
  BY <1>1, <1>2 DEF Written
<1>5. OnceOK
  BY <1>1, <1>2, <1>4 DEF OnceOK, OneLineEach, Distinct, IdsOf, Busy, Asking
<1>6. BillOK
  BY <1>1, <1>2, <1>4 DEF BillOK, Held
<1>7. HowLines /\ HowRun
  BY <1>2, <1>4 DEF HowLines, HowRun
<1> QED BY <1>3, <1>5, <1>6, <1>7 DEF PaidInv

(* The lines, and what a step that adds or loses none leaves as it is.        *)
LEMMA WrittenTyped ==
    Typed => /\ Written \in Seq(Records) /\ Len(Written) = Len(folder.lines) + Len(proc.buffer)
             /\ DOMAIN Written = 1..Len(Written) /\ Len(Written) \in Nat
             /\ \A i \in DOMAIN folder.lines : i \in DOMAIN Written /\ Written[i] = folder.lines[i]
BY DEF Typed, ProcTyped, FolderTyped, Written

LEMMA LinesStay ==
    UNCHANGED <<folder.lines, proc.buffer>> => UNCHANGED Written
BY DEF Written

(* The next call.                                                             *)
LEMMA NextCallPaid ==
    ASSUME PaidInv, NextCall
    PROVE  PaidInv'
<1>1. Typed /\ ProcTyped /\ UNCHANGED <<tool, folder, genuine, bill>>
  BY DEF PaidInv, Typed, NextCall
<1>2. /\ ProcTyped' /\ Fixed /\ proc.on /\ proc.todo # <<>> /\ proc.phase = "next"
      /\ proc'.todo = Tail(proc.todo) /\ proc'.at = Head(proc.todo) /\ proc'.drawn = proc.drawn + 1
      /\ IF Head(proc.todo) \in proc.done THEN proc'.phase = "next" ELSE proc'.phase = "calling"
  BY <1>1, NextCallFields
<1>3. Typed'
  BY <1>1, <1>2 DEF Typed, FolderTyped, BillTyped
<1>4. UNCHANGED Written
  BY <1>1, <1>2, LinesStay DEF Fixed
<1>5. /\ proc.todo \in Seq(Ids) /\ Head(proc.todo) = proc.todo[1] /\ Head(proc.todo) \in Ids
      /\ 1 \in DOMAIN proc.todo /\ proc.drawn \in Nat
      /\ \A k \in DOMAIN proc'.todo : k + 1 \in DOMAIN proc.todo /\ proc'.todo[k] = proc.todo[k + 1] /\ k \in Nat \ {0}
  BY <1>1, <1>2 DEF ProcTyped
<1>6. OnceOK'
  <2>1. Distinct(proc'.todo)
    BY <1>5 DEF PaidInv, OnceOK, Distinct
  <2>2. \A k \in DOMAIN proc'.todo : proc'.todo[k] # Head(proc.todo)
    BY <1>5 DEF PaidInv, OnceOK, Distinct
  <2>3. \A k \in DOMAIN proc'.todo : proc'.todo[k] \in IdsOf(Written) => proc'.todo[k] \in proc.done
    BY <1>5 DEF PaidInv, OnceOK
  <2>4. Asking' => Head(proc.todo) \notin proc.done
    BY <1>2 DEF Asking
  <2>5. Asking' => Head(proc.todo) \notin IdsOf(Written)
    BY <2>4, <1>5 DEF PaidInv, OnceOK
  <2> QED BY <2>1, <2>2, <2>3, <2>5, <1>1, <1>2, <1>4, <1>5 DEF PaidInv, OnceOK, Fixed
<1>7. BillOK'
  BY <1>1, <1>2, <1>4 DEF PaidInv, BillOK, Held
<1>8. HowLines'
  BY <1>1, <1>2, <1>4 DEF PaidInv, HowLines, Fixed
<1>9. HowRun'
  <2>1. proc'.how = proc.how /\ Planned' = Planned
    BY <1>2 DEF Fixed, Planned
  <2>2. ASSUME tool = "simulate"
        PROVE  /\ \A k \in DOMAIN proc'.todo :
                     proc'.drawn + k \in DOMAIN Planned /\ proc'.todo[k] = Planned[proc'.drawn + k]
               /\ proc'.drawn \in DOMAIN Planned /\ proc'.at = Planned[proc'.drawn]
    <3>1. \A k \in DOMAIN proc.todo : proc.drawn + k \in DOMAIN Planned /\ proc.todo[k] = Planned[proc.drawn + k]
      BY <2>2, <1>2 DEF PaidInv, HowRun
    <3>2. \A k \in DOMAIN proc'.todo : proc'.drawn + k = proc.drawn + (k + 1)
      BY <1>2, <1>5
    <3> QED BY <3>1, <3>2, <1>2, <1>5
  <2>3. ASSUME tool # "generate"
        PROVE  (\A k \in DOMAIN proc'.todo : proc'.todo[k][1] = Editor) /\ proc'.at[1] = Editor
    BY <2>3, <1>2, <1>5 DEF PaidInv, HowRun
  <2> QED BY <2>1, <2>2, <2>3, <1>1, <1>2 DEF PaidInv, HowRun
<1> QED BY <1>3, <1>6, <1>7, <1>8, <1>9 DEF PaidInv

(* A call that failed for good: what is left to do is the end of what was.    *)
LEMMA FailedPaid ==
    ASSUME PaidInv, NEW tokens, proc.phase \in {"calling", "empty"}, proc' = Failed(tokens), BillTyped',
           UNCHANGED <<tool, folder, genuine, bill.bought, bill.lost, bill.stops>>
    PROVE  PaidInv'
<1>1. Typed /\ ProcTyped /\ Busy
  BY DEF PaidInv, Typed, Busy
<1>2. PICK m \in 1..(Len(proc.todo) + 1) :
         /\ ProcTyped' /\ Fixed /\ UNCHANGED <<proc.at, proc.drawn>> /\ proc'.phase = "next"
         /\ proc'.todo = SubSeq(proc.todo, m, Len(proc.todo))
         /\ m = 1 \/ ((\A k \in DOMAIN proc.todo : proc.todo[k][1] = proc.at[1]) => m = Len(proc.todo) + 1)
  BY <1>1, FailedFields
<1>3. Typed'
  BY <1>1, <1>2 DEF Typed, FolderTyped
<1>4. UNCHANGED Written
  BY <1>2, LinesStay DEF Fixed
<1>5. /\ proc.todo \in Seq(Ids) /\ proc.drawn \in Nat /\ m \in Nat /\ Len(proc'.todo) = Len(proc.todo) - m + 1
      /\ \A k \in DOMAIN proc'.todo :
            m + k - 1 \in DOMAIN proc.todo /\ proc'.todo[k] = proc.todo[m + k - 1] /\ k \in Nat \ {0}
  <2>1. proc.todo \in Seq(Ids) /\ proc.drawn \in Nat /\ m \in Nat
    BY <1>1 DEF ProcTyped
  <2>2. proc'.todo \in Seq(Ids) /\ Len(proc'.todo) = Len(proc.todo) - m + 1
        /\ \A i \in 1..Len(proc'.todo) : proc'.todo[i] = proc.todo[m + i - 1] /\ m + i - 1 \in 1..Len(proc.todo)
    <3>1. \A s \in Seq(Ids) : \A i \in 1..(Len(s) + 1) :
             LET t == SubSeq(s, i, Len(s))
             IN  /\ t \in Seq(Ids) /\ Len(t) = Len(s) - i + 1
                 /\ \A k \in 1..Len(t) : t[k] = s[i + k - 1] /\ i + k - 1 \in 1..Len(s)
      BY Suffix
    <3> QED BY <2>1, <1>2, <3>1, ZenonT(60)
  <2>3. DOMAIN proc.todo = 1..Len(proc.todo) /\ DOMAIN proc'.todo = 1..Len(proc'.todo)
        /\ \A k \in 1..Len(proc'.todo) : k \in Nat \ {0}
    BY <2>1, <2>2
  <2> QED BY <2>1, <2>2, <2>3
<1>6. OnceOK'
  <2>1. Distinct(proc'.todo)
    <3> SUFFICES ASSUME NEW i \in DOMAIN proc'.todo, NEW j \in DOMAIN proc'.todo, proc'.todo[i] = proc'.todo[j]
                 PROVE  i = j
      BY DEF Distinct
    <3>1. m + i - 1 \in DOMAIN proc.todo /\ m + j - 1 \in DOMAIN proc.todo
          /\ proc.todo[m + i - 1] = proc.todo[m + j - 1] /\ i \in Nat /\ j \in Nat
      BY <1>5
    <3>2. m + i - 1 = m + j - 1
      BY <3>1 DEF PaidInv, OnceOK, Distinct
    <3> QED BY <3>1, <3>2, <1>5
  <2>2. \A k \in DOMAIN proc'.todo : proc'.todo[k] \in IdsOf(Written) => proc'.todo[k] \in proc.done
    BY <1>5 DEF PaidInv, OnceOK
  <2>3. proc.on /\ proc'.on /\ ~Busy' /\ ~Asking' /\ Held' = 0
    BY <1>1, <1>2 DEF PaidInv, OnceOK, Fixed, Busy, Asking, Held
  <2> QED BY <2>1, <2>2, <2>3, <1>2, <1>4 DEF PaidInv, OnceOK, Fixed
<1>7. BillOK'
  BY <1>2, <1>4 DEF PaidInv, BillOK, Held
<1>8. HowLines'
  BY <1>2, <1>4 DEF PaidInv, HowLines, Fixed
<1>9. HowRun'
  <2>1. proc'.how = proc.how /\ Planned' = Planned /\ ~Busy' /\ proc.on
    BY <1>1, <1>2 DEF Fixed, Planned, Busy, PaidInv, OnceOK
  <2>2. ASSUME tool # "generate" PROVE \A k \in DOMAIN proc'.todo : proc'.todo[k][1] = Editor
    BY <2>1, <2>2, <1>5 DEF PaidInv, HowRun
  <2>3. ASSUME tool = "simulate"
        PROVE  \A k \in DOMAIN proc'.todo :
                  proc'.drawn + k \in DOMAIN Planned /\ proc'.todo[k] = Planned[proc'.drawn + k]
    <3>1. \A k \in DOMAIN proc.todo : proc.drawn + k \in DOMAIN Planned /\ proc.todo[k] = Planned[proc.drawn + k]
      BY <2>1, <2>3 DEF PaidInv, HowRun
    <3>2. \A k \in DOMAIN proc.todo : proc.todo[k][1] = proc.at[1]
      BY <2>1, <2>3, <1>1 DEF PaidInv, HowRun
    <3>3. CASE m = 1
      <4>1. \A k \in DOMAIN proc'.todo : m + k - 1 = k
        BY <3>3, <1>5
      <4> QED BY <4>1, <3>1, <1>2, <1>5
    <3>4. CASE m = Len(proc.todo) + 1
      <4>1. Len(proc'.todo) = 0
        BY <3>4, <1>5
      <4>2. DOMAIN proc'.todo = {}
        BY <4>1, <1>2 DEF ProcTyped
      <4> QED BY <4>2
    <3> QED BY <3>2, <3>3, <3>4, <1>2
  <2> QED BY <2>1, <2>2, <2>3 DEF PaidInv, HowRun
<1> QED BY <1>3, <1>6, <1>7, <1>8, <1>9 DEF PaidInv

(* A step within a call, or of counting its answer, that writes no line.      *)
LEMMA TurnPaid ==
    ASSUME PaidInv, ProcTyped', BillTyped', Fixed,
           UNCHANGED <<tool, folder, genuine, proc.todo, proc.at, proc.drawn, bill.lost, bill.stops>>,
           Busy, Asking' => Asking, bill'.bought + Held = bill.bought + Held'
    PROVE  PaidInv'
<1>1. Typed' /\ UNCHANGED Written
  BY LinesStay DEF PaidInv, Typed, FolderTyped, Fixed
<1>2. proc.on /\ proc'.on /\ Planned' = Planned
  BY DEF PaidInv, OnceOK, Fixed, Planned
<1>3. OnceOK'
  BY <1>1, <1>2 DEF PaidInv, OnceOK, Fixed
<1>4. BillOK'
  <2>1. Len(Written) \in Nat /\ bill.bought \in Nat /\ bill'.bought \in Nat /\ bill.lost \in Nat
    BY WrittenTyped DEF PaidInv, Typed, BillTyped
  <2>2. Held \in Nat /\ Held' \in Nat
    BY DEF Held
  <2> QED BY <1>1, <2>1, <2>2 DEF PaidInv, BillOK
<1>5. HowLines' /\ HowRun'
  BY <1>1, <1>2 DEF PaidInv, HowLines, HowRun, Fixed
<1> QED BY <1>1, <1>3, <1>4, <1>5 DEF PaidInv

LEMMA CallPaid ==
    ASSUME PaidInv, CallEnds \/ CountEmpty \/ CountRecord \/ CountTokens
    PROVE  PaidInv'
<1>1. Typed /\ ProcTyped /\ BillTyped
  BY DEF PaidInv, Typed
<1>2. ASSUME NEW e \in Errors, CallFails(e), Retry(e) PROVE PaidInv'
  <2>1. proc.phase = "calling" /\ UNCHANGED <<tool, folder, genuine, bill>>
    BY <1>2 DEF CallFails
  <2>2. ProcTyped' /\ Fixed /\ UNCHANGED <<proc.todo, proc.at, proc.drawn, proc.phase>>
    BY <1>1, <1>2, RetryFields
  <2>3. BillTyped' /\ Busy /\ Asking /\ Held' = Held
    BY <1>1, <2>1, <2>2 DEF BillTyped, Busy, Asking, Held
  <2> QED BY <2>1, <2>2, <2>3, TurnPaid
<1>3. ASSUME NEW e \in Errors, CallFails(e), ~Retry(e) PROVE PaidInv'
  <2>1. proc.phase = "calling" /\ proc' = Failed(0) /\ UNCHANGED <<tool, folder, genuine, bill>>
    BY <1>3 DEF CallFails
  <2>2. BillTyped'
    BY <1>1, <2>1 DEF BillTyped
  <2> QED BY <2>1, <2>2, FailedPaid
<1>4. CASE CountEmpty
  <2>1. proc.phase = "empty" /\ proc' = Failed(1) /\ UNCHANGED <<tool, folder, genuine, bill>>
    BY <1>4 DEF CountEmpty
  <2>2. BillTyped'
    BY <1>1, <2>1 DEF BillTyped
  <2> QED BY <2>1, <2>2, FailedPaid
<1>5. CASE CallReturnsNothing
  <2>1. UNCHANGED <<tool, folder, genuine>> /\ ~CallReturnsText
    <3>1. proc'.phase = "empty"
      BY <1>1, <1>5, NothingFields
    <3>2. CallReturnsText => proc'.phase = "holding"
      BY <1>1, TextFields
    <3> QED BY <1>5, <3>1, <3>2 DEF CallReturnsNothing
  <2>2. /\ ProcTyped' /\ Fixed /\ UNCHANGED <<proc.todo, proc.at, proc.drawn>>
        /\ proc.phase = "calling" /\ proc'.phase = "empty"
    BY <1>1, <1>5, NothingFields
  <2>3. BillTyped' /\ UNCHANGED <<bill.bought, bill.lost, bill.stops>>
    BY <1>1, <1>5, <2>1, BillFields
  <2>4. Busy /\ Asking /\ Held = 0 /\ Held' = 0
    BY <2>2 DEF Busy, Asking, Held
  <2> QED BY <2>1, <2>2, <2>3, <2>4, TurnPaid
<1>6. CASE CallReturnsText
  <2>1. UNCHANGED <<tool, folder, genuine>>
    BY <1>6 DEF CallReturnsText
  <2>2. /\ ProcTyped' /\ Fixed /\ UNCHANGED <<proc.todo, proc.at, proc.drawn>>
        /\ proc.phase = "calling" /\ proc'.phase = "holding"
    BY <1>1, <1>6, TextFields
  <2>3. BillTyped' /\ bill'.bought = bill.bought + 1 /\ UNCHANGED <<bill.lost, bill.stops>>
    BY <1>1, <1>6, BillFields
  <2>4. Busy /\ Asking /\ Held = 0 /\ Held' = 1
    BY <2>2 DEF Busy, Asking, Held
  <2>5. bill'.bought + Held = bill.bought + Held'
    BY <2>3, <2>4, <1>1 DEF BillTyped
  <2> QED BY <2>1, <2>2, <2>3, <2>4, <2>5, TurnPaid
<1>7. CASE CountRecord \/ CountTokens
  <2>1. /\ ProcTyped' /\ Fixed /\ UNCHANGED <<tool, folder, genuine, bill>>
        /\ UNCHANGED <<proc.todo, proc.at, proc.drawn>>
        /\ proc.phase \in {"written", "billing"} /\ proc'.phase \in {"next", "billing"}
    BY <1>1, <1>7, CountFields
  <2>2. BillTyped' /\ Busy /\ ~Asking' /\ Held = 0 /\ Held' = 0
    BY <1>1, <2>1 DEF BillTyped, Busy, Asking, Held
  <2> QED BY <2>1, <2>2, TurnPaid
<1> QED BY <1>2, <1>3, <1>4, <1>5, <1>6, <1>7 DEF CallEnds

(* The answer becomes a line.                                                 *)
LEMMA LineTyped ==
    ASSUME PaidInv, proc.phase = "holding"
    PROVE  Line \in Records /\ Line.how \in LineHows
<1>1. Typed /\ ProcTyped /\ FolderTyped /\ BillTyped /\ Busy /\ Asking
  BY DEF PaidInv, Typed, Busy, Asking
<1>2. proc.on /\ proc.at \in Ids /\ proc.at \notin IdsOf(Written) /\ proc.drawn \in Nat
  BY <1>1 DEF PaidInv, OnceOK, ProcTyped
<1>3. Line.id = proc.at /\ Line.how = (IF tool = "simulate" THEN <<proc.drawn, proc.how[1]>> ELSE proc.how)
  BY DEF Line
<1>4. tool \in {"generate", "paraphrase", "simulate"}
  BY <1>1, GenerationAssumption DEF Typed
<1>5. Line.how \in LineHows
  <2>1. CASE tool = "generate"
    <3>1. \E p \in Prompts : proc.how = <<p>>
      BY <2>1, <1>2 DEF PaidInv, HowRun
    <3> QED BY <2>1, <3>1, <1>3 DEF LineHows
  <2>2. CASE tool = "paraphrase"
    BY <2>2, <1>2, <1>3 DEF PaidInv, HowRun, LineHows
  <2>3. CASE tool = "simulate"
    <3>1. PICK g \in SUBSET Hands : proc.how = <<g>>
      BY <2>3, <1>2 DEF PaidInv, HowRun
    <3>2. Line.how = <<proc.drawn, g>>
      BY <2>3, <3>1, <1>3
    <3> QED BY <3>2, <1>2 DEF LineHows
  <2> QED BY <2>1, <2>2, <2>3, <1>4
<1>6. Line \in Records
  <2>1. Line = [id |-> Line.id, how |-> Line.how]
    BY DEF Line
  <2> QED BY <2>1, <1>2, <1>3, <1>5 DEF Records
<1> QED BY <1>5, <1>6

LEMMA RecordPaid ==
    ASSUME PaidInv, WriteRecord
    PROVE  PaidInv'
<1>1. Typed /\ ProcTyped /\ FolderTyped /\ BillTyped /\ Busy /\ Asking /\ proc.phase = "holding"
  BY DEF PaidInv, Typed, Busy, Asking, WriteRecord
<1>2. proc.on /\ proc.at \in Ids /\ proc.at \notin IdsOf(Written) /\ proc.drawn \in Nat
  BY <1>1 DEF PaidInv, OnceOK, ProcTyped
<1>3. Line.id = proc.at /\ Line.how = (IF tool = "simulate" THEN <<proc.drawn, proc.how[1]>> ELSE proc.how)
  BY DEF Line
<1>4. tool \in {"generate", "paraphrase", "simulate"}
  BY <1>1, GenerationAssumption DEF Typed
<1>5. Line.how \in LineHows
  BY <1>1, LineTyped
<1>6. Line \in Records
  BY <1>1, LineTyped
<1>7. /\ ProcTyped' /\ FolderTyped'
      /\ UNCHANGED <<proc.on, proc.done, proc.todo, proc.at, proc.drawn, proc.how>>
      /\ proc'.phase = "written"
      /\ IF tool = "generate"
         THEN folder'.lines = Append(folder.lines, Line) /\ proc'.buffer = proc.buffer
         ELSE folder'.lines = folder.lines /\ proc'.buffer = Append(proc.buffer, Line)
  BY <1>1, <1>6, RecordFields
<1>8. UNCHANGED <<tool, genuine, bill>>
  BY DEF WriteRecord
<1>9. Typed'
  BY <1>1, <1>7, <1>8 DEF Typed, BillTyped
<1>10. /\ Len(Written') = Len(Written) + 1 /\ Written'[Len(Written) + 1] = Line
       /\ \A i \in 1..Len(Written) : Written'[i] = Written[i]
  <2>1. folder.lines \in Seq(Records) /\ proc.buffer \in Seq(Records)
    BY <1>1 DEF ProcTyped, FolderTyped
  <2>2. CASE tool = "generate"
    <3>1. proc.buffer = <<>> /\ proc'.buffer = <<>>
      BY <2>2, <1>7 DEF PaidInv, OnceOK
    <3>2. Written = folder.lines /\ Written' = Append(folder.lines, Line)
      BY <2>1, <2>2, <3>1, <1>6, <1>7 DEF Written
    <3> QED BY <2>1, <3>2, <1>6
  <2>3. CASE tool # "generate"
    <3>1. Written = folder.lines \o proc.buffer /\ Written' = folder.lines \o Append(proc.buffer, Line)
      BY <2>3, <1>7 DEF Written
    <3> DEFINE A == folder.lines
               B == proc.buffer
               C == Append(B, Line)
    <3>2. /\ C \in Seq(Records) /\ Len(C) = Len(B) + 1 /\ C[Len(B) + 1] = Line
          /\ \A i \in 1..Len(B) : C[i] = B[i]
      BY <2>1, <1>6
    <3>3. Len(A) \in Nat /\ Len(B) \in Nat
      BY <2>1
    <3> HIDE DEF A, B, C
    <3>4. /\ Len(A \o B) = Len(A) + Len(B) /\ Len(A \o C) = Len(A) + Len(C)
          /\ \A i \in 1..(Len(A) + Len(B)) : (A \o B)[i] = IF i <= Len(A) THEN A[i] ELSE B[i - Len(A)]
          /\ \A i \in 1..(Len(A) + Len(C)) : (A \o C)[i] = IF i <= Len(A) THEN A[i] ELSE C[i - Len(A)]
      BY <2>1, <3>2, ConcatProperties DEF A, B
    <3>5. Len(A \o C) = Len(A \o B) + 1 /\ (A \o C)[Len(A \o B) + 1] = Line
      BY <3>2, <3>3, <3>4
    <3>6. \A i \in 1..Len(A \o B) : (A \o C)[i] = (A \o B)[i]
      <4> SUFFICES ASSUME NEW i \in 1..(Len(A) + Len(B)) PROVE (A \o C)[i] = (A \o B)[i]
        BY <3>4
      <4>1. CASE i <= Len(A)
        BY <4>1, <3>2, <3>3, <3>4
      <4>2. CASE ~(i <= Len(A))
        <5>1. i - Len(A) \in 1..Len(B)
          BY <4>2, <3>3
        <5> QED BY <4>2, <5>1, <3>2, <3>3, <3>4
      <4> QED BY <4>1, <4>2
    <3> QED BY <3>1, <3>5, <3>6 DEF A, B, C
  <2> QED BY <2>2, <2>3
<1>11. DOMAIN Written = 1..Len(Written) /\ DOMAIN Written' = 1..(Len(Written) + 1) /\ Len(Written) \in Nat
       /\ \A i \in DOMAIN Written' : i \in DOMAIN Written \/ i = Len(Written) + 1
  <2>1. DOMAIN Written = 1..Len(Written) /\ Len(Written) \in Nat
    BY <1>1, WrittenTyped
  <2>2. (DOMAIN Written = 1..Len(Written))'
    BY <1>9, WrittenTyped
  <2> QED BY <2>1, <2>2, <1>10
<1>12. IdsOf(Written') = IdsOf(Written) \cup {proc.at}
  BY <1>3, <1>10, <1>11 DEF IdsOf
<1>13. ~Asking' /\ Held = 1 /\ Held' = 0 /\ Planned' = Planned
  BY <1>1, <1>7 DEF Asking, Held, Planned
<1>14. OnceOK'
  <2>1. OneLineEach(Written')
    <3> SUFFICES ASSUME NEW i \in DOMAIN Written', NEW j \in DOMAIN Written', Written'[i].id = Written'[j].id
                 PROVE  i = j
      BY DEF OneLineEach
    <3>1. \A k \in DOMAIN Written : Written'[k].id \in IdsOf(Written) /\ Written'[k] = Written[k]
      BY <1>10, <1>11 DEF IdsOf
    <3>2. Written'[Len(Written) + 1].id = proc.at
      BY <1>3, <1>10
    <3>3. CASE i \in DOMAIN Written /\ j \in DOMAIN Written
      BY <3>1, <3>3 DEF PaidInv, OnceOK, OneLineEach
    <3> QED BY <3>1, <3>2, <3>3, <1>2, <1>11
  <2>2. \A k \in DOMAIN proc.todo : proc.todo[k] # proc.at
    BY <1>1 DEF PaidInv, OnceOK
  <2>3. \A k \in DOMAIN proc'.todo : proc'.todo[k] \in IdsOf(Written') => proc'.todo[k] \in proc'.done
    BY <2>2, <1>7, <1>12 DEF PaidInv, OnceOK
  <2>4. Distinct(proc'.todo) /\ (tool = "generate" => proc'.buffer = <<>>) /\ proc'.on
    BY <1>2, <1>7 DEF PaidInv, OnceOK
  <2> QED BY <2>1, <2>3, <2>4, <1>2, <1>7, <1>8, <1>13 DEF OnceOK
<1>15. BillOK'
  <2>1. bill.bought = Len(Written) + Held + bill.lost /\ bill.lost \in Nat
    BY <1>1 DEF PaidInv, BillOK, BillTyped
  <2>2. bill.bought = Len(Written') + 0 + bill.lost
    BY <2>1, <1>10, <1>11, <1>13
  <2> QED BY <2>2, <1>8, <1>13 DEF PaidInv, BillOK
<1>16. HowLines'
  <2>1. ASSUME tool = "generate"
        PROVE  \A i \in DOMAIN Written' : Written'[i].how = proc.how
    BY <2>1, <1>2, <1>3, <1>10, <1>11 DEF PaidInv, HowLines
  <2>2. ASSUME tool # "generate" PROVE \A i \in DOMAIN Written' : Written'[i].id[1] = Editor
    <3>1. proc.at[1] = Editor
      BY <2>2, <1>1, <1>2 DEF PaidInv, HowRun
    <3> QED BY <2>2, <3>1, <1>3, <1>10, <1>11 DEF PaidInv, HowLines
  <2>3. ASSUME tool = "simulate"
        PROVE  \A i \in DOMAIN Written' :
                  /\ Written'[i].how \in Nat \X SUBSET Hands
                  /\ Written'[i].how[1] = PlaceOf(Written'[i].id[2], Written'[i].how[2])
    <3>1. PICK g \in SUBSET Hands : proc.how = <<g>>
      BY <2>3, <1>2 DEF PaidInv, HowRun
    <3>2. Line.how = <<proc.drawn, g>>
      BY <2>3, <3>1, <1>3
    <3>3. proc.drawn \in DOMAIN Planned /\ proc.at = Planned[proc.drawn]
      BY <2>3, <1>1, <1>2 DEF PaidInv, HowRun
    <3>4. Planned = PlanOf(<<Editor>>, Selected(g)) /\ Selected(g) \in SUBSET Sources
      BY <3>1, Samples DEF Planned
    <3>5. Rank(Selected(g), proc.at[2]) = proc.drawn
      BY <3>3, <3>4, EditorsPlan
    <3>6. PlaceOf(proc.at[2], g) = proc.drawn
      BY <3>5 DEF PlaceOf, Rank
    <3>7. Line.how \in Nat \X SUBSET Hands /\ Line.how[1] = PlaceOf(Line.id[2], Line.how[2])
      BY <3>2, <3>6, <1>2, <1>3
    <3> QED BY <2>3, <3>7, <1>10, <1>11 DEF PaidInv, HowLines
  <2> QED BY <2>1, <2>2, <2>3, <1>7, <1>8 DEF HowLines
<1>17. HowRun'
  BY <1>1, <1>7, <1>8, <1>13 DEF PaidInv, HowRun
<1> QED BY <1>9, <1>14, <1>15, <1>16, <1>17 DEF PaidInv

(* A run begins: its plan asks for nothing twice, and what the folder holds   *)
(* was made the way it will make answers.                                     *)
LEMMA BeginPaid ==
    ASSUME PaidInv, NEW todo \in Seq(Ids), NEW report, NEW how \in RunHows, Begin(todo, report, how),
           Distinct(todo),
           tool = "generate" => /\ \E p \in Prompts : how = <<p>>
                                /\ \A i \in DOMAIN folder.lines : folder.lines[i].how = how,
           tool = "paraphrase" => how = <<>>,
           tool = "simulate" => /\ \E g \in SUBSET Hands : how = <<g>>
                                /\ todo = PlanOf(<<Editor>>, Selected(how[1])),
           tool # "generate" => \A k \in DOMAIN todo : todo[k][1] = Editor
    PROVE  PaidInv'
<1>1. Typed /\ BillTyped
  BY DEF PaidInv, Typed
<1>2. /\ ProcTyped' /\ BillTyped' /\ UNCHANGED <<tool, folder, genuine, bill.bought, bill.lost, bill.stops>>
      /\ ~proc.on /\ proc'.on /\ proc'.todo = todo /\ proc'.done = IdsOf(folder.lines)
      /\ proc'.phase = "next" /\ proc'.drawn = 0 /\ proc'.buffer = <<>> /\ proc'.how = how
  BY <1>1, BeginFields
<1>3. Typed'
  BY <1>1, <1>2 DEF Typed, FolderTyped
<1>4. proc.buffer = <<>> /\ proc.phase = "next"
  BY <1>2 DEF PaidInv, OnceOK, Resting
<1>5. UNCHANGED Written /\ Written = folder.lines
  BY <1>1, <1>2, <1>4 DEF Written, Typed, FolderTyped
<1>6. ~Busy' /\ ~Asking' /\ Held = 0 /\ Held' = 0
  BY <1>2, <1>4 DEF Busy, Asking, Held
<1>7. OnceOK'
  BY <1>2, <1>5, <1>6 DEF PaidInv, OnceOK
<1>8. BillOK'
  BY <1>2, <1>5, <1>6 DEF PaidInv, BillOK
<1>9. HowLines'
  BY <1>2, <1>5 DEF PaidInv, HowLines
<1>10. HowRun'
  <2>1. ASSUME tool = "simulate"
        PROVE  \A k \in DOMAIN todo : 0 + k \in DOMAIN Planned' /\ todo[k] = Planned'[0 + k]
    <3>1. Planned' = todo
      BY <2>1, <1>2 DEF Planned
    <3>2. \A k \in DOMAIN todo : 0 + k = k
      OBVIOUS
    <3> QED BY <3>1, <3>2
  <2> QED BY <2>1, <1>2, <1>6 DEF HowRun
<1> QED BY <1>3, <1>7, <1>8, <1>9, <1>10 DEF PaidInv

LEMMA StartPaid ==
    ASSUME PaidInv,
           (\E c \in Configs, n \in Pilots, p \in Prompts : StartGenerate(c, n, p)) \/ StartParaphrase \/ StartSimulate
    PROVE  PaidInv'
<1>1. genuine \in SUBSET Hands
  BY DEF PaidInv, Typed
<1>2. ASSUME NEW c \in Configs, NEW n \in Pilots, NEW p \in Prompts, StartGenerate(c, n, p) PROVE PaidInv'
  <2>1. tool = "generate" /\ Stale(p) = {} /\ Begin(PlanOf(c, 1..n), Rebuilt(c), <<p>>)
    BY <1>2 DEF StartGenerate
  <2>2. c \in Seq(Generators) /\ \A i, j \in DOMAIN c : c[i] = c[j] => i = j
    BY GenerationAssumption
  <2>3. 1..n \in SUBSET Sources
    <3>1. Cardinality(Sources) \in Nat /\ n \in 1..Cardinality(Sources) /\ Sources = 1..Cardinality(Sources)
      BY GenerationAssumption, FS_CardinalityType
    <3> QED BY <3>1
  <2>4. PlanOf(c, 1..n) \in Seq(Ids) /\ Distinct(PlanOf(c, 1..n))
    BY <2>2, <2>3, PlanTyped
  <2>5. \A i \in DOMAIN folder.lines : folder.lines[i].how = <<p>>
    BY <2>1 DEF Stale
  <2>6. <<p>> \in RunHows
    BY DEF RunHows
  <2> QED BY <2>1, <2>4, <2>5, <2>6, BeginPaid
<1>3. CASE StartParaphrase
  <2> DEFINE todo == PlanOf(<<Editor>>, StratifiedSample(LoadAnswers))
  <2>1. tool = "paraphrase" /\ Begin(todo, [Resting.report EXCEPT ![Editor] = Zero], <<>>)
    BY <1>3 DEF StartParaphrase
  <2>2. todo \in Seq(Ids) /\ Distinct(todo) /\ \A k \in DOMAIN todo : todo[k][1] = Editor
    BY Samples, EditorsPlan
  <2>3. <<>> \in RunHows
    BY DEF RunHows
  <2> HIDE DEF todo
  <2> QED BY <2>1, <2>2, <2>3, BeginPaid
<1>4. CASE StartSimulate
  <2> DEFINE todo == PlanOf(<<Editor>>, Selected(genuine))
  <2>1. tool = "simulate" /\ Begin(todo, [Resting.report EXCEPT ![Editor] = Zero], <<genuine>>)
    BY <1>4 DEF StartSimulate
  <2>2. todo \in Seq(Ids) /\ Distinct(todo) /\ \A k \in DOMAIN todo : todo[k][1] = Editor
    BY Samples, EditorsPlan
  <2>3. <<genuine>> \in RunHows /\ \E g \in SUBSET Hands : <<genuine>> = <<g>>
    BY <1>1 DEF RunHows
  <2>4. todo = PlanOf(<<Editor>>, Selected(<<genuine>>[1]))
    OBVIOUS
  <2> HIDE DEF todo
  <2> QED BY <2>1, <2>2, <2>3, <2>4, BeginPaid
<1> QED BY <1>2, <1>3, <1>4

(* A run ends: of what was written, a beginning is kept; the rest is lost.    *)
LEMMA EndPaid ==
    ASSUME PaidInv, proc.on, proc' = Resting, FolderTyped', BillTyped', UNCHANGED <<tool, genuine, bill.bought>>,
           NEW kept \in 0..Len(proc.buffer),
           folder'.lines = folder.lines \o SubSeq(proc.buffer, 1, kept),
           bill'.lost = bill.lost + (Len(proc.buffer) - kept + Held),
           bill'.stops \in {bill.stops, bill.stops + 1}, Held = 1 => bill'.stops = bill.stops + 1
    PROVE  PaidInv'
<1>1. Typed /\ ProcTyped /\ FolderTyped /\ BillTyped
  BY DEF PaidInv, Typed
<1>2. /\ ProcTyped' /\ ~proc'.on /\ proc'.todo = <<>> /\ proc'.phase = "next" /\ proc'.buffer = <<>>
  BY RestingFields
<1>3. Typed'
  BY <1>1, <1>2 DEF Typed
<1>4. /\ Written' = folder.lines \o SubSeq(proc.buffer, 1, kept)
      /\ Len(Written') = Len(folder.lines) + kept /\ kept \in Nat /\ Len(proc.buffer) \in Nat
      /\ Len(Written') <= Len(Written) /\ Len(Written') \in Nat /\ Len(Written) = Len(folder.lines) + Len(proc.buffer)
      /\ Len(Written) \in Nat /\ Len(folder.lines) \in Nat
      /\ DOMAIN Written' = 1..Len(Written') /\ DOMAIN Written = 1..Len(Written)
      /\ \A i \in DOMAIN Written' : i \in DOMAIN Written /\ Written'[i] = Written[i]
  <2> DEFINE A == folder.lines
             B == proc.buffer
             C == SubSeq(B, 1, kept)
  <2>1. A \in Seq(Records) /\ B \in Seq(Records) /\ Len(A) \in Nat /\ Len(B) \in Nat /\ kept \in Nat /\ kept <= Len(B)
    BY <1>1 DEF ProcTyped, FolderTyped
  <2>2. C \in Seq(Records) /\ Len(C) = kept /\ \A i \in 1..kept : C[i] = B[i]
    BY <2>1
  <2>3. Written' = A \o C
    <3>1. Written' = folder'.lines \o proc'.buffer
      BY DEF Written
    <3>2. A \o C \in Seq(Records)
      <4> HIDE DEF A, C
      <4> QED BY <2>1, <2>2
    <3> QED BY <3>1, <3>2, <1>2
  <2>4. Written = A \o B
    BY DEF Written
  <2>c. C = SubSeq(B, 1, kept) /\ kept \in 0..Len(B)
    OBVIOUS
  <2> HIDE DEF A, B, C
  <2>5. /\ A \o B \in Seq(Records) /\ A \o C \in Seq(Records)
        /\ Len(A \o B) = Len(A) + Len(B) /\ Len(A \o C) = Len(A) + Len(C)
        /\ \A i \in 1..(Len(A) + Len(B)) : (A \o B)[i] = IF i <= Len(A) THEN A[i] ELSE B[i - Len(A)]
        /\ \A i \in 1..(Len(A) + Len(C)) : (A \o C)[i] = IF i <= Len(A) THEN A[i] ELSE C[i - Len(A)]
    <3>1. \A s, t \in Seq(Records) :
             /\ s \o t \in Seq(Records) /\ Len(s \o t) = Len(s) + Len(t)
             /\ \A i \in 1..(Len(s) + Len(t)) : (s \o t)[i] = IF i <= Len(s) THEN s[i] ELSE t[i - Len(s)]
      BY ConcatProperties
    <3> QED BY <2>1, <2>2, <3>1
  <2>6. DOMAIN (A \o C) = 1..(Len(A) + kept) /\ DOMAIN (A \o B) = 1..(Len(A) + Len(B))
    BY <2>1, <2>2, <2>5
  <2>7. \A i \in DOMAIN (A \o C) : i \in DOMAIN (A \o B) /\ (A \o C)[i] = (A \o B)[i]
    <3>1. \A s, t \in Seq(Records) : \A m \in 0..Len(t) : \A i \in DOMAIN (s \o SubSeq(t, 1, m)) :
              i \in DOMAIN (s \o t) /\ (s \o SubSeq(t, 1, m))[i] = (s \o t)[i]
      BY Beginning
    <3> QED BY <2>1, <2>c, <3>1, ZenonT(60)
  <2>8. Len(A \o C) = Len(A) + kept /\ Len(A) + kept <= Len(A) + Len(B)
        /\ Len(A) + kept \in Nat /\ Len(A) + Len(B) \in Nat
    BY <2>1, <2>2, <2>5
  <2> QED BY <2>1, <2>3, <2>4, <2>5, <2>6, <2>7, <2>8 DEF A, B, C
<1>5. ~Busy' /\ ~Asking' /\ Held' = 0 /\ Held \in 0..1
  BY <1>2 DEF Busy, Asking, Held
<1>6. OnceOK'
  <2>1. OneLineEach(Written')
    <3>1. \A i, j \in DOMAIN Written : Written[i].id = Written[j].id => i = j
      BY DEF PaidInv, OnceOK, OneLineEach
    <3>2. SUFFICES ASSUME NEW i \in DOMAIN (Written'), NEW j \in DOMAIN (Written'), Written'[i].id = Written'[j].id
                   PROVE  i = j
      BY DEF OneLineEach
    <3>3. i \in DOMAIN Written /\ j \in DOMAIN Written /\ Written'[i] = Written[i] /\ Written'[j] = Written[j]
      BY <1>4
    <3> QED BY <3>1, <3>2, <3>3
  <2>2. Distinct(proc'.todo) /\ DOMAIN proc'.todo = {}
    BY <1>2 DEF Distinct
  <2> QED BY <2>1, <2>2, <1>2, <1>5 DEF OnceOK
<1>7. BillOK'
  <2>1. bill.bought = Len(Written) + Held + bill.lost /\ bill.lost \in Nat /\ bill.stops \in Nat
    BY <1>1 DEF PaidInv, BillOK, BillTyped
  <2>2. bill'.bought = Len(Written') + 0 + bill'.lost
    <3> DEFINE b == Len(proc.buffer)
               f == Len(folder.lines)
               h == Held
               l == bill.lost
    <3>1. b \in Nat /\ f \in Nat /\ h \in Nat /\ l \in Nat /\ kept \in Nat
      BY <1>4, <1>5, <2>1
    <3>2. bill'.bought = f + b + h + l
      BY <2>1, <1>4
    <3>3. bill'.lost = l + (b - kept + h) /\ Len(Written') = f + kept
      BY <1>4
    <3>4. f + b + h + l = f + kept + 0 + (l + (b - kept + h))
      <4> HIDE DEF b, f, h, l
      <4> QED BY <3>1
    <3> HIDE DEF b, f, h, l
    <3> QED BY <3>2, <3>3, <3>4
  <2>3. ASSUME tool = "generate" PROVE bill'.lost <= bill'.stops
    <3>1. proc.buffer = <<>> /\ bill.lost <= bill.stops
      BY <2>3 DEF PaidInv, OnceOK, BillOK
    <3>2. Len(proc.buffer) = 0 /\ kept = 0
      BY <3>1
    <3> QED BY <2>1, <3>1, <3>2, <1>5
  <2> QED BY <2>2, <2>3, <1>5 DEF BillOK
<1>8. HowLines'
  <2>1. HowLines /\ tool' = tool
    BY DEF PaidInv
  <2>2. \A i \in DOMAIN (Written') : i \in DOMAIN Written /\ Written'[i] = Written[i]
    BY <1>4
  <2>3. tool = "generate" => \A i, j \in DOMAIN (Written') : Written'[i].how = Written'[j].how
    BY <2>1, <2>2 DEF HowLines
  <2>4. tool # "generate" => \A i \in DOMAIN (Written') : Written'[i].id[1] = Editor
    BY <2>1, <2>2 DEF HowLines
  <2>5. tool = "simulate" =>
          \A i \in DOMAIN (Written') :
            /\ Written'[i].how \in Nat \X SUBSET Hands
            /\ Written'[i].how[1] = PlaceOf(Written'[i].id[2], Written'[i].how[2])
    BY <2>1, <2>2 DEF HowLines
  <2> QED BY <1>2, <2>1, <2>3, <2>4, <2>5 DEF HowLines
<1>9. HowRun'
  BY <1>2 DEF HowRun
<1> QED BY <1>3, <1>6, <1>7, <1>8, <1>9 DEF PaidInv

LEMMA StopPaid ==
    ASSUME PaidInv, Finish \/ Interrupt \/ Kill
    PROVE  PaidInv'
<1>1. Typed /\ ProcTyped /\ FolderTyped /\ BillTyped
  BY DEF PaidInv, Typed
<1>2. CASE Kill
  <2>1. PICK kept \in 0..Len(proc.buffer) :
           /\ FolderTyped' /\ BillTyped' /\ UNCHANGED <<tool, genuine, bill.bought>>
           /\ proc.on /\ proc' = Resting /\ bill'.stops = bill.stops + 1
           /\ folder'.lines = folder.lines \o SubSeq(proc.buffer, 1, kept)
           /\ bill'.lost = bill.lost + (Len(proc.buffer) - kept + Held)
    BY <1>1, <1>2, KillFields DEF Held
  <2> QED BY <2>1, EndPaid
<1>3. CASE Finish \/ Interrupt
  <2> DEFINE n == Len(proc.buffer)
  <2>1. proc.on /\ Close
    BY <1>3 DEF Finish, Interrupt
  <2>2. /\ FolderTyped' /\ folder'.lines = folder.lines \o proc.buffer /\ UNCHANGED <<tool, genuine>>
        /\ proc' = Resting
    BY <1>1, <2>1, CloseFields
  <2>3. proc.buffer \in Seq(Records) /\ n \in Nat /\ n \in 0..n /\ SubSeq(proc.buffer, 1, n) = proc.buffer /\ n - n = 0
    BY <1>1 DEF ProcTyped
  <2>4. bill.lost \in Nat /\ bill.stops \in Nat
    BY <1>1 DEF BillTyped
  <2>5. /\ BillTyped' /\ UNCHANGED bill.bought /\ bill'.lost = bill.lost + Held
        /\ bill'.stops \in {bill.stops, bill.stops + 1} /\ (Held = 1 => bill'.stops = bill.stops + 1)
    <3>1. CASE Finish
      <4>1. bill' = bill /\ Held = 0
        BY <3>1 DEF Finish, Held
      <4> QED BY <4>1, <2>4, <1>1 DEF BillTyped
    <3>2. CASE Interrupt
      BY <3>2, <1>1, BillFields DEF Held
    <3> QED BY <1>3, <3>1, <3>2
  <2>6. folder'.lines = folder.lines \o SubSeq(proc.buffer, 1, n)
    BY <2>2, <2>3
  <2>7. bill'.lost = bill.lost + (n - n + Held)
    <3>1. Held \in Nat
      BY DEF Held
    <3> HIDE DEF n
    <3> QED BY <3>1, <2>3, <2>5
  <2> HIDE DEF n
  <2>8. n \in 0..Len(proc.buffer) /\ bill'.lost = bill.lost + (Len(proc.buffer) - n + Held)
    BY <2>3, <2>7 DEF n
  <2> QED BY <2>1, <2>2, <2>5, <2>6, <2>8, EndPaid
<1> QED BY <1>2, <1>3

(* --------------------------- the tools run by hand ------------------------ *)
SheetsTyped ==
    sheets \in [written : [Editors -> DealNumbers], manifest : DealNumbers, assigns : Nat,
                back : [Editors -> [of : DealNumbers, changed : SUBSET Hands]]]

LEMMA DealtHands ==
    ASSUME NEW k \in DealNumbers, NEW e \in Editors
    PROVE  Dealt(k)[e] \subseteq Hands
BY DEF Hands

LEMMA SheetsKept ==
    ASSUME SheetsTyped, EditsNext
    PROVE  SheetsTyped'
<1>1. /\ sheets.written \in [Editors -> DealNumbers] /\ sheets.manifest \in DealNumbers /\ sheets.assigns \in Nat
      /\ sheets.back \in [Editors -> [of : DealNumbers, changed : SUBSET Hands]]
  BY DEF SheetsTyped
<1>2. ASSUME NEW k \in DOMAIN Deals, NEW dies \in BOOLEAN, Assign(k, dies) PROVE SheetsTyped'
  <2> DEFINE written == [e \in Editors |-> IF HasSheet(k, e) THEN k ELSE sheets.written[e]]
             manifest == IF dies THEN sheets.manifest ELSE k
  <2>1. written \in [Editors -> DealNumbers] /\ manifest \in DealNumbers
    BY <1>1 DEF DealNumbers
  <2>2. sheets' = [sheets EXCEPT !.assigns = @ + 1, !.written = written, !.manifest = manifest]
    BY <1>2 DEF Assign
  <2>3. sheets = [written |-> sheets.written, manifest |-> sheets.manifest, assigns |-> sheets.assigns, back |-> sheets.back]
    BY DEF SheetsTyped
  <2> HIDE DEF written, manifest
  <2>4. sheets' = [written |-> written, manifest |-> manifest, assigns |-> sheets.assigns + 1, back |-> sheets.back]
    BY <2>2, <2>3
  <2> QED BY <1>1, <2>1, <2>4 DEF SheetsTyped
<1>3. ASSUME NEW e \in Editors, NEW changed \in SUBSET Dealt(sheets.written[e])[e], Return(e, changed) PROVE SheetsTyped'
  <2>1. sheets.written[e] \in DealNumbers
    BY <1>1
  <2>2. changed \in SUBSET Hands
    BY <2>1, DealtHands
  <2> DEFINE row == [of |-> sheets.written[e], changed |-> changed]
  <2>3. row \in [of : DealNumbers, changed : SUBSET Hands]
    BY <2>1, <2>2
  <2>4. sheets' = [sheets EXCEPT !.back[e] = row]
    BY <1>3 DEF Return
  <2> HIDE DEF row
  <2> QED BY <1>1, <2>3, <2>4 DEF SheetsTyped
<1>4. ASSUME UNCHANGED sheets PROVE SheetsTyped'
  BY <1>4 DEF SheetsTyped
<1>5. ASSUME Next /\ UNCHANGED editVars PROVE UNCHANGED sheets
  BY <1>5 DEF editVars
<1>6. ASSUME NEW k \in DOMAIN Deals, Collect(k) PROVE UNCHANGED sheets
  BY <1>6 DEF Collect, editVars
<1>7. ASSUME NEW lines, Build(lines) PROVE UNCHANGED sheets
  BY <1>7 DEF Build
<1>8. ASSUME NEW lines, NEW setting, NEW files, RunFilter(lines, setting, files) PROVE UNCHANGED sheets
  BY <1>8 DEF RunFilter
<1> QED BY <1>2, <1>3, <1>4, <1>5, <1>6, <1>7, <1>8 DEF EditsNext

(* They leave the paid runs alone, but for the answers edited by hand that    *)
(* the next simulation is to pass over.                                       *)
LEMMA HandsLeaveRuns ==
    ASSUME PaidInv, UNCHANGED <<tool, folder, proc, bill>>, genuine' \in SUBSET Hands
    PROVE  PaidInv'
<1>1. UNCHANGED <<Written, Busy, Asking, Held, Planned>>
  BY DEF Written, Busy, Asking, Held, Planned
<1>2. Typed'
  BY DEF PaidInv, Typed, ProcTyped, FolderTyped, BillTyped
<1>3. OnceOK' /\ BillOK'
  BY <1>1 DEF PaidInv, OnceOK, BillOK
<1>4. HowLines' /\ HowRun'
  BY <1>1 DEF PaidInv, HowLines, HowRun
<1> QED BY <1>2, <1>3, <1>4 DEF PaidInv

LEMMA RunsPaid == ASSUME PaidInv, Next PROVE PaidInv'
<1>1. CASE \E c \in Configs, n \in Pilots, p \in Prompts : StartGenerate(c, n, p)
  BY <1>1, StartPaid
<1>2. CASE StartParaphrase \/ StartSimulate
  BY <1>2, StartPaid
<1>3. CASE Steps \/ CallEnds
  BY <1>3, NextCallPaid, CallPaid, RecordPaid, StopPaid DEF Steps
<1>4. CASE Interrupt \/ Kill
  BY <1>4, StopPaid
<1> QED BY <1>1, <1>2, <1>3, <1>4 DEF Next

LEMMA EditsPaid ==
    ASSUME PaidInv, SheetsTyped, [EditsNext]_allVars
    PROVE  PaidInv'
<1>1. genuine \in SUBSET Hands
  BY DEF PaidInv, Typed
<1>2. CASE UNCHANGED vars
  BY <1>1, <1>2, HandsLeaveRuns DEF vars
<1>3. CASE Next
  BY <1>3, RunsPaid
<1>4. ASSUME NEW k \in DOMAIN Deals, Collect(k) PROVE PaidInv'
  <2>1. \A e \in Editors : sheets.back[e].changed \in SUBSET Hands
    BY DEF SheetsTyped
  <2>2. genuine' \in SUBSET Hands /\ UNCHANGED <<tool, folder, proc, bill>>
    BY <1>4, <2>1 DEF Collect
  <2> QED BY <2>2, HandsLeaveRuns
<1>5. ASSUME NEW k, NEW dies, Assign(k, dies) PROVE UNCHANGED vars
  BY <1>5 DEF Assign
<1>6. ASSUME NEW e, NEW changed, Return(e, changed) PROVE UNCHANGED vars
  BY <1>6 DEF Return
<1>7. ASSUME NEW lines, Build(lines) PROVE UNCHANGED vars
  BY <1>7 DEF Build
<1>8. ASSUME NEW lines, NEW setting, NEW files, RunFilter(lines, setting, files) PROVE UNCHANGED vars
  BY <1>8 DEF RunFilter
<1>9. CASE UNCHANGED allVars
  BY <1>2, <1>9 DEF allVars
<1> QED BY <1>2, <1>3, <1>4, <1>5, <1>6, <1>7, <1>8, <1>9 DEF EditsNext

(* --------------------------- the files built from them -------------------- *)
SetsTyped ==
    /\ sets = [edited |-> sets.edited, kept |-> sets.kept, excluded |-> sets.excluded,
               report |-> sets.report, filters |-> sets.filters]
    /\ {sets.kept.run, sets.excluded.run, sets.report.run, sets.filters} \subseteq Nat
    /\ sets.kept.run <= sets.filters
SetsInv == SetsTyped /\ EachAnswerOnce

(* What a reader sees of the folder is a beginning of what was written.       *)
LEMMA VisibleOnce ==
    ASSUME PaidInv, NEW lines \in Visible
    PROVE  /\ \A i \in DOMAIN lines : lines[i] \in Records
           /\ OneLineEach(lines)
           /\ tool # "generate" => \A i \in DOMAIN lines : lines[i].id[1] = Editor
<1>1. PICK k \in 0..Len(proc.buffer) : lines = folder.lines \o SubSeq(proc.buffer, 1, k)
  BY DEF Visible
<1>2. folder.lines \in Seq(Records) /\ proc.buffer \in Seq(Records)
  BY DEF PaidInv, Typed, ProcTyped, FolderTyped
<1>3. \A i \in DOMAIN lines : i \in DOMAIN Written /\ lines[i] = Written[i]
  <2>1. \A i \in DOMAIN (folder.lines \o SubSeq(proc.buffer, 1, k)) :
          i \in DOMAIN (folder.lines \o proc.buffer)
          /\ (folder.lines \o SubSeq(proc.buffer, 1, k))[i] = (folder.lines \o proc.buffer)[i]
    <3>1. \A s, t \in Seq(Records) : \A m \in 0..Len(t) : \A i \in DOMAIN (s \o SubSeq(t, 1, m)) :
              i \in DOMAIN (s \o t) /\ (s \o SubSeq(t, 1, m))[i] = (s \o t)[i]
      BY Beginning
    <3> QED BY <1>2, <3>1, ZenonT(60)
  <2> QED BY <1>1, <2>1 DEF Written
<1>4. Written \in Seq(Records)
  BY WrittenTyped DEF PaidInv
<1>5. \A i \in DOMAIN Written : Written[i] \in Records
  BY <1>4
<1>6. OneLineEach(Written) /\ (tool # "generate" => \A i \in DOMAIN Written : Written[i].id[1] = Editor)
  BY DEF PaidInv, OnceOK, HowLines
<1>7. OneLineEach(lines)
  <2> SUFFICES ASSUME NEW i \in DOMAIN lines, NEW j \in DOMAIN lines, lines[i].id = lines[j].id
               PROVE  i = j
    BY DEF OneLineEach
  <2>1. i \in DOMAIN Written /\ j \in DOMAIN Written /\ Written[i].id = Written[j].id
    BY <1>3
  <2> QED BY <1>6, <2>1 DEF OneLineEach
<1> QED BY <1>3, <1>5, <1>6, <1>7

LEMMA BuildOnce ==
    ASSUME PaidInv, SetsInv, NEW lines \in Visible, Build(lines)
    PROVE  SetsInv'
<1> DEFINE G == {<<s, "genuine", 1>> : s \in genuine}
           M == {<<lines[i].id[2], "simulated", i>> : i \in {i \in DOMAIN lines : lines[i].id[2] \notin Unmoved}}
<1>1. sets' = [sets EXCEPT !.edited = G \cup M] /\ ~BothKinds(lines) /\ tool # "generate"
  BY DEF Build
<1>2. ASSUME NEW x \in G, NEW y \in G, x[1] = y[1] PROVE x = y
  BY <1>2
<1>3. ASSUME NEW x \in M, NEW y \in M, x[1] = y[1] PROVE x = y
  <2>1. PICK i \in DOMAIN lines : x = <<lines[i].id[2], "simulated", i>>
    OBVIOUS
  <2>2. PICK j \in DOMAIN lines : y = <<lines[j].id[2], "simulated", j>>
    OBVIOUS
  <2>3. lines[i].id \in Ids /\ lines[j].id \in Ids /\ lines[i].id[1] = lines[j].id[1]
    BY VisibleOnce, <1>1 DEF Records
  <2>4. lines[i].id[2] = lines[j].id[2]
    BY <1>3, <2>1, <2>2
  <2>5. lines[i].id = lines[j].id
    BY <2>3, <2>4 DEF Ids
  <2>6. i = j
    BY <2>5, VisibleOnce DEF OneLineEach
  <2> QED BY <2>1, <2>2, <2>6
<1>4. ASSUME NEW x \in G, NEW y \in M PROVE x[1] # y[1]
  BY <1>1 DEF BothKinds
<1>5. \A x, y \in G \cup M : x[1] = y[1] => x = y
  <2> HIDE DEF G, M
  <2> QED BY <1>2, <1>3, <1>4
<1>6. sets' = [edited |-> G \cup M, kept |-> sets.kept, excluded |-> sets.excluded,
               report |-> sets.report, filters |-> sets.filters]
  <2> HIDE DEF G, M
  <2> QED BY <1>1 DEF SetsInv, SetsTyped
<1> HIDE DEF G, M
<1>7. sets'.edited = G \cup M /\ UNCHANGED <<sets.kept, sets.excluded, sets.report, sets.filters>>
  BY <1>6
<1>8. SetsTyped'
  BY <1>6, <1>7 DEF SetsInv, SetsTyped
<1>9. EachAnswerOnce'
  BY <1>5, <1>7 DEF SetsInv, EachAnswerOnce
<1> QED BY <1>8, <1>9 DEF SetsInv

LEMMA FilterOnce ==
    ASSUME PaidInv, SetsInv, NEW lines \in Visible, NEW setting, NEW files \in 1..3, RunFilter(lines, setting, files)
    PROVE  SetsInv'
<1> DEFINE n == sets.filters + 1
           passed == {i \in DOMAIN lines : ~ExclusionReason(lines[i].id, setting)}
           P == {<<lines[i].id, i>> : i \in passed}
           X == {<<lines[i].id, i>> : i \in DOMAIN lines \ passed}
           kept == IF 1 <= files THEN [run |-> n, ids |-> P] ELSE sets.kept
           excluded == IF 2 <= files THEN [run |-> n, ids |-> X] ELSE sets.excluded
           report == IF 3 <= files THEN [run |-> n, ids |-> P] ELSE sets.report
<1>1. sets' = [sets EXCEPT !.filters = n, !.kept = kept, !.excluded = excluded, !.report = report]
  BY DEF RunFilter
<1>2. ASSUME NEW i \in DOMAIN lines, NEW j \in DOMAIN lines, lines[i].id = lines[j].id PROVE i = j
  BY <1>2, VisibleOnce DEF OneLineEach
<1>3. \A x, y \in P : x[1] = y[1] => x = y
  BY <1>2
<1>4. {x[1] : x \in P} \cap {x[1] : x \in X} = {}
  BY <1>2
<1> HIDE DEF P, X
<1>5. /\ sets.filters \in Nat /\ sets.kept.run \in Nat /\ sets.excluded.run \in Nat /\ sets.report.run \in Nat
      /\ sets.kept.run <= sets.filters /\ sets.report.run <= sets.excluded.run /\ sets.excluded.run <= sets.kept.run
  BY DEF SetsInv, SetsTyped, EachAnswerOnce
<1>6. n \in Nat /\ sets.excluded.run < n /\ sets.report.run < n
  BY <1>5
<1>7. kept.run = n /\ kept.ids = P
  OBVIOUS
<1>8. /\ excluded.run \in Nat /\ excluded.run <= n
      /\ excluded.run = n => excluded.ids = X
      /\ report.run \in Nat /\ report.run <= excluded.run
  <2>1. CASE files = 1
    BY <1>5, <1>6, <2>1
  <2>2. CASE files = 2
    BY <1>5, <1>6, <2>2
  <2>3. CASE files = 3
    BY <1>5, <1>6, <2>3
  <2> QED BY <2>1, <2>2, <2>3
<1> HIDE DEF n, kept, excluded, report
<1>9. sets' = [edited |-> sets.edited, kept |-> kept, excluded |-> excluded, report |-> report, filters |-> n]
  BY <1>1 DEF SetsInv, SetsTyped
<1>10. sets'.edited = sets.edited /\ sets'.kept = kept /\ sets'.excluded = excluded /\ sets'.report = report /\ sets'.filters = n
  BY <1>9
<1>11. SetsTyped'
  BY <1>6, <1>7, <1>8, <1>9, <1>10 DEF SetsTyped
<1>12. report.run = kept.run => report.ids = kept.ids
  <2>1. CASE files = 3
    BY <2>1, <1>7 DEF report
  <2>2. CASE files # 3
    <3>1. report = sets.report
      BY <2>2 DEF report
    <3> QED BY <3>1, <1>6, <1>7
  <2> QED BY <2>1, <2>2
<1>13. EachAnswerOnce'
  BY <1>3, <1>4, <1>7, <1>8, <1>10, <1>12 DEF SetsInv, EachAnswerOnce
<1> QED BY <1>11, <1>13 DEF SetsInv

LEMMA SetsKept ==
    ASSUME PaidInv, SetsInv, [EditsNext]_allVars
    PROVE  SetsInv'
<1>1. CASE UNCHANGED sets
  BY <1>1 DEF SetsInv, SetsTyped, EachAnswerOnce
<1>2. ASSUME NEW k, NEW dies, Assign(k, dies) PROVE UNCHANGED sets
  BY <1>2 DEF Assign
<1>3. ASSUME NEW e, NEW changed, Return(e, changed) PROVE UNCHANGED sets
  BY <1>3 DEF Return
<1>4. ASSUME NEW k, Collect(k) PROVE UNCHANGED sets
  BY <1>4 DEF Collect, editVars
<1>5. CASE UNCHANGED editVars \/ UNCHANGED allVars
  BY <1>1, <1>5 DEF allVars, editVars
<1> QED BY <1>1, <1>2, <1>3, <1>4, <1>5, BuildOnce, FilterOnce DEF EditsNext

(* ---------------------------- the report adds up -------------------------- *)
(* What a report counts: the running process's, or the one on disk.           *)
Told == IF proc.on THEN proc.report ELSE folder.report

(* A generator's books: its lines, what it was charged, its entry, and of the *)
(* answer at hand whether it is no line yet or none that is counted, or what  *)
(* it cost is not counted.                                                    *)
At(g, phases) == IF proc.at[1] = g /\ proc.phase \in phases THEN 1 ELSE 0
Books(g) ==
    [lines |-> RecordsOf(g, folder.lines), spent |-> bill.spent[g],
     succeeded |-> Told[g].succeeded, tokens |-> Told[g].tokens,
     unwritten |-> At(g, {"empty", "holding"}), uncounted |-> At(g, {"written"}),
     owed |-> At(g, {"empty", "holding", "written", "billing"})]
AnyBooks == [lines : Nat, spent : Nat, succeeded : Nat \cup {-1}, tokens : Nat,
             unwritten : 0..1, uncounted : 0..1, owed : 0..1]

(* Nothing is claimed that was not; without a kill a line is missing at most; *)
(* and without a cut nothing is, but what was dropped.                        *)
Exact(b) == b.succeeded + b.uncounted = b.lines
Add(b, dropped, unkilled, uncut) ==
    /\ b.lines + b.unwritten <= b.spent /\ b.succeeded <= b.lines /\ b.tokens + b.owed <= b.spent
    /\ unkilled => b.lines <= b.succeeded + 1
    /\ unkilled /\ uncut =>
        /\ Exact(b) \/ (b.succeeded = -1 /\ b.lines = 0 /\ b.tokens = 0)
        /\ b.tokens + b.owed + dropped = b.spent
Accounted(g) == Add(Books(g), bill.dropped[g], bill.kills = 0, bill.cuts[g] = 0)

(* A running process's entry is exact for every generator it asks or is still *)
(* to ask; what it found on disk claims no more than is there now.            *)
Asked(g) == (\E k \in DOMAIN proc.todo : proc.todo[k][1] = g) \/ (Busy /\ proc.at[1] = g)
Older(g) == folder.report[g].succeeded <= RecordsOf(g, folder.lines) /\ folder.report[g].tokens <= bill.spent[g]
Sums ==
    /\ folder.report \in [Generators -> Entry]
    /\ proc.on => proc.report \in [Generators -> Entry]
    /\ \A g \in Generators :
        /\ Accounted(g) /\ Older(g)
        /\ proc.on /\ Asked(g) => Exact(Books(g))
ReportInv == tool = "generate" => Sums

(* How the books move: an answer is bought, written, counted, and its tokens. *)
Bought(b, c) ==
    /\ b.unwritten = 0 /\ b.owed = 0 /\ c.spent = b.spent + 1 /\ c.unwritten = 1 /\ c.owed = 1
    /\ c.lines = b.lines /\ c.succeeded = b.succeeded /\ c.tokens = b.tokens /\ c.uncounted = b.uncounted
Noted(b, c) ==
    /\ b.unwritten = 1 /\ b.uncounted = 0 /\ c.lines = b.lines + 1 /\ c.unwritten = 0 /\ c.uncounted = 1
    /\ c.spent = b.spent /\ c.succeeded = b.succeeded /\ c.tokens = b.tokens /\ c.owed = b.owed
CountedOne(b, c) ==
    /\ b.uncounted = 1 /\ c.succeeded = b.succeeded + 1 /\ c.uncounted = 0
    /\ c.lines = b.lines /\ c.spent = b.spent /\ c.tokens = b.tokens
    /\ c.unwritten = b.unwritten /\ c.owed = b.owed
Billed(b, c) ==
    /\ b.owed = 1 /\ c.tokens = b.tokens + 1 /\ c.unwritten = 0 /\ c.owed = 0
    /\ c.lines = b.lines /\ c.spent = b.spent /\ c.succeeded = b.succeeded /\ c.uncounted = b.uncounted

LEMMA BooksMove ==
    ASSUME NEW b \in AnyBooks, NEW c, NEW dropped \in Nat, NEW unkilled \in BOOLEAN, NEW uncut \in BOOLEAN,
           Add(b, dropped, unkilled, uncut), Exact(b),
           Bought(b, c) \/ Noted(b, c) \/ CountedOne(b, c) \/ Billed(b, c)
    PROVE  Add(c, dropped, unkilled, uncut) /\ Exact(c) /\ b.lines <= c.lines /\ b.spent <= c.spent
<1>1. /\ b.lines \in Nat /\ b.spent \in Nat /\ b.succeeded \in Nat \cup {-1} /\ b.tokens \in Nat
      /\ b.unwritten \in 0..1 /\ b.uncounted \in 0..1 /\ b.owed \in 0..1
  BY DEF AnyBooks
<1>2. CASE Bought(b, c)
  BY <1>1, <1>2 DEF Add, Exact, Bought
<1>3. CASE Noted(b, c)
  BY <1>1, <1>3 DEF Add, Exact, Noted
<1>4. CASE CountedOne(b, c)
  BY <1>1, <1>4 DEF Add, Exact, CountedOne
<1>5. CASE Billed(b, c)
  BY <1>1, <1>5 DEF Add, Exact, Billed
<1> QED BY <1>2, <1>3, <1>4, <1>5

LEMMA MoreRecords ==
    ASSUME NEW lines \in Seq(Records), NEW g
    PROVE  /\ RecordsOf(g, lines) \in Nat
           /\ \A line \in Records :
                 RecordsOf(g, Append(lines, line)) = RecordsOf(g, lines) + (IF line.id[1] = g THEN 1 ELSE 0)
<1> DEFINE n == Len(lines)
           of == {i \in DOMAIN lines : lines[i].id[1] = g}
<1>1. n \in Nat /\ DOMAIN lines = 1..n /\ of \in SUBSET (1..n)
  OBVIOUS
<1>2. IsFiniteSet(of)
  <2>1. IsFiniteSet(1..n)
    BY <1>1, FS_Interval
  <2> HIDE DEF of
  <2> QED BY <2>1, <1>1, FS_Subset
<1>3. Cardinality(of) \in Nat
  <2> HIDE DEF of
  <2> QED BY <1>2, FS_CardinalityType
<1>4. ASSUME NEW line \in Records
      PROVE  RecordsOf(g, Append(lines, line)) = Cardinality(of) + (IF line.id[1] = g THEN 1 ELSE 0)
  <2> DEFINE more == Append(lines, line)
             now == {i \in DOMAIN more : more[i].id[1] = g}
  <2>1. /\ DOMAIN more = 1..(n + 1) /\ more[n + 1] = line
        /\ \A i \in 1..n : more[i] = lines[i]
    BY <1>1
  <2> HIDE DEF more
  <2>2. 1..(n + 1) = (1..n) \cup {n + 1} /\ n + 1 \notin 1..n
    BY <1>1
  <2>3. CASE line.id[1] = g
    <3>1. now = of \cup {n + 1}
      BY <1>1, <2>1, <2>2, <2>3
    <3>2. n + 1 \notin of
      BY <1>1, <2>2
    <3> HIDE DEF now, of
    <3>3. Cardinality(now) = Cardinality(of) + 1
      BY <1>2, <3>1, <3>2, FS_AddElement
    <3> QED BY <2>3, <3>3 DEF RecordsOf, more, now
  <2>4. CASE line.id[1] # g
    <3>1. now = of
      BY <1>1, <2>1, <2>2, <2>4
    <3>2. Cardinality(now) = Cardinality(of) + 0
      <4> HIDE DEF now, of
      <4> QED BY <1>3, <3>1
    <3> QED BY <2>4, <3>2 DEF RecordsOf, more, now
  <2> QED BY <2>3, <2>4
<1> QED BY <1>3, <1>4 DEF RecordsOf

LEMMA ReportInit == Init => ReportInv
<1> SUFFICES ASSUME Init PROVE Sums
  BY DEF ReportInv
<1>1. /\ folder.lines = <<>> /\ folder.report = [g \in Generators |-> None] /\ proc = Resting
      /\ bill.spent = [g \in Generators |-> 0] /\ bill.dropped = [g \in Generators |-> 0]
  BY DEF Init
<1>2. ~proc.on /\ proc.phase = "next"
  BY <1>1 DEF Resting
<1>3. None \in Entry /\ None.succeeded = -1 /\ None.tokens = 0
  BY DEF None, Entry
<1>4. ASSUME NEW g \in Generators PROVE Accounted(g) /\ Older(g)
  <2>1. {i \in DOMAIN folder.lines : folder.lines[i].id[1] = g} = {}
    BY <1>1
  <2>2. RecordsOf(g, folder.lines) = 0
    BY <2>1, FS_EmptySet DEF RecordsOf
  <2>3. Told[g] = None /\ folder.report[g] = None /\ bill.spent[g] = 0 /\ bill.dropped[g] = 0
        /\ At(g, {"empty", "holding"}) = 0 /\ At(g, {"written"}) = 0
        /\ At(g, {"empty", "holding", "written", "billing"}) = 0
    BY <1>1, <1>2 DEF Told, At
  <2> QED BY <1>3, <2>2, <2>3 DEF Accounted, Add, Exact, Books, Older
<1> QED BY <1>1, <1>2, <1>3, <1>4 DEF Sums

(* What is known of a harness folder, and of a running process.               *)
LEMMA FolderOf ==
    ASSUME PaidInv, tool = "generate", Sums
    PROVE  /\ ProcTyped /\ FolderTyped /\ BillTyped /\ proc.buffer = <<>>
           /\ \A g \in Generators :
                 /\ Books(g) \in AnyBooks /\ Told[g] \in Entry
                 /\ bill.spent[g] \in Nat /\ bill.dropped[g] \in Nat /\ bill.cuts[g] \in Nat
                 /\ RecordsOf(g, folder.lines) \in Nat
           /\ \A k \in DOMAIN proc.todo : proc.todo[k] \in Ids /\ proc.todo[k][1] \in Generators
           /\ Busy => proc.on /\ proc.at \in Ids /\ proc.at[1] \in Generators
<1>1. ProcTyped /\ FolderTyped /\ BillTyped /\ proc.buffer = <<>>
  BY DEF PaidInv, Typed, OnceOK
<1>2. ASSUME NEW g \in Generators
      PROVE  /\ Books(g) \in AnyBooks /\ Told[g] \in Entry
             /\ bill.spent[g] \in Nat /\ bill.dropped[g] \in Nat /\ bill.cuts[g] \in Nat
             /\ RecordsOf(g, folder.lines) \in Nat
  <2>1. RecordsOf(g, folder.lines) \in Nat
    BY <1>1, MoreRecords DEF FolderTyped
  <2>2. Told[g] \in Entry
    BY DEF Told, Sums
  <2>3. Told[g].succeeded \in Nat \cup {-1} /\ Told[g].tokens \in Nat
    BY <2>2 DEF Entry
  <2>4. \A phases : At(g, phases) \in 0..1
    BY DEF At
  <2>5. bill.spent[g] \in Nat /\ bill.dropped[g] \in Nat /\ bill.cuts[g] \in Nat
    BY <1>1 DEF BillTyped
  <2> QED BY <2>1, <2>2, <2>3, <2>4, <2>5 DEF Books, AnyBooks
<1>3. proc.todo \in Seq(Ids)
  BY <1>1 DEF ProcTyped
<1>4. Busy => proc.on /\ proc.at \in Ids
  BY DEF PaidInv, OnceOK
<1> QED BY <1>1, <1>2, <1>3, <1>4 DEF Ids

(* A step of a running process: the books of a generator it asks move, the    *)
(* others stay.                                                               *)
LEMMA RunSums ==
    ASSUME PaidInv, tool = "generate", Sums, proc.on, proc'.on,
           UNCHANGED <<folder.report, bill.dropped, bill.cuts, bill.kills>>,
           proc'.report \in [Generators -> Entry],
           \A g \in Generators :
              \/ Books(g)' = Books(g)
              \/ /\ Asked(g)
                 /\ \/ Bought(Books(g), Books(g)') \/ Noted(Books(g), Books(g)')
                    \/ CountedOne(Books(g), Books(g)') \/ Billed(Books(g), Books(g)'),
           \A g \in Generators : Asked(g)' => Asked(g)
    PROVE  Sums'
<1> SUFFICES ASSUME NEW g \in Generators
             PROVE  Accounted(g)' /\ Older(g)' /\ (Asked(g)' => Exact(Books(g)'))
  BY DEF Sums
<1> DEFINE b == Books(g)
           c == Books(g)'
           unkilled == bill.kills = 0
           uncut == bill.cuts[g] = 0
<1>1. /\ b \in AnyBooks /\ bill.dropped[g] \in Nat /\ folder.report[g] \in Entry
      /\ Add(b, bill.dropped[g], unkilled, uncut) /\ Older(g) /\ (Asked(g) => Exact(b))
  BY FolderOf DEF Sums, Accounted
<1>2. unkilled \in BOOLEAN /\ uncut \in BOOLEAN
  OBVIOUS
<1>3. b.lines = RecordsOf(g, folder.lines) /\ b.spent = bill.spent[g]
      /\ c.lines = RecordsOf(g, folder.lines)' /\ c.spent = bill'.spent[g]
  BY DEF Books
<1>4. b.lines \in Nat /\ b.spent \in Nat
  BY <1>1 DEF AnyBooks
<1>5. Accounted(g)' = Add(c, bill.dropped[g], unkilled, uncut)
  BY DEF Accounted
<1>6. Add(c, bill.dropped[g], unkilled, uncut) /\ (Asked(g) => Exact(c))
      /\ c.lines \in Int /\ c.spent \in Int /\ b.lines <= c.lines /\ b.spent <= c.spent
  <2> HIDE DEF b, c, unkilled, uncut
  <2>1. CASE c = b
    BY <2>1, <1>1, <1>4
  <2>2. CASE Asked(g) /\ (Bought(b, c) \/ Noted(b, c) \/ CountedOne(b, c) \/ Billed(b, c))
    <3>1. Add(c, bill.dropped[g], unkilled, uncut) /\ Exact(c) /\ b.lines <= c.lines /\ b.spent <= c.spent
      BY <2>2, <1>1, <1>2, BooksMove
    <3>2. c.lines \in {b.lines, b.lines + 1} /\ c.spent \in {b.spent, b.spent + 1}
      BY <2>2, <1>1 DEF Bought, Noted, CountedOne, Billed, AnyBooks
    <3> QED BY <3>1, <3>2, <1>4
  <2> QED BY <2>1, <2>2 DEF b, c
<1>7. Older(g)'
  <2>1. folder.report[g].succeeded \in Int /\ folder.report[g].tokens \in Int
    BY <1>1 DEF Entry
  <2> HIDE DEF b, c, unkilled, uncut
  <2> QED BY <2>1, <1>1, <1>3, <1>4, <1>6 DEF Older
<1> QED BY <1>5, <1>6, <1>7

LEMMA NextCallSums ==
    ASSUME PaidInv, tool = "generate", Sums, NextCall
    PROVE  Sums'
<1> DEFINE id == Head(proc.todo)
           g == id[1]
<1>1. proc.on /\ ProcTyped /\ UNCHANGED <<tool, folder, bill>>
  BY DEF NextCall, PaidInv, Typed
<1>2. /\ Fixed /\ proc.phase = "next" /\ proc'.phase \in {"next", "calling"} /\ proc.todo # <<>>
      /\ proc'.todo = Tail(proc.todo) /\ proc'.at = id
      /\ proc'.report = proc.report \/ proc'.report = [proc.report EXCEPT ![g].requested = @ + 1]
  BY <1>1, NextCallFields
<1>3. /\ 1 \in DOMAIN proc.todo /\ id = proc.todo[1]
      /\ \A k \in DOMAIN proc'.todo : k + 1 \in DOMAIN proc.todo /\ proc'.todo[k] = proc.todo[k + 1]
  BY <1>1, <1>2 DEF ProcTyped
<1>4. g \in Generators /\ proc.report \in [Generators -> Entry]
  BY <1>1, <1>3, FolderOf DEF Sums
<1>5. \A h \in Generators : Asked(h)' => Asked(h)
  BY <1>2, <1>3 DEF Asked
<1> HIDE DEF id, g
<1>6. ASSUME NEW h \in Generators
      PROVE  /\ proc'.report[h] \in Entry
             /\ proc'.report[h].succeeded = proc.report[h].succeeded
             /\ proc'.report[h].tokens = proc.report[h].tokens
  <2>1. proc.report[h] \in Entry
    BY <1>4
  <2>2. CASE proc'.report = proc.report
    BY <2>1, <2>2
  <2>3. CASE proc'.report = [proc.report EXCEPT ![g].requested = @ + 1]
    BY <2>1, <2>3, <1>4 DEF Entry
  <2> QED BY <1>2, <2>2, <2>3
<1>7. proc'.report \in [Generators -> Entry]
  <2>1. \E f : proc'.report = [h \in Generators |-> f[h]]
    BY <1>2, <1>4
  <2> QED BY <2>1, <1>6
<1>8. proc'.on /\ Told' = proc'.report /\ Told = proc.report
  BY <1>1, <1>2 DEF Fixed, Told
<1>9. ASSUME NEW h \in Generators PROVE Books(h)' = Books(h)
  <2>1. /\ At(h, {"empty", "holding"})' = At(h, {"empty", "holding"})
        /\ At(h, {"written"})' = At(h, {"written"})
        /\ At(h, {"empty", "holding", "written", "billing"})' = At(h, {"empty", "holding", "written", "billing"})
    BY <1>2 DEF At
  <2> QED BY <2>1, <1>1, <1>6, <1>8 DEF Books
<1> QED BY <1>1, <1>5, <1>7, <1>8, <1>9, RunSums

(* An entry that counts one more.                                             *)
LEMMA EntryMoves ==
    ASSUME NEW e \in Entry, NEW n \in Nat
    PROVE  LET failed == [e EXCEPT !.failed = @ + 1, !.tokens = @ + n]
               done == [e EXCEPT !.succeeded = @ + 1]
               paid == [e EXCEPT !.tokens = @ + 1]
           IN  /\ failed \in Entry /\ failed.succeeded = e.succeeded /\ failed.tokens = e.tokens + n
               /\ done \in Entry /\ done.succeeded = e.succeeded + 1 /\ done.tokens = e.tokens
               /\ paid \in Entry /\ paid.succeeded = e.succeeded /\ paid.tokens = e.tokens + 1
<1>1. /\ e = [requested |-> e.requested, succeeded |-> e.succeeded, failed |-> e.failed, tokens |-> e.tokens]
      /\ e.requested \in Nat /\ e.succeeded \in Nat \cup {-1} /\ e.failed \in Nat /\ e.tokens \in Nat
  BY DEF Entry
<1> DEFINE f == e.failed + 1
           t == e.tokens + n
           s == e.succeeded + 1
           u == e.tokens + 1
<1>2. f \in Nat /\ t \in Nat /\ s \in Nat \cup {-1} /\ u \in Nat
  BY <1>1
<1> HIDE DEF f, t, s, u
<1>3. /\ [e EXCEPT !.failed = f, !.tokens = t] =
            [requested |-> e.requested, succeeded |-> e.succeeded, failed |-> f, tokens |-> t]
      /\ [e EXCEPT !.succeeded = s] =
            [requested |-> e.requested, succeeded |-> s, failed |-> e.failed, tokens |-> e.tokens]
      /\ [e EXCEPT !.tokens = u] =
            [requested |-> e.requested, succeeded |-> e.succeeded, failed |-> e.failed, tokens |-> u]
  <2>1. PICK half : half = [e EXCEPT !.failed = f]
    OBVIOUS
  <2>2. half = [requested |-> e.requested, succeeded |-> e.succeeded, failed |-> f, tokens |-> e.tokens]
    BY <1>1, <2>1
  <2>3. [half EXCEPT !.tokens = t] =
            [requested |-> e.requested, succeeded |-> e.succeeded, failed |-> f, tokens |-> t]
    BY <2>2
  <2>4. [e EXCEPT !.succeeded = s] =
            [requested |-> e.requested, succeeded |-> s, failed |-> e.failed, tokens |-> e.tokens]
    BY <1>1
  <2>5. [e EXCEPT !.tokens = u] =
            [requested |-> e.requested, succeeded |-> e.succeeded, failed |-> e.failed, tokens |-> u]
    BY <1>1
  <2> QED BY <2>1, <2>3, <2>4, <2>5
<1>4. /\ [e EXCEPT !.failed = f, !.tokens = t] \in Entry
      /\ [e EXCEPT !.succeeded = s] \in Entry /\ [e EXCEPT !.tokens = u] \in Entry
  BY <1>1, <1>2, <1>3 DEF Entry
<1> QED BY <1>3, <1>4 DEF f, t, s, u

(* A call that fails for good, or whose empty answer is counted.              *)
LEMMA FailedSums ==
    ASSUME PaidInv, tool = "generate", Sums, NEW n \in {0, 1}, proc' = Failed(n),
           proc.phase = IF n = 0 THEN "calling" ELSE "empty", UNCHANGED <<tool, folder, bill>>
    PROVE  Sums'
<1> DEFINE g == proc.at[1]
<1>1. proc.on /\ Busy /\ Asked(g)
  BY DEF PaidInv, OnceOK, Busy, Asked
<1>2. /\ ProcTyped /\ g \in Generators /\ proc.todo \in Seq(Ids) /\ Len(proc.todo) \in Nat
      /\ proc.report \in [Generators -> Entry]
  BY <1>1, FolderOf DEF ProcTyped, Sums
<1>3. /\ Fixed /\ proc'.at = proc.at /\ proc'.phase = "next"
      /\ proc'.report = [proc.report EXCEPT ![g] = [proc.report[g] EXCEPT !.failed = @ + 1, !.tokens = @ + n]]
      /\ \E m \in 1..(Len(proc.todo) + 1) : proc'.todo = SubSeq(proc.todo, m, Len(proc.todo))
  BY <1>2, FailedFields
<1>4. \A k \in DOMAIN proc'.todo : \E j \in DOMAIN proc.todo : proc'.todo[k] = proc.todo[j]
  <2>1. PICK m \in 1..(Len(proc.todo) + 1) : proc'.todo = SubSeq(proc.todo, m, Len(proc.todo))
    BY <1>3
  <2>2. \A s \in Seq(Ids) : \A j \in 1..(Len(s) + 1) : \A i \in 1..Len(SubSeq(s, j, Len(s))) :
           SubSeq(s, j, Len(s))[i] = s[j + i - 1] /\ j + i - 1 \in 1..Len(s)
    BY Suffix
  <2>3. DOMAIN proc.todo = 1..Len(proc.todo) /\ DOMAIN proc'.todo = 1..Len(proc'.todo)
    BY <1>2, <2>1
  <2>4. \A i \in 1..Len(proc'.todo) : proc'.todo[i] = proc.todo[m + i - 1] /\ m + i - 1 \in 1..Len(proc.todo)
    BY <1>2, <2>1, <2>2
  <2> QED BY <2>3, <2>4
<1>5. \A h \in Generators : Asked(h)' => Asked(h)
  BY <1>3, <1>4 DEF Asked, Busy
<1> HIDE DEF g
<1>6. ASSUME NEW h \in Generators
      PROVE  /\ proc'.report[h] \in Entry
             /\ proc'.report[h].succeeded = proc.report[h].succeeded
             /\ proc'.report[h].tokens = proc.report[h].tokens + (IF h = g THEN n ELSE 0)
  <2> DEFINE entry == [proc.report[g] EXCEPT !.failed = @ + 1, !.tokens = @ + n]
  <2>1. proc.report[g] \in Entry /\ proc.report[h] \in Entry
    BY <1>2
  <2>2. /\ entry \in Entry /\ entry.succeeded = proc.report[g].succeeded
        /\ entry.tokens = proc.report[g].tokens + n
    <3>1. n \in Nat
      OBVIOUS
    <3> QED BY <2>1, <3>1, EntryMoves
  <2>3. proc.report[h].tokens \in Nat
    BY <2>1 DEF Entry
  <2> HIDE DEF entry
  <2>4. proc'.report = [proc.report EXCEPT ![g] = entry]
    BY <1>3 DEF entry
  <2>5. CASE h = g
    BY <1>2, <2>2, <2>4, <2>5
  <2>6. CASE h # g
    BY <1>2, <2>1, <2>3, <2>4, <2>6
  <2> QED BY <2>5, <2>6
<1>7. proc'.report \in [Generators -> Entry]
  <2>1. proc'.report = [h \in Generators |-> proc'.report[h]]
    BY <1>2, <1>3
  <2> QED BY <2>1, <1>6
<1>8. proc'.on /\ Told' = proc'.report /\ Told = proc.report
  BY <1>1, <1>3 DEF Fixed, Told
<1>9. ASSUME NEW h \in Generators PROVE Books(h)' = Books(h) \/ (Asked(h) /\ Billed(Books(h), Books(h)'))
  <2>1. proc.report[h].tokens \in Nat
    BY <1>2 DEF Entry
  <2>2. /\ At(h, {"empty", "holding"})' = 0 /\ At(h, {"written"})' = 0 /\ At(h, {"written"}) = 0
        /\ At(h, {"empty", "holding", "written", "billing"})' = 0
        /\ At(h, {"empty", "holding"}) = (IF h = g THEN n ELSE 0)
        /\ At(h, {"empty", "holding", "written", "billing"}) = (IF h = g THEN n ELSE 0)
    BY <1>3 DEF At, g
  <2>3. CASE h = g /\ n = 1
    BY <2>1, <2>2, <2>3, <1>1, <1>6, <1>8 DEF Books, Billed
  <2>4. CASE ~(h = g /\ n = 1)
    <3>1. proc'.report[h].tokens = proc.report[h].tokens
      BY <2>1, <2>4, <1>6
    <3> QED BY <2>2, <2>4, <3>1, <1>6, <1>8 DEF Books
  <2> QED BY <2>3, <2>4
<1> QED BY <1>1, <1>5, <1>7, <1>8, <1>9, RunSums

LEMMA CallSums ==
    ASSUME PaidInv, tool = "generate", Sums, CallEnds \/ CountEmpty
    PROVE  Sums'
<1>1. Busy /\ proc.on /\ UNCHANGED <<tool, folder>> /\ proc.phase \in {"calling", "empty"} /\ Asked(proc.at[1])
  BY DEF CallEnds, CallFails, CallReturnsNothing, CallReturnsText, CountEmpty, PaidInv, OnceOK, Busy, Asked
<1>2. /\ ProcTyped /\ BillTyped /\ proc.at[1] \in Generators /\ bill.spent \in [Generators -> Nat]
      /\ proc.report \in [Generators -> Entry]
  BY <1>1, FolderOf DEF BillTyped, Sums
<1>3. ASSUME NEW e \in Errors, CallFails(e) PROVE Sums'
  <2>1. UNCHANGED bill /\ proc.phase = "calling"
    BY <1>3 DEF CallFails
  <2>2. CASE Retry(e)
    <3>1. Fixed /\ UNCHANGED <<proc.todo, proc.at, proc.phase, proc.report>>
      BY <1>2, <1>3, <2>2, RetryFields
    <3>2. UNCHANGED Told /\ \A g \in Generators : Asked(g)' => Asked(g)
      BY <1>1, <3>1 DEF Told, Asked, Busy, Fixed
    <3>3. \A g \in Generators : Books(g)' = Books(g)
      BY <1>1, <2>1, <3>1, <3>2 DEF Books, At
    <3> QED BY <1>1, <1>2, <2>1, <3>1, <3>2, <3>3, RunSums DEF Fixed
  <2>3. CASE ~Retry(e)
    <3>1. proc' = Failed(0)
      BY <1>3, <2>3 DEF CallFails
    <3> QED BY <1>1, <2>1, <3>1, FailedSums
  <2> QED BY <2>2, <2>3
<1>4. CASE CountEmpty
  <2>1. proc.phase = "empty" /\ proc' = Failed(1) /\ UNCHANGED <<tool, folder, bill>>
    BY <1>4 DEF CountEmpty
  <2> QED BY <2>1, FailedSums
<1>5. CASE CallReturnsNothing \/ CallReturnsText
  <2>1. /\ Fixed /\ UNCHANGED <<proc.todo, proc.at, proc.report>>
        /\ proc.phase = "calling" /\ proc'.phase \in {"empty", "holding"}
    BY <1>2, <1>5, NothingFields, TextFields
  <2>2. bill'.spent = [bill.spent EXCEPT ![proc.at[1]] = @ + 1]
        /\ UNCHANGED <<bill.dropped, bill.cuts, bill.kills>>
    BY <1>2, <1>5, BillFields
  <2>3. UNCHANGED Told /\ Told = proc.report /\ proc'.on
    BY <1>1, <2>1 DEF Told, Fixed
  <2>4. ASSUME NEW g \in Generators PROVE Books(g)' = Books(g) \/ (Asked(g) /\ Bought(Books(g), Books(g)'))
    <3>1. bill.spent[g] \in Nat /\ bill'.spent[g] = bill.spent[g] + (IF proc.at[1] = g THEN 1 ELSE 0)
      BY <1>2, <2>2
    <3>2. /\ At(g, {"empty", "holding"}) = 0 /\ At(g, {"written"}) = 0 /\ At(g, {"written"})' = 0
          /\ At(g, {"empty", "holding", "written", "billing"}) = 0
          /\ At(g, {"empty", "holding"})' = (IF proc.at[1] = g THEN 1 ELSE 0)
          /\ At(g, {"empty", "holding", "written", "billing"})' = (IF proc.at[1] = g THEN 1 ELSE 0)
      BY <2>1 DEF At
    <3>3. CASE proc.at[1] = g
      BY <1>1, <2>3, <3>1, <3>2, <3>3 DEF Books, Bought
    <3>4. CASE proc.at[1] # g
      BY <1>1, <2>3, <3>1, <3>2, <3>4 DEF Books
    <3> QED BY <3>3, <3>4
  <2>5. \A g \in Generators : Asked(g)' => Asked(g)
    BY <1>1, <2>1 DEF Asked
  <2> QED BY <1>1, <1>2, <2>1, <2>2, <2>3, <2>4, <2>5, RunSums
<1> QED BY <1>3, <1>4, <1>5 DEF CallEnds

(* A record: one more line, which is then counted, and its charge after it.   *)
LEMMA RecordSums ==
    ASSUME PaidInv, tool = "generate", Sums, WriteRecord
    PROVE  Sums'
<1> DEFINE g == proc.at[1]
<1>1. proc.phase = "holding" /\ Busy /\ proc.on /\ UNCHANGED <<tool, bill>> /\ Asked(g)
  BY DEF WriteRecord, PaidInv, OnceOK, Busy, Asked
<1>2. /\ ProcTyped /\ FolderTyped /\ g \in Generators /\ Line \in Records /\ proc.report \in [Generators -> Entry]
  BY <1>1, FolderOf, LineTyped DEF Sums
<1>3. /\ UNCHANGED <<proc.on, proc.todo, proc.at, proc.report, folder.report>> /\ proc'.phase = "written"
      /\ folder'.lines = Append(folder.lines, Line)
  BY <1>2, RecordFields
<1>4. Line.id[1] = g
  BY DEF Line
<1>5. UNCHANGED Told /\ \A h \in Generators : Asked(h)' => Asked(h)
  BY <1>1, <1>3 DEF Told, Asked
<1> HIDE DEF g
<1>6. ASSUME NEW h \in Generators PROVE Books(h)' = Books(h) \/ (Asked(h) /\ Noted(Books(h), Books(h)'))
  <2>1. /\ RecordsOf(h, folder.lines) \in Nat
        /\ RecordsOf(h, folder'.lines) = RecordsOf(h, folder.lines) + (IF h = g THEN 1 ELSE 0)
    BY <1>2, <1>3, <1>4, MoreRecords DEF FolderTyped
  <2>2. /\ At(h, {"empty", "holding"}) = (IF h = g THEN 1 ELSE 0) /\ At(h, {"empty", "holding"})' = 0
        /\ At(h, {"written"}) = 0 /\ At(h, {"written"})' = (IF h = g THEN 1 ELSE 0)
        /\ At(h, {"empty", "holding", "written", "billing"})' = At(h, {"empty", "holding", "written", "billing"})
    BY <1>1, <1>3 DEF At, g
  <2>3. CASE h = g
    BY <1>1, <1>5, <2>1, <2>2, <2>3 DEF Books, Noted
  <2>4. CASE h # g
    BY <1>1, <1>5, <2>1, <2>2, <2>4 DEF Books
  <2> QED BY <2>3, <2>4
<1> QED BY <1>1, <1>2, <1>3, <1>5, <1>6, RunSums

LEMMA CountSums ==
    ASSUME PaidInv, tool = "generate", Sums, CountRecord \/ CountTokens
    PROVE  Sums'
<1> DEFINE g == proc.at[1]
           done == [proc.report[g] EXCEPT !.succeeded = @ + 1]
           paid == [proc.report[g] EXCEPT !.tokens = @ + 1]
<1>1. ProcTyped
  BY DEF PaidInv, Typed
<1>2. /\ Fixed /\ UNCHANGED <<tool, folder, bill, proc.todo, proc.at>>
      /\ \/ /\ proc.phase = "written" /\ proc'.phase = "billing" /\ proc'.report = [proc.report EXCEPT ![g] = done]
         \/ /\ proc.phase = "billing" /\ proc'.phase = "next" /\ proc'.report = [proc.report EXCEPT ![g] = paid]
  BY <1>1, CountFields
<1>3. Busy /\ proc.on /\ proc'.on /\ Asked(g)
  BY <1>2 DEF PaidInv, OnceOK, Busy, Asked, Fixed
<1>4. g \in Generators /\ proc.report \in [Generators -> Entry]
  BY <1>3, FolderOf DEF Sums
<1>5. /\ done \in Entry /\ done.succeeded = proc.report[g].succeeded + 1 /\ done.tokens = proc.report[g].tokens
      /\ paid \in Entry /\ paid.succeeded = proc.report[g].succeeded /\ paid.tokens = proc.report[g].tokens + 1
  BY <1>4, EntryMoves
<1>6. Told' = proc'.report /\ Told = proc.report /\ \A h \in Generators : Asked(h)' => Asked(h)
  BY <1>2, <1>3 DEF Told, Asked
<1> HIDE DEF g, done, paid
<1>7. proc'.report \in [Generators -> Entry]
  BY <1>2, <1>4, <1>5
<1>8. ASSUME NEW h \in Generators
      PROVE  \/ Books(h)' = Books(h)
             \/ Asked(h) /\ (CountedOne(Books(h), Books(h)') \/ Billed(Books(h), Books(h)'))
  <2>1. CASE h # g
    <3>1. proc'.report[h] = proc.report[h]
      BY <1>2, <1>4, <2>1
    <3>2. \A phases : At(h, phases) = 0 /\ At(h, phases)' = 0
      BY <1>2, <2>1 DEF At, g
    <3> QED BY <1>2, <1>6, <3>1, <3>2 DEF Books
  <2>2. CASE h = g /\ proc.phase = "written"
    <3>1. proc'.report[h] = done /\ proc'.phase = "billing"
      BY <1>2, <1>4, <2>2
    <3>2. /\ At(h, {"empty", "holding"}) = 0 /\ At(h, {"empty", "holding"})' = 0
          /\ At(h, {"written"}) = 1 /\ At(h, {"written"})' = 0
          /\ At(h, {"empty", "holding", "written", "billing"}) = 1
          /\ At(h, {"empty", "holding", "written", "billing"})' = 1
      BY <1>2, <2>2, <3>1 DEF At, g
    <3> QED BY <1>2, <1>3, <1>5, <1>6, <2>2, <3>1, <3>2 DEF Books, CountedOne
  <2>3. CASE h = g /\ proc.phase = "billing"
    <3>1. proc'.report[h] = paid /\ proc'.phase = "next"
      BY <1>2, <1>4, <2>3
    <3>2. /\ At(h, {"empty", "holding"}) = 0 /\ At(h, {"empty", "holding"})' = 0
          /\ At(h, {"written"}) = 0 /\ At(h, {"written"})' = 0
          /\ At(h, {"empty", "holding", "written", "billing"}) = 1
          /\ At(h, {"empty", "holding", "written", "billing"})' = 0
      BY <1>2, <2>3, <3>1 DEF At, g
    <3> QED BY <1>2, <1>3, <1>5, <1>6, <2>3, <3>1, <3>2 DEF Books, Billed
  <2> QED BY <1>2, <2>1, <2>2, <2>3
<1> QED BY <1>2, <1>3, <1>6, <1>7, <1>8, RunSums

(* The next run: an entry that still counts the records is carried on, the    *)
(* others of the generators it asks are counted anew from them.               *)
LEMMA BeginSums ==
    ASSUME PaidInv, tool = "generate", Sums,
           (\E c \in Configs, n \in Pilots, p \in Prompts : StartGenerate(c, n, p)) \/ StartParaphrase \/ StartSimulate
    PROVE  Sums'
<1>1. PICK c \in Configs, n \in Pilots, p \in Prompts : StartGenerate(c, n, p)
  BY DEF StartParaphrase, StartSimulate
<1> DEFINE todo == PlanOf(c, 1..n)
           named == {g \in Generators : \E i \in DOMAIN c : c[i] = g}
<1>2. Begin(todo, Rebuilt(c), <<p>>)
  BY <1>1 DEF StartGenerate
<1>3. c \in Seq(Generators) /\ \A i, j \in DOMAIN c : c[i] = c[j] => i = j
  BY GenerationAssumption
<1>4. 1..n \in SUBSET Sources
  <2>1. Cardinality(Sources) \in Nat /\ n \in 1..Cardinality(Sources) /\ Sources = 1..Cardinality(Sources)
    BY GenerationAssumption, FS_CardinalityType
  <2> QED BY <2>1
<1>5. todo \in Seq(Ids) /\ \A k \in DOMAIN todo : todo[k][1] \in named
  <2>1. todo \in Seq(Ids) /\ \A k \in DOMAIN todo : \E m \in DOMAIN c : todo[k][1] = c[m]
    BY <1>3, <1>4, PlanTyped
  <2>2. \A m \in DOMAIN c : c[m] \in Generators
    BY <1>3
  <2> QED BY <2>1, <2>2
<1>6. <<p>> \in RunHows /\ BillTyped /\ FolderTyped
  BY DEF RunHows, PaidInv, Typed
<1> HIDE DEF todo
<1>7. /\ UNCHANGED <<folder, bill.spent, bill.dropped, bill.cuts, bill.kills>> /\ ~proc.on /\ proc'.on
      /\ proc'.report = Rebuilt(c) /\ proc'.todo = todo /\ proc'.phase = "next"
  BY <1>2, <1>5, <1>6, BeginFields
<1>8. proc.phase = "next" /\ \A g, phases : phases \in SUBSET (Phases \ {"next"}) => At(g, phases) = 0 /\ At(g, phases)' = 0
  <2>1. proc.phase = "next"
    BY <1>7 DEF PaidInv, OnceOK, Resting
  <2> QED BY <2>1, <1>7 DEF At
<1>9. {"empty", "holding"} \subseteq Phases \ {"next"} /\ {"written"} \subseteq Phases \ {"next"}
      /\ {"empty", "holding", "written", "billing"} \subseteq Phases \ {"next"}
  BY DEF Phases
<1>10. ASSUME NEW g \in Generators
       PROVE  /\ Rebuilt(c)[g] \in Entry /\ Accounted(g)' /\ Older(g)'
              /\ g \in named => Exact(Books(g)')
  <2> DEFINE n1 == RecordsOf(g, folder.lines)
             old == folder.report[g]
             new == Rebuilt(c)[g]
             zero == At(g, {"empty", "holding"}) = 0 /\ At(g, {"written"}) = 0
                     /\ At(g, {"empty", "holding", "written", "billing"}) = 0
  <2>1. n1 \in Nat /\ old \in Entry /\ bill.spent[g] \in Nat /\ bill.dropped[g] \in Nat /\ Accounted(g) /\ Older(g)
    BY FolderOf DEF Sums
  <2>2. zero /\ zero'
    BY <1>8, <1>9
  <2>3. old.succeeded \in Nat \cup {-1} /\ old.tokens \in Nat /\ Told = folder.report /\ Told' = Rebuilt(c)
    BY <1>7, <2>1 DEF Entry, Told
  <2>4. Books(g) = [lines |-> n1, spent |-> bill.spent[g], succeeded |-> old.succeeded, tokens |-> old.tokens,
                    unwritten |-> 0, uncounted |-> 0, owed |-> 0]
    BY <2>2, <2>3 DEF Books
  <2>5. Books(g)' = [lines |-> n1, spent |-> bill.spent[g], succeeded |-> new.succeeded, tokens |-> new.tokens,
                     unwritten |-> 0, uncounted |-> 0, owed |-> 0]
    BY <1>7, <2>2, <2>3 DEF Books
  <2>6. new = IF g \in named /\ old.succeeded # n1 THEN Counted(g) ELSE old
    BY DEF Rebuilt
  <2>7. Add(Books(g), bill.dropped[g], bill.kills = 0, bill.cuts[g] = 0)
    BY <2>1 DEF Accounted
  <2>8. Accounted(g)' = Add(Books(g)', bill.dropped[g], bill.kills = 0, bill.cuts[g] = 0)
    BY <1>7 DEF Accounted
  <2>9. Older(g)'
    BY <1>7, <2>1 DEF Older
  <2>10. CASE g \in named /\ old.succeeded # n1
    <3>1. new = [requested |-> n1, succeeded |-> n1, failed |-> 0, tokens |-> n1]
      BY <2>6, <2>10 DEF Counted
    <3> HIDE DEF n1, old, new, zero, named
    <3>2. new \in Entry /\ new.succeeded = n1 /\ new.tokens = n1
      BY <2>1, <3>1 DEF Entry
    <3>3. Add(Books(g)', bill.dropped[g], bill.kills = 0, bill.cuts[g] = 0) /\ Exact(Books(g)')
      BY <2>1, <2>3, <2>4, <2>5, <2>7, <2>10, <3>2 DEF Add, Exact
    <3> QED BY <2>8, <2>9, <3>2, <3>3 DEF new
  <2>11. CASE ~(g \in named /\ old.succeeded # n1)
    <3>1. new = old
      BY <2>6, <2>11
    <3>2. g \in named => old.succeeded = n1
      BY <2>11
    <3> HIDE DEF n1, old, new, zero, named
    <3>3. Books(g)' = Books(g)
      BY <2>4, <2>5, <3>1
    <3>4. g \in named => Exact(Books(g)')
      BY <2>1, <2>4, <3>2, <3>3 DEF Exact
    <3> QED BY <2>1, <2>7, <2>8, <2>9, <3>1, <3>3, <3>4 DEF new
  <2> QED BY <2>10, <2>11
<1>11. Rebuilt(c) \in [Generators -> Entry]
  <2>1. \E f : Rebuilt(c) = [g \in Generators |-> f[g]]
    BY DEF Rebuilt
  <2> QED BY <2>1, <1>10
<1>12. ASSUME NEW g \in Generators, Asked(g)' PROVE g \in named
  <2>1. \E k \in DOMAIN todo : todo[k][1] = g
    BY <1>7, <1>12 DEF Asked, Busy
  <2> QED BY <2>1, <1>5
<1> HIDE DEF named
<1> QED BY <1>7, <1>10, <1>11, <1>12 DEF Sums

(* The report is left as the run had it; what it does not count of the answer *)
(* at hand is dropped, or cut off.                                            *)
LEMMA EndSums ==
    ASSUME PaidInv, tool = "generate", Sums, Finish \/ Interrupt
    PROVE  Sums'
<1>1. proc.on /\ Close
  BY DEF Finish, Interrupt
<1>2. ProcTyped /\ FolderTyped /\ BillTyped /\ proc.buffer = <<>> /\ folder.lines \in Seq(Records)
  BY FolderOf DEF FolderTyped
<1>3. folder'.lines = folder.lines \o proc.buffer /\ proc' = Resting /\ folder'.report = proc.report
  BY <1>1, <1>2, CloseFields
<1>4. folder'.lines = folder.lines
  BY <1>2, <1>3
<1>5. ~proc'.on /\ proc'.phase = "next"
  BY <1>3 DEF Resting
<1>6. Told' = proc.report /\ Told = proc.report /\ proc.report \in [Generators -> Entry]
  BY <1>1, <1>3, <1>5 DEF Told, Sums
<1>7. UNCHANGED <<bill.spent, bill.kills>>
  <2>1. CASE Finish
    BY <2>1 DEF Finish
  <2>2. CASE Interrupt
    BY <1>2, <2>2, BillFields
  <2> QED BY <2>1, <2>2
<1>8. ASSUME NEW g \in Generators PROVE Accounted(g)' /\ Older(g)'
  <2> DEFINE n == RecordsOf(g, folder.lines)
             e == proc.report[g]
             u == At(g, {"empty", "holding"})
             w == At(g, {"written"})
             o == At(g, {"empty", "holding", "written", "billing"})
             out == At(g, {"empty", "holding", "billing"})
  <2>1. /\ n \in Nat /\ e \in Entry /\ bill.spent[g] \in Nat /\ bill.dropped[g] \in Nat /\ bill.cuts[g] \in Nat
        /\ bill.kills \in Nat /\ Add(Books(g), bill.dropped[g], bill.kills = 0, bill.cuts[g] = 0)
    BY <1>6, FolderOf DEF Sums, Accounted, BillTyped
  <2>2. e.succeeded \in Nat \cup {-1} /\ e.tokens \in Nat
    BY <2>1 DEF Entry
  <2>3. Books(g) = [lines |-> n, spent |-> bill.spent[g], succeeded |-> e.succeeded, tokens |-> e.tokens,
                    unwritten |-> u, uncounted |-> w, owed |-> o]
    BY <1>6 DEF Books
  <2>4. \A phases : "next" \notin phases => At(g, phases)' = 0
    BY <1>5 DEF At
  <2>5. Books(g)' = [lines |-> n, spent |-> bill.spent[g], succeeded |-> e.succeeded, tokens |-> e.tokens,
                     unwritten |-> 0, uncounted |-> 0, owed |-> 0]
    BY <1>4, <1>6, <1>7, <2>4 DEF Books
  <2>6. u \in 0..1 /\ w \in 0..1 /\ o \in 0..1 /\ out \in 0..1 /\ o = out + w
    BY DEF At
  <2>7. bill'.dropped[g] = bill.dropped[g] + out /\ bill'.cuts[g] = bill.cuts[g] + w
    <3>1. CASE Finish
      <4>1. UNCHANGED bill /\ out = 0 /\ w = 0
        BY <3>1 DEF Finish, At
      <4> QED BY <4>1, <2>1
    <3>2. CASE Interrupt
      <4>1. /\ bill'.dropped = [bill.dropped EXCEPT ![proc.at[1]] =
                                  @ + (IF proc.phase \in {"empty", "holding", "billing"} THEN 1 ELSE 0)]
            /\ bill'.cuts = [bill.cuts EXCEPT ![proc.at[1]] = @ + (IF proc.phase = "written" THEN 1 ELSE 0)]
        BY <1>2, <3>2, BillFields
      <4>2. bill.dropped \in [Generators -> Nat] /\ bill.cuts \in [Generators -> Nat]
        BY <1>2 DEF BillTyped
      <4> QED BY <4>1, <4>2, <2>1 DEF At
    <3> QED BY <3>1, <3>2
  <2>8. Accounted(g)' = Add(Books(g)', bill'.dropped[g], bill.kills = 0, bill'.cuts[g] = 0)
    BY <1>7 DEF Accounted
  <2>9. folder'.report[g] = e /\ RecordsOf(g, folder.lines)' = n
    BY <1>3, <1>4
  <2> HIDE DEF n, e, u, w, o, out
  <2>10. /\ n + u <= bill.spent[g] /\ e.succeeded <= n /\ e.tokens + o <= bill.spent[g]
         /\ bill.kills = 0 => n <= e.succeeded + 1
         /\ bill.kills = 0 /\ bill.cuts[g] = 0 =>
               /\ e.succeeded + w = n \/ (e.succeeded = -1 /\ n = 0 /\ e.tokens = 0)
               /\ e.tokens + o + bill.dropped[g] = bill.spent[g]
    BY <2>1, <2>3 DEF Add, Exact
  <2>11. Add(Books(g)', bill'.dropped[g], bill.kills = 0, bill'.cuts[g] = 0)
    <3>1. bill'.cuts[g] = 0 => w = 0 /\ bill.cuts[g] = 0
      BY <2>1, <2>6, <2>7
    <3>2. /\ n + 0 <= bill.spent[g] /\ e.succeeded <= n /\ e.tokens + 0 <= bill.spent[g]
          /\ bill.kills = 0 /\ bill'.cuts[g] = 0 =>
               /\ e.succeeded + 0 = n \/ (e.succeeded = -1 /\ n = 0 /\ e.tokens = 0)
               /\ e.tokens + 0 + bill'.dropped[g] = bill.spent[g]
      <4>1. n + 0 <= bill.spent[g] /\ e.succeeded <= n /\ e.tokens + 0 <= bill.spent[g]
        BY <2>1, <2>2, <2>6, <2>10
      <4>2. ASSUME bill.kills = 0, bill'.cuts[g] = 0
            PROVE  /\ e.succeeded + 0 = n \/ (e.succeeded = -1 /\ n = 0 /\ e.tokens = 0)
                   /\ e.tokens + 0 + bill'.dropped[g] = bill.spent[g]
        <5>1. w = 0 /\ bill.cuts[g] = 0 /\ o = out
          BY <3>1, <4>2, <2>6
        <5>2. /\ e.succeeded + 0 = n \/ (e.succeeded = -1 /\ n = 0 /\ e.tokens = 0)
              /\ e.tokens + out + bill.dropped[g] = bill.spent[g]
          BY <4>2, <5>1, <2>10
        <5> QED BY <5>2, <2>1, <2>2, <2>6, <2>7
      <4> QED BY <4>1, <4>2
    <3> QED BY <2>5, <2>10, <3>2 DEF Add, Exact
  <2>12. Older(g)'
    <3>1. e.tokens <= bill.spent[g]
      BY <2>1, <2>2, <2>6, <2>10
    <3> QED BY <1>7, <2>9, <2>10, <3>1 DEF Older
  <2> QED BY <2>8, <2>11, <2>12
<1>9. folder'.report \in [Generators -> Entry]
  BY <1>3, <1>6
<1> QED BY <1>5, <1>8, <1>9 DEF Sums

(* After a kill the report is of an earlier run, and claims no more than was. *)
LEMMA KillSums ==
    ASSUME PaidInv, tool = "generate", Sums, Kill
    PROVE  Sums'
<1>1. ProcTyped /\ FolderTyped /\ BillTyped /\ proc.buffer = <<>> /\ folder.lines \in Seq(Records)
      /\ folder.report \in [Generators -> Entry]
  BY FolderOf DEF FolderTyped, Sums
<1>2. /\ UNCHANGED <<bill.spent, folder.report>> /\ bill'.kills = bill.kills + 1 /\ proc' = Resting
      /\ \E kept \in 0..Len(proc.buffer) : folder'.lines = folder.lines \o SubSeq(proc.buffer, 1, kept)
  BY <1>1, KillFields
<1>3. folder'.lines = folder.lines
  <2>1. PICK kept \in 0..Len(proc.buffer) : folder'.lines = folder.lines \o SubSeq(proc.buffer, 1, kept)
    BY <1>2
  <2>2. kept = 0 /\ SubSeq(proc.buffer, 1, kept) = <<>>
    BY <1>1
  <2> QED BY <1>1, <2>1, <2>2
<1>4. ~proc'.on /\ proc'.phase = "next" /\ Told' = folder.report
  BY <1>2 DEF Resting, Told
<1>5. ASSUME NEW g \in Generators PROVE Accounted(g)' /\ Older(g)'
  <2> DEFINE n == RecordsOf(g, folder.lines)
             e == folder.report[g]
  <2>1. /\ Books(g) \in AnyBooks /\ e \in Entry /\ Older(g) /\ bill.kills \in Nat /\ bill.spent[g] \in Nat
        /\ Add(Books(g), bill.dropped[g], bill.kills = 0, bill.cuts[g] = 0)
    BY <1>1, FolderOf DEF Sums, Accounted, BillTyped
  <2>2. Books(g).lines = n /\ Books(g).spent = bill.spent[g]
    BY DEF Books
  <2>3. n <= bill.spent[g] /\ n \in Nat
    <3>1. /\ Books(g).lines + Books(g).unwritten <= Books(g).spent
          /\ Books(g).unwritten \in 0..1 /\ Books(g).lines \in Nat /\ Books(g).spent \in Nat
      BY <2>1 DEF Add, AnyBooks
    <3> HIDE DEF n
    <3> QED BY <3>1, <2>2
  <2>4. e.succeeded \in Nat \cup {-1} /\ e.tokens \in Nat
    BY <2>1 DEF Entry
  <2>5. \A phases : "next" \notin phases => At(g, phases)' = 0
    BY <1>4 DEF At
  <2>6. Books(g)' = [lines |-> n, spent |-> bill.spent[g], succeeded |-> e.succeeded, tokens |-> e.tokens,
                     unwritten |-> 0, uncounted |-> 0, owed |-> 0]
    BY <1>2, <1>3, <1>4, <2>5 DEF Books
  <2>7. e.succeeded <= n /\ e.tokens <= bill.spent[g]
    BY <2>1 DEF Older
  <2>8. bill'.kills # 0
    BY <1>2, <2>1
  <2>9. Older(g)'
    BY <1>2, <1>3, <2>7 DEF Older
  <2> HIDE DEF n, e
  <2>10. Add(Books(g)', bill'.dropped[g], bill'.kills = 0, bill'.cuts[g] = 0)
    BY <2>1, <2>3, <2>4, <2>6, <2>7, <2>8 DEF Add
  <2> QED BY <2>9, <2>10 DEF Accounted
<1> QED BY <1>1, <1>2, <1>4, <1>5 DEF Sums

LEMMA ToolStays == Next => UNCHANGED tool
<1>1. \A todo, report, how : Begin(todo, report, how) => UNCHANGED tool
  BY DEF Begin
<1> QED BY <1>1 DEF Next, StartGenerate, StartParaphrase, StartSimulate, Steps, CallEnds, NextCall, CallFails,
                    CallReturnsNothing, CallReturnsText, CountEmpty, WriteRecord, CountRecord, CountTokens,
                    Finish, Close, Interrupt, Kill

LEMMA ReportKept ==
    ASSUME PaidInv, ReportInv, [EditsNext]_allVars
    PROVE  ReportInv'
<1>1. ASSUME UNCHANGED <<tool, folder, proc, bill>> PROVE ReportInv'
  <2>1. UNCHANGED <<Told, Busy>>
    BY <1>1 DEF Told, Busy
  <2>2. \A g : Books(g)' = Books(g) /\ Asked(g)' = Asked(g) /\ Older(g)' = Older(g)
    BY <1>1, <2>1 DEF Books, At, Asked, Older
  <2> QED BY <1>1, <2>2 DEF ReportInv, Sums, Accounted
<1>2. CASE Next
  <2> SUFFICES ASSUME tool' = "generate" PROVE Sums'
    BY DEF ReportInv
  <2>1. tool = "generate" /\ Sums
    BY <1>2, ToolStays DEF ReportInv
  <2>2. CASE (\E c \in Configs, n \in Pilots, p \in Prompts : StartGenerate(c, n, p)) \/ StartParaphrase \/ StartSimulate
    BY <2>1, <2>2, BeginSums
  <2>3. CASE Steps \/ CallEnds
    BY <2>1, <2>3, NextCallSums, CallSums, RecordSums, CountSums, EndSums DEF Steps
  <2>4. CASE Interrupt \/ Kill
    BY <2>1, <2>4, EndSums, KillSums
  <2> QED BY <1>2, <2>2, <2>3, <2>4 DEF Next
<1>3. CASE UNCHANGED allVars
  BY <1>1, <1>3 DEF allVars, vars
<1>4. ASSUME NEW k, NEW dies, Assign(k, dies) PROVE ReportInv'
  BY <1>1, <1>4 DEF Assign, vars
<1>5. ASSUME NEW e, NEW changed, Return(e, changed) PROVE ReportInv'
  BY <1>1, <1>5 DEF Return, vars
<1>6. ASSUME NEW k, Collect(k) PROVE ReportInv'
  BY <1>1, <1>6 DEF Collect
<1>7. ASSUME NEW lines, Build(lines) PROVE ReportInv'
  BY <1>1, <1>7 DEF Build, vars
<1>8. ASSUME NEW lines, NEW setting, NEW files, RunFilter(lines, setting, files) PROVE ReportInv'
  BY <1>1, <1>8 DEF RunFilter, vars
<1> QED BY <1>2, <1>3, <1>4, <1>5, <1>6, <1>7, <1>8 DEF EditsNext

(* -------------------------------- theorems -------------------------------- *)
LEMMA EditsInvariant == EditsSpec => [](PaidInv /\ SheetsTyped /\ SetsInv /\ ReportInv)
<1>1. EditsInit => PaidInv /\ SheetsTyped /\ SetsInv /\ ReportInv
  <2> SUFFICES ASSUME EditsInit PROVE PaidInv /\ SheetsTyped /\ SetsInv /\ ReportInv
    OBVIOUS
  <2>1. PaidInv
    BY PaidInit DEF EditsInit
  <2>2. SheetsTyped
    BY DEF EditsInit, SheetsTyped, DealNumbers
  <2>3. SetsInv
    BY DEF EditsInit, SetsInv, SetsTyped, EachAnswerOnce, NoFile
  <2>4. ReportInv
    BY ReportInit DEF EditsInit
  <2> QED BY <2>1, <2>2, <2>3, <2>4
<1>2. PaidInv /\ SheetsTyped /\ SetsInv /\ ReportInv /\ [EditsNext]_allVars
        => (PaidInv /\ SheetsTyped /\ SetsInv /\ ReportInv)'
  <2> SUFFICES ASSUME PaidInv, SheetsTyped, SetsInv, ReportInv, [EditsNext]_allVars
               PROVE  PaidInv' /\ SheetsTyped' /\ SetsInv' /\ ReportInv'
    OBVIOUS
  <2>1. SheetsTyped'
    <3>1. CASE UNCHANGED allVars
      BY <3>1 DEF allVars, editVars, SheetsTyped
    <3> QED BY <3>1, SheetsKept
  <2> QED BY <2>1, EditsPaid, SetsKept, ReportKept
<1> QED BY <1>1, <1>2, PTL DEF EditsSpec

(* An answer is paid for once over all the runs of a folder, whatever the     *)
(* configurations, stops and kills: every answer bought is one line of the    *)
(* folder or of a buffer, is in the running process's hand, or was lost when  *)
(* a process was stopped; a stop costs a harness run one answer at most.      *)
THEOREM AnswersArePaidOnce == EditsSpec => []PaidOnce
<1>1. PaidInv => PaidOnce
  <2> SUFFICES ASSUME PaidInv PROVE PaidOnce
    OBVIOUS
  <2>1. folder.lines \in Seq(Records) /\ proc.buffer \in Seq(Records) /\ Typed
    BY DEF PaidInv, Typed, ProcTyped, FolderTyped
  <2>2. Written \in Seq(Records) /\ Len(Written) = Len(folder.lines) + Len(proc.buffer)
    BY <2>1, WrittenTyped
  <2>3. IdsOf(folder.lines) \cup IdsOf(proc.buffer) = IdsOf(Written)
    BY <2>1, IdsOfBoth DEF Written
  <2>4. Cardinality(IdsOf(Written)) = Len(Written)
    BY <2>2, AsManyIds DEF PaidInv, OnceOK
  <2> QED BY <2>2, <2>3, <2>4 DEF PaidInv, BillOK, Held, PaidOnce
<1> QED BY <1>1, EditsInvariant, PTL

(* A harness folder holds answers of one prompt only; a simulated edit's      *)
(* place in the draws is its place in the selection, in whichever run it was  *)
(* made and whatever that run passed over.                                    *)
THEOREM AnswersAreMadeAsPlanned == EditsSpec => []MadeAsPlanned
<1>1. PaidInv => MadeAsPlanned
  <2> SUFFICES ASSUME PaidInv PROVE MadeAsPlanned
    OBVIOUS
  <2>1. \A i \in DOMAIN folder.lines : i \in DOMAIN Written /\ Written[i] = folder.lines[i]
    BY WrittenTyped DEF PaidInv
  <2> QED BY <2>1 DEF PaidInv, HowLines, PlaceOf, MadeAsPlanned
<1> QED BY <1>1, EditsInvariant, PTL

(* The report of a harness folder claims no record and no charge that there   *)
(* was not, over any number of runs, interruptions and kills and whichever    *)
(* generators each run names.  Without a kill it is one record of a generator *)
(* short at most; and if moreover no interrupt fell between a line and its    *)
(* count, it counts every record and every charge but of the answers that     *)
(* were dropped.                                                              *)
THEOREM ReportsAddUp == EditsSpec => []ReportAddsUp
<1>1. ReportInv /\ PaidInv => ReportAddsUp
  <2> SUFFICES ASSUME ReportInv, PaidInv, tool = "generate", ~proc.on, NEW g \in Generators
               PROVE  LET entry == folder.report[g] n == RecordsOf(g, folder.lines)
                      IN  /\ entry.succeeded <= n /\ entry.tokens <= bill.spent[g]
                          /\ bill.kills = 0 => n <= entry.succeeded + 1
                          /\ bill.kills = 0 /\ bill.cuts[g] = 0 =>
                                /\ entry.succeeded = n \/ (entry.succeeded = -1 /\ n = 0)
                                /\ entry.tokens + bill.dropped[g] = bill.spent[g]
    BY DEF ReportAddsUp
  <2> DEFINE n == RecordsOf(g, folder.lines)
             e == folder.report[g]
  <2>1. Sums /\ proc.phase = "next" /\ Told = folder.report
    BY DEF ReportInv, Told, PaidInv, OnceOK, Resting
  <2>2. n \in Nat /\ e \in Entry /\ Add(Books(g), bill.dropped[g], bill.kills = 0, bill.cuts[g] = 0)
    BY <2>1, FolderOf DEF Sums, Accounted
  <2>3. e.succeeded \in Nat \cup {-1} /\ e.tokens \in Nat
    BY <2>2 DEF Entry
  <2>4. Books(g) = [lines |-> n, spent |-> bill.spent[g], succeeded |-> e.succeeded, tokens |-> e.tokens,
                    unwritten |-> 0, uncounted |-> 0, owed |-> 0]
    <3>1. \A phases : "next" \notin phases => At(g, phases) = 0
      BY <2>1 DEF At
    <3> QED BY <2>1, <3>1 DEF Books
  <2> HIDE DEF n, e
  <2> QED BY <2>2, <2>3, <2>4 DEF Add, Exact, n, e
<1> QED BY <1>1, EditsInvariant, PTL

(* An answer is in the edited set once, edited by a person or by the model;   *)
(* the kept paraphrases hold each once, apart from what the same run of the   *)
(* filter excluded; no report is of a later run than the files it is on.      *)
THEOREM FilesHoldAnswersOnce == EditsSpec => []EachAnswerOnce
<1>1. SetsInv => EachAnswerOnce
  BY DEF SetsInv
<1> QED BY <1>1, EditsInvariant, PTL

=============================================================================
