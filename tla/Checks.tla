------------------------------- MODULE Checks --------------------------------
(* apps/api, checks_service: POST /checks asks the detector for a score,      *)
(* decides and saves a row; GET /checks pages through the saved rows, newest  *)
(* first.  Scores are integers on the scale of Experiments' table.            *)
EXTENDS Detector, Sequences, FiniteSetsExt, Functions

CONSTANTS
    People,         \* the people who run checks
    Admin,          \* a root admin, one of them
    Since,          \* Since[p]: reprovisioned_at, rows before it are an earlier person's
    Ids,            \* primary keys, numbers; a new one is random
    EarlierRows,    \* the rows saved before the behaviour starts
    RawWords,       \* RawWords[answer]: its words as submitted, len(answer_text.split())
    MinAnswerWords, \* MIN_ANSWER_WORDS
    Band,           \* ABSTENTION_BAND
    Clock           \* the values created_at takes from now on, coarse

ASSUME ChecksAssumption ==
    /\ Admin \in People /\ Ids \subseteq Nat \ {0} /\ Clock \subseteq Int
    /\ IsFiniteSet(EarlierRows)
    /\ \A r \in EarlierRows : r.id \in Nat \ {0} /\ r.created \in Int
    /\ \A r, o \in EarlierRows : r.id = o.id => r = o

VARIABLES
    request,        \* caller -> its POST /checks
    rows,           \* the table checks
    threshold,      \* DETECTOR_THRESHOLD
    walk            \* somebody's walk through the history pages
checkVars == <<request, rows, threshold, walk>>

Everybody == "everybody"
NoRequest == [at |-> "none", actor |-> Admin, answer |-> 0, score |-> 0, by |-> NoImage]
NoWalk == [at |-> "none", actor |-> Admin, of |-> Everybody, limit |-> 1, cursor |-> 0, shown |-> <<>>, before |-> {}]

(* ---------------------------- POST /checks -------------------------------- *)
(* detector_client.score_text sends the answer; create_check waits 10 s for   *)
(* it.                                                                        *)
Ask(c, actor, answer) ==
    /\ request[c].at = "none"
    /\ request' = [request EXCEPT ![c] = [NoRequest EXCEPT !.at = "asking", !.actor = actor, !.answer = answer]]
    /\ call' = [call EXCEPT ![c] = [NoCall EXCEPT !.at = "waiting", !.text = answer]]
    /\ UNCHANGED <<image, status, loaded, holder, warming, rows, threshold, walk>>

(* The 10 s are over: 504.  The detector knows nothing of it and goes on.     *)
TimeOut(c) ==
    /\ request[c].at = "asking"
    /\ request' = [request EXCEPT ![c] = [NoRequest EXCEPT !.at = "504"]]
    /\ UNCHANGED <<detectorVars, rows, threshold, walk>>

(* The detector's answer is there in time: a score, or 503 for anything else. *)
Hear(c) ==
    /\ request[c].at = "asking" /\ call[c].at \in {"answered", "failed", "gone"}
    /\ request' = [request EXCEPT ![c] = IF call[c].at = "answered" THEN [@ EXCEPT !.at = "scored", !.score = call[c].score, !.by = call[c].by]
                                         ELSE [NoRequest EXCEPT !.at = "503"]]
    /\ call' = [call EXCEPT ![c] = [NoCall EXCEPT !.at = "heard"]]
    /\ UNCHANGED <<image, status, loaded, holder, warming, rows, threshold, walk>>

Distance(x, y) == IF x > y THEN x - y ELSE y - x
Decide_Slip(score, words) ==        \* no abstention
    IF words < MinAnswerWords THEN "uncertain" ELSE IF score > threshold THEN "ai_generated" ELSE "human_written"
Decide(score, words) ==
    IF words < MinAnswerWords \/ Distance(score, threshold) <= Band THEN "uncertain"
    ELSE IF score > threshold THEN "ai_generated" ELSE "human_written"

(* The row is written, with the clock of the server or worker that made it    *)
(* and a random id.                                                           *)
Save(c, id, now) ==
    /\ request[c].at = "scored" /\ id \in Ids \ {r.id : r \in rows}
    /\ rows' = rows \cup {[id |-> id, actor |-> request[c].actor, created |-> now, answer |-> request[c].answer,
                           verdict |-> Decide(request[c].score, RawWords[request[c].answer]), threshold |-> threshold, by |-> request[c].by]}
    /\ request' = [request EXCEPT ![c] = [NoRequest EXCEPT !.at = "201"]]
    /\ UNCHANGED <<detectorVars, threshold, walk>>

(* ----------------------------- GET /checks -------------------------------- *)
(* User.owns, and list_checks' filter: one's own rows, or for a root admin    *)
(* everybody's or those of one person.                                        *)
Owns(p, r) == r.actor = p /\ r.created >= Since[p]
Listed(p, of) == {r \in rows : IF p # Admin THEN Owns(p, r) ELSE of \in {Everybody, r.actor}}
(* get_check_by_id: whether this person may open this row.                    *)
Readable(p, r) == p = Admin \/ Owns(p, r)

(* Newest first, ties by id; a page begins after the cursor's row.            *)
Older(a, b) == a.created < b.created \/ (a.created = b.created /\ a.id < b.id)
Beyond_Slip(r, anchor) == r.created < anchor.created    \* ties are not broken
Beyond(r, anchor) == Older(r, anchor)
RowOf(id) == CHOOSE r \in rows : r.id = id
Candidates(w) == {r \in Listed(w.actor, w.of) : w.cursor = 0 \/ Beyond(r, RowOf(w.cursor))}
Newest(set, n) == {r \in set : Cardinality({o \in set : Older(r, o)}) < n}

StartWalk(p, of, limit) ==
    /\ walk.at = "none" /\ (p # Admin => of = Everybody)
    /\ walk' = [NoWalk EXCEPT !.at = "walking", !.actor = p, !.of = of, !.limit = limit, 
                   !.before = {r \in rows : Readable(p, r) /\ of \in {Everybody, r.actor}}]
    /\ UNCHANGED <<detectorVars, request, rows, threshold>>

(* One row more than the limit is read, to know whether a page follows.       *)
NextPage ==
    LET found == Newest(Candidates(walk), walk.limit + 1)
        page == Newest(found, walk.limit)
        last == CHOOSE r \in page : \A o \in page : ~Older(o, r)
    IN  /\ walk.at = "walking"
        /\ walk' = [walk EXCEPT !.shown = Append(@, page), !.at = IF found = page THEN "ended" ELSE @,
                       !.cursor = IF found = page THEN 0 ELSE last.id]
        /\ UNCHANGED <<detectorVars, request, rows, threshold>>

CloseWalk ==
    /\ walk.at = "ended" /\ walk' = [NoWalk EXCEPT !.at = "closed"]
    /\ UNCHANGED <<detectorVars, request, rows, threshold>>

(* -------------------------------- properties ------------------------------ *)
(* Whoever walks through the pages while checks are being saved is shown every *)
(* check that was there when they began, each once and newest first, and none *)
(* that they may not open.                                                    *)
WalkShowsEachOnce ==
    /\ \A i, j \in DOMAIN walk.shown : i < j => \A a \in walk.shown[i], b \in walk.shown[j] : Older(b, a)
    /\ walk.at = "ended" => walk.before \subseteq UNION Range(walk.shown)
    /\ \A r \in UNION Range(walk.shown) : Readable(walk.actor, r)
=============================================================================
