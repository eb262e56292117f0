------------------------------ MODULE Detector -------------------------------
(* apps/detector with the ensemble backend: one process, a warm-up thread and *)
(* a worker thread per request, which take turns at the model under _lock.    *)
(* image says what the container was built from: the desklib version in its   *)
(* code, the RADAR adapter and the settings next to it.  Loading the models   *)
(* may fail each time it is tried (memory, a file that will not open).        *)
EXTENDS Integers, FiniteSets

CONSTANTS Callers       \* the requests to /score

Nobody == 0             \* requests are numbered from 1
WarmUp == -1

VARIABLES
    image,      \* what the running container was built from
    status,     \* _status
    loaded,     \* whether the lru_caches hold the models
    holder,     \* who holds _lock: a caller, the warm-up thread or nobody
    warming,    \* whether the warm-up thread still waits for its turn
    call        \* caller -> its request here: none, waiting, inside, failed, gone or answered
detectorVars == <<image, status, loaded, holder, warming, call>>

NoImage == [desklib |-> 0, radar |-> 0, settings |-> [desklib |-> 0, radar |-> 0, threshold |-> 0]]
NoCall == [at |-> "none", text |-> 0, score |-> 0, by |-> NoImage]
InDetector(c) == call[c].at \in {"waiting", "inside"}

(* settings: an image whose code runs another desklib than the calibration    *)
(* was fitted for does not score.                                             *)
Accepted(img) == img.settings.desklib = img.desklib

(* lifespan: the warm-up thread is started and the port opens.                *)
Started(img) ==
    /\ image' = img /\ status' = "loading" /\ loaded' = FALSE /\ holder' = Nobody /\ warming' = TRUE

TakeLock(c) ==
    /\ holder = Nobody /\ holder' = c
    /\ call[c].at = "waiting" /\ call' = [call EXCEPT ![c].at = "inside"]
    /\ UNCHANGED <<image, status, loaded, warming>>
WarmUpBegins ==
    /\ holder = Nobody /\ holder' = WarmUp
    /\ warming /\ warming' = FALSE
    /\ UNCHANGED <<image, status, loaded, call>>

(* ensemble.score: check the settings, load what the caches do not hold,      *)
(* score.  The with statement lets go of the lock on an exception too.        *)
Attempt(ok) ==
    /\ ok \in (IF ~Accepted(image) THEN {FALSE} ELSE IF loaded THEN {TRUE} ELSE BOOLEAN)
    /\ loaded' = (loaded \/ ok)

(* warm_up: one score; an exception leaves the status failed for good.        *)
WarmUpEnds(ok) ==
    /\ holder = WarmUp /\ Attempt(ok) /\ holder' = Nobody
    /\ status' = (IF ok THEN "ready" ELSE "failed")
    /\ UNCHANGED <<image, warming, call>>

(* score_text for one request: a score, or a 500; whoever has hung up does    *)
(* not get it.                                                                *)
Outcome(ok, score, heard) ==
    IF ~heard THEN [NoCall EXCEPT !.at = "gone"]
    ELSE IF ok THEN [NoCall EXCEPT !.at = "answered", !.score = score, !.by = image]
    ELSE [NoCall EXCEPT !.at = "failed"]
ScoreText_Slip(c, ok, score, heard) ==      \* an exception keeps the lock
    /\ holder = c /\ Attempt(ok) /\ holder' = (IF ok THEN Nobody ELSE c)
    /\ call' = [call EXCEPT ![c] = Outcome(ok, score, heard)]
    /\ UNCHANGED <<image, status, warming>>
ScoreText(c, ok, score, heard) ==
    /\ holder = c /\ Attempt(ok) /\ holder' = Nobody
    /\ call' = [call EXCEPT ![c] = Outcome(ok, score, heard)]
    /\ UNCHANGED <<image, status, warming>>
=============================================================================
