------------------------------- MODULE Console -------------------------------
(* Whose checks and batches a person finds: Directory's accounts, which keep  *)
(* their id when an address is invited again, with the checks and batches     *)
(* that carry that id (checks_service, batches_service and the Worker).       *)
EXTENDS Directory, Sequences

CONSTANTS
    Batches,            \* ids
    Files,              \* Files[f]: an uploaded CSV, its columns and for each line the lengths of its fields
    AnswerMin, AnswerMax, RefMax, QuestionMax, MaxRows, RequiresQuestion,
    MaxCrashes          \* bound

ASSUME ConsoleAssumption ==
    /\ \A f \in DOMAIN Files : Files[f].lines \in Seq([ref : Nat, answer : Nat, question : Nat])
    /\ \A ask \in Asks : ask.op = "batch" => ask.with \in DOMAIN Files

VARIABLES
    checks,     \* [actor, created, by]: by is the holder of the account it was asked for
    batch,      \* b -> its row, with its messages that are still queued
    worker,     \* the row in the Worker's hand
    crashes
screeningVars == <<checks, batch, worker, crashes>>
vars == <<directoryVars, screeningVars>>

NoBatch == [live |-> FALSE, actor |-> NoUser, by |-> 0, created |-> 0, total |-> 0, queued |-> 0, done |-> 0, failed |-> 0,
            cancelled |-> FALSE]
Idle == [of |-> "none", by |-> 0]

(* ------------------------------ POST /checks ------------------------------ *)
(* The detector has answered; the row carries the time of its insert.         *)
CreateCheck(c) ==
    /\ Is(c, "check") /\ Ended(c)
    /\ checks' = checks \cup {[actor |-> Actor(c), created |-> clock, by |-> Mark(Actor(c), Self(c).holder)]}
    /\ UNCHANGED <<users, links, batch, worker, crashes>>

(* ------------------------------ POST /batches ----------------------------- *)
(* A browser that gives up after 15 s changes nothing here: the request goes  *)
(* on, and whoever submits again makes a second batch.                        *)
ValidRow(line) ==
    /\ line.ref \in 1..RefMax /\ line.answer \in AnswerMin..AnswerMax /\ line.question <= QuestionMax
    /\ RequiresQuestion => line.question > 0

(* How many rows are queued and how many are rejected; a file without the     *)
(* columns is one failure.                                                    *)
ParseAndValidate(file) ==
    LET good == {k \in DOMAIN file.lines : k <= MaxRows /\ ValidRow(file.lines[k])}
    IN  IF {"external_ref", "answer_text"} \subseteq file.columns
        THEN [rows |-> Cardinality(good), failures |-> Len(file.lines) - Cardinality(good)]
        ELSE [rows |-> 0, failures |-> 1]

CreateBatch(c, b) ==
    LET parsed == ParseAndValidate(Files[request[c].ask.with])
    IN  /\ Is(c, "batch") /\ ~batch[b].live /\ Ended(c)
        /\ batch' = [batch EXCEPT ![b] =
                [live |-> TRUE, actor |-> Actor(c), by |-> Mark(Actor(c), Self(c).holder), created |-> clock,
                 total |-> parsed.rows + parsed.failures, queued |-> parsed.rows, done |-> 0, failed |-> parsed.failures,
                 cancelled |-> FALSE]]
        /\ UNCHANGED <<users, links, checks, worker, crashes>>

(* --------------------------- ownership and cancel ------------------------- *)
Owns_Slip(u, row, actor, created) == actor = u      \* reprovisioned_at is not looked at
Owns(u, row, actor, created) == actor = u /\ created >= row.since

CancelBatch(c) ==
    LET b == request[c].ask.with
        mine == batch[b].live /\ (Self(c).role = "root_admin" \/ Owns(Actor(c), Self(c), batch[b].actor, batch[b].created))
    IN  /\ Is(c, "cancel") /\ Ended(c)
        /\ batch' = IF mine THEN [batch EXCEPT ![b].cancelled = TRUE] ELSE batch
        /\ UNCHANGED <<users, links, checks, worker, crashes>>

(* delete_user cancels the batches that look unfinished by their counts.      *)
Unfinished(b) == batch[b].total > batch[b].done + batch[b].failed
DeleteUser(c) ==
    /\ Delete(c)
    /\ batch' = IF MayDelete(c) THEN [b \in Batches |-> [batch[b] EXCEPT !.cancelled = @ \/ (batch[b].actor = Target(c) /\ Unfinished(b))]]
                ELSE batch
    /\ UNCHANGED <<checks, worker, crashes>>

(* -------------------------------- the Worker ------------------------------ *)
(* It reads cancelled_at once.                                                *)
TakeRow(b) ==
    LET cancelled == batch[b].cancelled
    IN  /\ worker = Idle /\ batch[b].queued > 0
        /\ worker' = IF cancelled THEN Idle ELSE [of |-> b, by |-> IF Holds(batch[b].actor, batch[b].by) THEN batch[b].by ELSE Late]
        /\ batch' = IF cancelled THEN [batch EXCEPT ![b].queued = @ - 1, ![b].failed = @ + 1] ELSE batch
        /\ UNCHANGED <<directoryVars, checks, crashes>>

(* A row taken for the present holder that arrives after a change of hands is *)
(* late, as is all of a batch of which a row is counted twice: the Worker dies*)
(* after the commit and the message comes again.                              *)
StoreRow(dies) ==
    LET b == worker.of  u == batch[b].actor
    IN  /\ worker # Idle /\ worker' = Idle
        /\ dies => crashes < MaxCrashes
        /\ crashes' = IF dies THEN crashes + 1 ELSE crashes
        /\ checks' = checks \cup {[actor |-> u, created |-> clock, by |-> IF worker.by = Late THEN batch[b].by ELSE Mark(u, worker.by)]}
        /\ batch' = [batch EXCEPT ![b].done = @ + 1, ![b].queued = IF dies THEN @ ELSE @ - 1, ![b].by = IF dies THEN Late ELSE @]
        /\ UNCHANGED directoryVars
(* The row failed for good.                                                   *)
FailRow ==
    /\ worker # Idle /\ worker' = Idle
    /\ batch' = [batch EXCEPT ![worker.of].failed = @ + 1, ![worker.of].queued = @ - 1]
    /\ UNCHANGED <<directoryVars, checks, crashes>>

Init ==
    /\ DirectoryInit /\ checks = {} /\ worker = Idle /\ crashes = 0
    /\ batch = [b \in Batches |-> NoBatch]
Next ==
    \/ \E c \in Callers :
        \/ (\E ask \in Asks : Authenticate(c, ask)) /\ UNCHANGED screeningVars
        \/ UserStep(c) /\ UNCHANGED screeningVars
        \/ CreateCheck(c) \/ CancelBatch(c) \/ DeleteUser(c) \/ \E b \in Batches : CreateBatch(c, b)
    \/ (\E b \in Batches : TakeRow(b)) \/ (\E dies \in BOOLEAN : StoreRow(dies)) \/ FailRow
Spec == Init /\ [][Next]_vars

(* ------------------------------- properties ------------------------------- *)
(* Whoever gets an account whose address somebody else had finds nothing of   *)
(* that person: no name, no sign-in, no check, no batch; apart from what was  *)
(* under way when the account was deleted or changed hands, and the rest of a *)
(* batch whose counts a crash has spoilt.                                     *)
NothingCarriesOver ==
    \A u \in Users : users[u].status = "active" =>
        LET mine == {0, Late, users[u].holder}
        IN  /\ users[u].name \in mine /\ users[u].login \in mine
            /\ \A r \in checks : Owns(u, users[u], r.actor, r.created) => r.by \in mine
            /\ \A b \in Batches : (batch[b].live /\ Owns(u, users[u], batch[b].actor, batch[b].created)) => batch[b].by \in mine
=============================================================================
