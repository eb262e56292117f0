---------------------------- MODULE BatchPipeline ----------------------------
(* A batch from its upload to its last row.                                  *)
(*                                                                           *)
(*   create_batch   commits the batch and its rejected rows, then sends one  *)
(*                  message per valid row, then records the rows that could  *)
(*                  not be sent (api/app/services/batches_service.py)        *)
(*   poll_once      receives a page of messages, scores each row and deletes *)
(*                  its message, then drains the dead-letter queue           *)
(*                  (worker/worker/main.py)                                  *)
(*   cancel_batch   sets cancelled_at, then purges the batch's messages from *)
(*                  the shared queue; delete_user does the same for every    *)
(*                  unfinished batch of the deleted user                     *)
(*                                                                           *)
(* Each database commit and each SQS call is a step of its own.  A step of   *)
(* the API or of a Worker may be its last: processes crash, and the SQS      *)
(* messages they held become visible again.                                  *)
EXTENDS RowQueue, Functions

CONSTANTS Batches, Users, Workers, Requests,
          BatchOf,     \* the batch a valid row belongs to
          OwnerOf,     \* the user who submits a batch (Batch.actor_id)
          NoRow,       \* no row in hand
          Rejected,    \* how many rows of the file fail _validate_row
          DrainMax,    \* MAX_CANCEL_DRAIN_ITERATIONS
          MaxFaults    \* bound on the faults of one behaviour

ASSUME PipelineAssumption ==
    /\ BatchOf \in [Rows -> Batches]
    /\ OwnerOf \in [Batches -> Users]
    /\ Rejected \in [Batches -> Nat]
    /\ DrainMax \in Nat
    /\ MaxFaults \in Nat
    /\ IsFiniteSet(Workers)
    /\ Receivers = Workers \cup Requests
    /\ Workers \cap Requests = {}
    /\ NoRow \notin Rows

VARIABLES submit,     \* how far create_batch is, per batch
          live,       \* users whose status is not deleted
          cancelled,  \* cancelled_at is not null
          checks,     \* number of checks rows stored for the row
          failures,   \* number of batch_row_failures rows stored for it
          worker,     \* the Workers' local state
          request,    \* the cancel and delete requests' local state
          faults      \* faults so far (at most MaxFaults)

(* History, read by properties only. *)
VARIABLE late       \* checks a worker stored for an already cancelled batch

dbVars == <<submit, live, cancelled, checks, failures>>
historyVars == <<late>>
vars == <<queueVars, dbVars, worker, request, faults, historyVars>>

----------------------------------------------------------------------------
RowsOf(b) == {r \in Rows : BatchOf[r] = b}

(* The batches row exists. *)
Committed(b) == submit[b] \in {"queueing", "done", "dead"}

Resolved(r) == checks[r] > 0 \/ failures[r] > 0

(* get_batch_progress: counted on read, never stored. *)
RowTotal_ValidOnly(b) == Cardinality(RowsOf(b))  \* mutant: rejected rows not counted
RowTotal(b) == Cardinality(RowsOf(b)) + Rejected[b]
Completed(b) == SumFunctionOnSet(checks, RowsOf(b))
Failed(b) == SumFunctionOnSet(failures, RowsOf(b)) + Rejected[b]
Pending(b) == LET left == RowTotal(b) - Completed(b) - Failed(b)
              IN  IF left > 0 THEN left ELSE 0

Fault == faults < MaxFaults /\ faults' = faults + 1

(* Some receiver is still working through the page r came in. *)
Held(r) == \/ \E w \in Workers : r \in worker[w].hold \/ r = worker[w].cur
           \/ \E q \in Requests : r \in request[q].hold

----------------------------------------------------------------------------
(* create_batch *)

(* The request passes authentication; then the CSV is fetched and parsed. *)
Submit(b) ==
    /\ submit[b] = "new"
    /\ live[OwnerOf[b]]
    /\ submit' = [submit EXCEPT ![b] = "parsing"]
    /\ UNCHANGED <<queueVars, live, cancelled, checks, failures, worker, request, faults, historyVars>>

(* One commit: the batch and a failure for each rejected row (Rejected[b]). *)
CommitBatch(b) ==
    /\ submit[b] = "parsing"
    /\ submit' = [submit EXCEPT ![b] = "queueing"]
    /\ UNCHANGED <<queueVars, live, cancelled, checks, failures, worker, request, faults, historyVars>>

EnqueueRow(r) ==
    /\ submit[BatchOf[r]] = "queueing"
    /\ place[r] = "unsent"
    /\ Send(r)
    /\ UNCHANGED <<dbVars, worker, request, faults, historyVars>>

(* send_message raises and the queue has no message; the row joins the       *)
(* failed ones.                                                              *)
RefuseRow(r) ==
    /\ submit[BatchOf[r]] = "queueing"
    /\ place[r] = "unsent"
    /\ place' = [place EXCEPT ![r] = "refused"]
    /\ UNCHANGED <<receives, holder, dbVars, worker, request, faults, historyVars>>

RefusedRows(b) == {r \in RowsOf(b) : place[r] = "refused"}

(* Mutant: the rows that could not be sent are only logged. *)
FinishEnqueue_LogsOnly(b, U) ==
    /\ submit[b] = "queueing"
    /\ \A r \in RowsOf(b) : place[r] # "unsent"
    /\ U = {}
    /\ submit' = [submit EXCEPT ![b] = "done"]
    /\ UNCHANGED <<queueVars, live, cancelled, checks, failures, worker, request, faults, historyVars>>

(* Every row was tried: those whose send raised are recorded in one commit,  *)
(* the refused ones and U, the ones that SQS had taken all the same (its     *)
(* answer was lost).  A row of U has been on its way since; each is a fault. *)
FinishEnqueue(b, U) ==
    /\ submit[b] = "queueing"
    /\ \A r \in RowsOf(b) : place[r] # "unsent"
    /\ U \subseteq RowsOf(b) \ RefusedRows(b)
    /\ submit' = [submit EXCEPT ![b] = "done"]
    /\ failures' = [r \in Rows |-> IF r \in RefusedRows(b) \cup U THEN failures[r] + 1 ELSE failures[r]]
    /\ faults' = faults + Cardinality(U)
    /\ faults' <= MaxFaults
    /\ UNCHANGED <<queueVars, live, cancelled, checks, worker, request, historyVars>>

(* The API process dies, or the last commit raises, after the batch commit. *)
AbortSubmit(b) ==
    /\ submit[b] = "queueing"
    /\ Fault
    /\ submit' = [submit EXCEPT ![b] = "dead"]
    /\ UNCHANGED <<queueVars, live, cancelled, checks, failures, worker, request, historyVars>>

----------------------------------------------------------------------------
(* cancel_batch and the batches side of delete_user *)

CancelBatch(q, b) ==
    /\ request[q].pc = "idle"
    /\ Committed(b)
    /\ ~cancelled[b]
    /\ cancelled' = [cancelled EXCEPT ![b] = TRUE]
    /\ request' = [request EXCEPT ![q] = [pc |-> "purge", targets |-> {b}, hold |-> {}, left |-> DrainMax]]
    /\ UNCHANGED <<queueVars, submit, live, checks, failures, worker, faults, historyVars>>

(* _transition to deleted with _cancel_unfinished_batches, in one commit.    *)
(* The row lock makes an uncommitted batch of the user wait or go first.     *)
Unfinished(b) == Committed(b) /\ RowTotal(b) > Completed(b) + Failed(b)

DeleteOwner(q, u) ==
    /\ request[q].pc = "idle"
    /\ live[u]
    /\ live' = [live EXCEPT ![u] = FALSE]
    /\ cancelled' = [b \in Batches |-> cancelled[b] \/ (OwnerOf[b] = u /\ Unfinished(b))]
    /\ request' = [request EXCEPT ![q] = [pc |-> "select", targets |-> {b \in Batches : OwnerOf[b] = u},
                                          hold |-> {}, left |-> DrainMax]]
    /\ UNCHANGED <<queueVars, submit, checks, failures, worker, faults, historyVars>>

(* After the Auth0 call delete_user selects every cancelled batch of the     *)
(* user, and purges only when there is one.                                  *)
SelectCancelled(q) ==
    LET mine == {b \in request[q].targets : cancelled[b]} IN
    /\ request[q].pc = "select"
    /\ mine # {}
    /\ request' = [request EXCEPT ![q] = [pc |-> "purge", targets |-> mine, hold |-> {}, left |-> DrainMax]]
    /\ UNCHANGED <<queueVars, dbVars, worker, faults, historyVars>>

(* One receive of purge_batch_messages.  Rows of other batches are looked at *)
(* and left hidden, their receive counted; the rest are deleted one by one.  *)
PurgeReceive(q, S) ==
    /\ request[q].pc = "purge"
    /\ request[q].hold = {}
    /\ request[q].left > 0
    /\ S # {}
    /\ Receive(q, S)
    /\ request' = [request EXCEPT ![q] =
          [pc |-> "purge", targets |-> @.targets, hold |-> {r \in S : BatchOf[r] \in @.targets}, left |-> @.left - 1]]
    /\ UNCHANGED <<dbVars, worker, faults, historyVars>>

PurgeDelete(q, r) ==
    /\ request[q].pc = "purge"
    /\ r \in request[q].hold
    /\ Delete(q, r, MainPlaces)
    /\ request' = [request EXCEPT ![q] = [pc |-> "purge", targets |-> @.targets, hold |-> @.hold \ {r}, left |-> @.left]]
    /\ UNCHANGED <<dbVars, worker, faults, historyVars>>

(* Nothing to purge, an empty receive, the last iteration, an SQS error or a *)
(* crash.                                                                    *)
EndPurge(q) ==
    /\ request[q].pc \in {"select", "purge"}
    /\ request' = [request EXCEPT ![q] = [pc |-> "over", targets |-> {}, hold |-> {}, left |-> 0]]
    /\ UNCHANGED <<queueVars, dbVars, worker, faults, historyVars>>

----------------------------------------------------------------------------
(* The Worker: poll_once, in a loop *)

(* Long polling returns nothing only when nothing is deliverable. *)
ReceiveRows(w, S) ==
    /\ worker[w].pc = "poll"
    /\ S = {} => Deliverable = {}
    /\ Receive(w, S)
    /\ worker' = [worker EXCEPT ![w] = [pc |-> "rows", hold |-> S, cur |-> NoRow]]
    /\ UNCHANGED <<dbVars, request, faults, historyVars>>

(* Mutant: the guard on cancelled_at is dropped. *)
ReadRow_NoGuard(w, r) ==
    /\ worker[w].pc = "rows"
    /\ r \in worker[w].hold
    /\ worker' = [worker EXCEPT ![w] = [pc |-> "score", hold |-> @.hold \ {r}, cur |-> r]]
    /\ UNCHANGED <<queueVars, dbVars, request, faults, historyVars>>

(* process_message reads cancelled_at, and decides on what it read. *)
ReadRow(w, r) ==
    /\ worker[w].pc = "rows"
    /\ r \in worker[w].hold
    /\ worker' = [worker EXCEPT ![w] = [pc |-> IF cancelled[BatchOf[r]] THEN "refuse" ELSE "score",
                                        hold |-> @.hold \ {r}, cur |-> r]]
    /\ UNCHANGED <<queueVars, dbVars, request, faults, historyVars>>

(* create_check: the detector answered and the check is committed. *)
StoreCheck(w) ==
    LET r == worker[w].cur IN
    /\ worker[w].pc = "score"
    /\ checks' = [checks EXCEPT ![r] = @ + 1]
    /\ late' = [late EXCEPT ![w] = [b \in Batches |-> IF b = BatchOf[r] /\ cancelled[b] THEN @[b] + 1 ELSE @[b]]]
    /\ worker' = [worker EXCEPT ![w].pc = "ack"]
    /\ UNCHANGED <<queueVars, submit, live, cancelled, failures, request, faults>>

(* Mutant: no return after recording the failure of a cancelled row. *)
StoreCancelled_FallsThrough(w) ==
    /\ worker[w].pc = "refuse"
    /\ failures' = [failures EXCEPT ![worker[w].cur] = @ + 1]
    /\ worker' = [worker EXCEPT ![w].pc = "score"]
    /\ UNCHANGED <<queueVars, submit, live, cancelled, checks, request, faults, historyVars>>

StoreCancelled(w) ==
    /\ worker[w].pc = "refuse"
    /\ failures' = [failures EXCEPT ![worker[w].cur] = @ + 1]
    /\ worker' = [worker EXCEPT ![w].pc = "ack"]
    /\ UNCHANGED <<queueVars, submit, live, cancelled, checks, request, faults, historyVars>>

(* Mutant: the message is deleted in a finally, so after a failure as well.  *)
RaiseRow_Acks(w) ==
    /\ worker[w].pc \in {"score", "refuse"}
    /\ worker' = [worker EXCEPT ![w].pc = "ack"]
    /\ UNCHANGED <<queueVars, dbVars, request, faults, historyVars>>

(* The detector times out or fails, or the commit raises: the message stays. *)
RaiseRow(w) ==
    /\ worker[w].pc \in {"score", "refuse"}
    /\ worker' = [worker EXCEPT ![w].pc = "rows", ![w].cur = NoRow]
    /\ UNCHANGED <<queueVars, dbVars, request, faults, historyVars>>

(* The commit went through, but the refresh after it raises. *)
RaiseAfterStore(w) ==
    /\ worker[w].pc = "ack"
    /\ Fault
    /\ worker' = [worker EXCEPT ![w].pc = "rows", ![w].cur = NoRow]
    /\ UNCHANGED <<queueVars, dbVars, request, historyVars>>

AckRow(w) ==
    /\ worker[w].pc = "ack"
    /\ Delete(w, worker[w].cur, MainPlaces)
    /\ worker' = [worker EXCEPT ![w].pc = "rows", ![w].cur = NoRow]
    /\ UNCHANGED <<dbVars, request, faults, historyVars>>

(* Mutant: poll_once does not drain the dead-letter queue. *)
ReceiveDlq_NoDrain(w, S) ==
    /\ worker[w].pc = "rows"
    /\ worker[w].hold = {}
    /\ S = {}
    /\ worker' = [worker EXCEPT ![w] = [pc |-> "poll", hold |-> {}, cur |-> NoRow]]
    /\ UNCHANGED <<queueVars, dbVars, request, faults, historyVars>>

(* drain_dlq_once, after the page; short polling may miss messages. *)
ReceiveDlq(w, S) ==
    /\ worker[w].pc = "rows"
    /\ worker[w].hold = {}
    /\ ReceiveDead(w, S)
    /\ worker' = [worker EXCEPT ![w] = [pc |-> IF S = {} THEN "poll" ELSE "dlq", hold |-> S, cur |-> NoRow]]
    /\ UNCHANGED <<dbVars, request, faults, historyVars>>

(* Mutant: a dead letter is deleted without a failure. *)
RecordDlq_DropsRow(w, r) ==
    /\ worker[w].pc = "dlq"
    /\ r \in worker[w].hold
    /\ worker' = [worker EXCEPT ![w] = [pc |-> "dlqAck", hold |-> @.hold \ {r}, cur |-> r]]
    /\ UNCHANGED <<queueVars, dbVars, request, faults, historyVars>>

RecordDlq(w, r) ==
    /\ worker[w].pc = "dlq"
    /\ r \in worker[w].hold
    /\ failures' = [failures EXCEPT ![r] = @ + 1]
    /\ worker' = [worker EXCEPT ![w] = [pc |-> "dlqAck", hold |-> @.hold \ {r}, cur |-> r]]
    /\ UNCHANGED <<queueVars, submit, live, cancelled, checks, request, faults, historyVars>>

(* A failed commit leaves the one session of the drain unusable, so every    *)
(* later message of the page raises as well and is left in the queue.        *)
BreakDrain(w) ==
    /\ worker[w].pc = "dlq"
    /\ Fault
    /\ worker' = [worker EXCEPT ![w] = [pc |-> "poll", hold |-> {}, cur |-> NoRow]]
    /\ UNCHANGED <<queueVars, dbVars, request, historyVars>>

AckDlq(w) ==
    /\ worker[w].pc = "dlqAck"
    /\ Delete(w, worker[w].cur, DlqPlaces)
    /\ worker' = [worker EXCEPT ![w] = [pc |-> IF @.hold = {} THEN "poll" ELSE "dlq", hold |-> @.hold, cur |-> NoRow]]
    /\ UNCHANGED <<dbVars, request, faults, historyVars>>

(* The task is killed, or an SQS call raises out of poll_once; ECS starts    *)
(* another one.                                                              *)
CrashWorker(w) ==
    /\ worker[w].pc # "poll"
    /\ Fault
    /\ worker' = [worker EXCEPT ![w] = [pc |-> "poll", hold |-> {}, cur |-> NoRow]]
    /\ UNCHANGED <<queueVars, dbVars, request, historyVars>>

----------------------------------------------------------------------------
(* SQS by itself.  A message reappears once nobody works on its page; while  *)
(* somebody does, only as a fault (a stalled Worker, a duplicate delivery).  *)
Reappear(r) ==
    /\ Expire(r)
    /\ IF Held(r) THEN Fault ELSE UNCHANGED faults
    /\ UNCHANGED <<dbVars, worker, request, historyVars>>

DeadLetter(r) ==
    /\ Redrive(r)
    /\ UNCHANGED <<dbVars, worker, request, faults, historyVars>>

----------------------------------------------------------------------------
Init ==
    /\ QueueInit
    /\ submit = [b \in Batches |-> "new"]
    /\ live = [u \in Users |-> TRUE]
    /\ cancelled = [b \in Batches |-> FALSE]
    /\ checks = [r \in Rows |-> 0]
    /\ failures = [r \in Rows |-> 0]
    /\ worker = [w \in Workers |-> [pc |-> "poll", hold |-> {}, cur |-> NoRow]]
    /\ request = [q \in Requests |-> [pc |-> "idle", targets |-> {}, hold |-> {}, left |-> 0]]
    /\ faults = 0
    /\ late = [w \in Workers |-> [b \in Batches |-> 0]]

CreateBatch(b) ==
    \/ Submit(b) \/ CommitBatch(b) \/ AbortSubmit(b)
    \/ \E U \in SUBSET Rows : FinishEnqueue(b, U)

SendRow(r) == EnqueueRow(r) \/ RefuseRow(r)

RequestStep(q) ==
    \/ \E b \in Batches : CancelBatch(q, b)
    \/ \E u \in Users : DeleteOwner(q, u)
    \/ SelectCancelled(q)
    \/ \E S \in SUBSET Rows : PurgeReceive(q, S)
    \/ \E r \in Rows : PurgeDelete(q, r)
    \/ EndPurge(q)

(* What poll_once does by itself ... *)
WorkerStep(w) ==
    \/ \E S \in SUBSET Rows : ReceiveRows(w, S) \/ ReceiveDlq(w, S)
    \/ \E r \in Rows : ReadRow(w, r) \/ RecordDlq(w, r)
    \/ StoreCheck(w) \/ StoreCancelled(w) \/ RaiseRow(w)
    \/ AckRow(w) \/ AckDlq(w)

(* ... and what goes wrong around it. *)
WorkerFault(w) == RaiseAfterStore(w) \/ BreakDrain(w) \/ CrashWorker(w)

QueueStep(r) == Reappear(r) \/ DeadLetter(r)

Next ==
    \/ \E b \in Batches : CreateBatch(b)
    \/ \E r \in Rows : SendRow(r) \/ QueueStep(r)
    \/ \E q \in Requests : RequestStep(q)
    \/ \E w \in Workers : WorkerStep(w) \/ WorkerFault(w)

Spec == Init /\ [][Next]_vars

(* The Worker loops forever and ECS restarts it; SQS timers run out; the     *)
(* event loop resumes a request it has started.  A drain pass that keeps     *)
(* missing a dead letter is not excluded by weak fairness, hence the last    *)
(* conjunct: short polling finds a message in the end.                       *)
Fairness ==
    /\ \A w \in Workers : WF_vars(WorkerStep(w))
    /\ \A r \in Rows : WF_vars(~Held(r) /\ Reappear(r)) /\ WF_vars(DeadLetter(r)) /\ WF_vars(SendRow(r))
    /\ \A b \in Batches : WF_vars(CommitBatch(b)) /\ WF_vars(\E U \in SUBSET Rows : FinishEnqueue(b, U))
    /\ \A q \in Requests : WF_vars(EndPurge(q))
    /\ \A r \in Rows : SF_vars(\E w \in Workers, S \in SUBSET Rows : r \in S /\ ReceiveDlq(w, S))

FairSpec == Spec /\ Fairness

----------------------------------------------------------------------------
(* Properties *)

WorkerPcs == {"poll", "rows", "score", "refuse", "ack", "dlq", "dlqAck"}
Carrying == {"score", "refuse", "ack", "dlqAck"}  \* a row is in hand

(* Every variable keeps its type; a Worker has a row in hand exactly between *)
(* reading it and being done with it; faults stay within their bound.        *)
TypeOK ==
    /\ QueueTypeOK
    /\ submit \in [Batches -> {"new", "parsing", "queueing", "done", "dead"}]
    /\ live \in [Users -> BOOLEAN]
    /\ cancelled \in [Batches -> BOOLEAN]
    /\ checks \in [Rows -> Nat]
    /\ failures \in [Rows -> Nat]
    /\ worker \in [Workers -> [pc : WorkerPcs, hold : SUBSET Rows, cur : Rows \cup {NoRow}]]
    /\ \A w \in Workers : worker[w].pc \in Carrying <=> worker[w].cur # NoRow
    /\ request \in [Requests -> [pc : {"idle", "select", "purge", "over"}, targets : SUBSET Batches,
                                 hold : SUBSET Rows, left : 0 .. DrainMax]]
    /\ faults \in 0 .. MaxFaults
    /\ late \in [Workers -> [Batches -> Nat]]

(* No row is lost: once create_batch has returned, each valid row has a      *)
(* check or a failure, or its message is still in one of the two queues, or  *)
(* its batch is cancelled.  Holds across Worker crashes, redeliveries,       *)
(* redrives, other batches' purges and refused sends.                        *)
NoRowLost ==
    \A r \in Rows : submit[BatchOf[r]] = "done" =>
        \/ Resolved(r)
        \/ place[r] \in MainPlaces \cup DlqPlaces
        \/ cancelled[BatchOf[r]]

(* The Worker's guard reads cancelled_at before a detector call of up to     *)
(* 10 s, so a check may still be stored after the cancel has committed, but  *)
(* at most one per Worker process, however many messages the purge missed.   *)
LateChecksBounded ==
    \A w \in Workers, b \in Batches : late[w][b] <= 1

(* What the counts of get_batch_progress can overshoot row_total by: every   *)
(* check or failure beyond one per row costs one crash, lost acknowledgement,*)
(* lost answer to a send or duplicate delivery.                              *)
OvershootBounded ==
    \A b \in Batches : Completed(b) + Failed(b) <= RowTotal(b) + faults

(* "completed + failed + pending == row_total always holds"                  *)
(* (docs/openapi.yaml, getBatchProgress).                                    *)
CountsAddUp ==
    \A b \in Batches : Committed(b) => Completed(b) + Failed(b) + Pending(b) = RowTotal(b)

(* Deleting a user "cancels every unfinished batch the user owns in the same *)
(* commit" (docs/openapi.yaml, DELETE /api/users/{id}), and leaves finished  *)
(* ones as they are, so that they do not turn into "cancelled" (DECISION LOG *)
(* [0.27.0]).  A row counted twice after a fault can hide one that is        *)
(* pending.                                                                  *)
DeleteCancelsTheUnfinished ==
    [][\A b \in Batches :
          (live[OwnerOf[b]] /\ ~live'[OwnerOf[b]] /\ Committed(b)) =>
              /\ (faults = 0 /\ \E r \in RowsOf(b) : ~Resolved(r)) => cancelled'[b]
              /\ (\A r \in RowsOf(b) : Resolved(r)) => cancelled'[b] = cancelled[b]]_vars

(* A delete cancels the user's unfinished batches "so no check is written    *)
(* for a deleted owner" (docs/openapi.yaml, changelog 0.27.0).               *)
NoCheckForDeletedOwner ==
    [][\A r \in Rows : checks'[r] > checks[r] => live[OwnerOf[BatchOf[r]]]]_vars

(* A row that could not be queued is recorded "so it never sits as pending   *)
(* forever" (docs/openapi.yaml, POST /api/batches).                          *)
NeverPendingForever ==
    \A r \in Rows : submit[BatchOf[r]] \in {"done", "dead"} /\ place[r] \in {"unsent", "refused"}
                       => Resolved(r)

(* Every row of an accepted batch ends with a check or a failure unless the  *)
(* batch is cancelled, through any bounded number of crashes: a row whose    *)
(* detector call keeps failing reaches the dead-letter queue and is recorded *)
(* from there.                                                               *)
EveryRowSettles ==
    \A r \in Rows : submit[BatchOf[r]] = "done" ~> Resolved(r) \/ cancelled[BatchOf[r]]

(* A cancelled batch leaves the queues: whatever the purge misses, the       *)
(* Worker's own check turns away.                                            *)
CancelledRowsLeave ==
    \A r \in Rows : cancelled[BatchOf[r]] ~> [](place[r] \notin MainPlaces \cup DlqPlaces)
----------------------------------------------------------------------------
(* The pipeline read as BatchContract: a row is claimed while its Worker is  *)
(* scoring it, and closed when its message is gone from both queues.         *)
Contract == INSTANCE BatchContract WITH
    accepted <- {b \in Batches : Committed(b)},
    claims <- [w \in Workers |-> IF worker[w].pc = "score" THEN worker[w].cur ELSE NoRow],
    closed <- {r \in Rows : place[r] = "gone"}

(* The queue, the receipts, the redeliveries, the purges and the crashes     *)
(* implement the contract: every step is one step of it or invisible to it.  *)
(* In particular no check comes from a claim made after the cancel, and no   *)
(* message is deleted before the row's outcome is stored.                    *)
ImplementsContract == Contract!Spec
=============================================================================
