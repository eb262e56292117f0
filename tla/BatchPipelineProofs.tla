------------------------ MODULE BatchPipelineProofs ------------------------
(* Safety of BatchPipeline for every number of batches, rows, Workers,       *)
(* requests and faults: types, no lost row, at most one late check per       *)
(* Worker, the contract of BatchContract, counts that overshoot by the       *)
(* faults at most, and what deleting a user cancels.                         *)
EXTENDS BatchPipeline, FiniteSetTheorems, TLAPS

----------------------------------------------------------------------------
(* The inductive invariant.  NoRowLost alone is not inductive: a row may     *)
(* leave the queue only because a Worker that has stored its outcome, or a   *)
(* purge of its cancelled batch, deletes the message.                        *)

(* A message that is gone is accounted for. *)
GoneOK == \A r \in Rows : place[r] = "gone" => Resolved(r) \/ cancelled[BatchOf[r]]

(* create_batch records what it could not send before it returns. *)
UnsentOK ==
    \A r \in Rows : submit[BatchOf[r]] = "done" =>
        place[r] # "unsent" /\ (place[r] = "refused" => Resolved(r))

(* Only a committed batch has messages. *)
SentOK == \A r \in Rows : place[r] # "unsent" => Committed(BatchOf[r])

(* What a Worker has in its hands was sent. *)
HeldOK ==
    \A w \in Workers, r \in Rows :
        r \in worker[w].hold \/ r = worker[w].cur => place[r] # "unsent"

(* A Worker deletes a message only after the row's outcome is stored. *)
AckOK == \A w \in Workers : worker[w].pc \in {"ack", "dlqAck"} => Resolved(worker[w].cur)

(* A purge deletes rows of cancelled batches only. *)
PurgeOK ==
    \A q \in Requests : request[q].pc = "purge" =>
        /\ \A b \in request[q].targets : cancelled[b]
        /\ \A r \in request[q].hold : BatchOf[r] \in request[q].targets

(* A Worker about to store a check of a batch has stored no late one: it     *)
(* read cancelled_at before the cancel, which a late check comes after.      *)
LateOK ==
    \A w \in Workers, b \in Batches :
        /\ late[w][b] \in {0, 1}
        /\ late[w][b] = 1 => cancelled[b]
        /\ worker[w].pc = "score" /\ BatchOf[worker[w].cur] = b => late[w][b] = 0

IInv == TypeOK /\ GoneOK /\ UnsentOK /\ SentOK /\ HeldOK /\ AckOK /\ PurgeOK /\ LateOK

----------------------------------------------------------------------------
(* What the steps of Next are, one by one: the case split that every step    *)
(* proof below starts from.                                                  *)
LEMMA StepCases ==
    ASSUME Next
    PROVE  \/ \E b \in Batches : Submit(b) \/ CommitBatch(b) \/ AbortSubmit(b)
           \/ \E b \in Batches, U \in SUBSET Rows : FinishEnqueue(b, U)
           \/ \E r \in Rows : EnqueueRow(r) \/ RefuseRow(r) \/ Reappear(r) \/ DeadLetter(r)
           \/ \E q \in Requests, b \in Batches : CancelBatch(q, b)
           \/ \E q \in Requests, u \in Users : DeleteOwner(q, u)
           \/ \E q \in Requests : SelectCancelled(q) \/ EndPurge(q)
           \/ \E q \in Requests, S \in SUBSET Rows : PurgeReceive(q, S)
           \/ \E q \in Requests, r \in Rows : PurgeDelete(q, r)
           \/ \E w \in Workers, S \in SUBSET Rows : ReceiveRows(w, S) \/ ReceiveDlq(w, S)
           \/ \E w \in Workers, r \in Rows : ReadRow(w, r) \/ RecordDlq(w, r)
           \/ \E w \in Workers : StoreCheck(w) \/ StoreCancelled(w) \/ RaiseRow(w) \/ AckRow(w) \/ AckDlq(w)
           \/ \E w \in Workers : RaiseAfterStore(w) \/ BreakDrain(w) \/ CrashWorker(w)
  BY Zenon DEF Next, CreateBatch, SendRow, QueueStep, RequestStep, WorkerStep, WorkerFault

----------------------------------------------------------------------------
(* Types *)

LEMMA InitType == Init => TypeOK
  BY PipelineAssumption, QueueAssumption
  DEF Init, QueueInit, TypeOK, QueueTypeOK, Places, WorkerPcs, Carrying

LEMMA TypeStep ==
    ASSUME TypeOK, [Next]_vars
    PROVE  TypeOK'
  <1> USE PipelineAssumption, QueueAssumption
      DEF TypeOK, QueueTypeOK, queueVars, dbVars, historyVars, WorkerPcs, Carrying, Places, MainPlaces, DlqPlaces
  <1>0. CASE UNCHANGED vars
    BY <1>0 DEF vars
  <1>1. ASSUME NEW b \in Batches, Submit(b) PROVE TypeOK'
    BY <1>1 DEF Submit
  <1>2. ASSUME NEW b \in Batches, CommitBatch(b) PROVE TypeOK'
    BY <1>2 DEF CommitBatch
  <1>3. ASSUME NEW b \in Batches, NEW U \in SUBSET Rows, FinishEnqueue(b, U) PROVE TypeOK'
    <2>1. Cardinality(U) \in Nat
      BY FS_Subset, FS_CardinalityType
    <2> QED BY <2>1, <1>3 DEF FinishEnqueue
  <1>4. ASSUME NEW b \in Batches, AbortSubmit(b) PROVE TypeOK'
    BY <1>4 DEF AbortSubmit, Fault
  <1>5. ASSUME NEW r \in Rows, EnqueueRow(r) PROVE TypeOK'
    BY <1>5 DEF EnqueueRow, Send
  <1>6. ASSUME NEW r \in Rows, RefuseRow(r) PROVE TypeOK'
    BY <1>6 DEF RefuseRow
  <1>7. ASSUME NEW r \in Rows, Reappear(r) PROVE TypeOK'
    BY <1>7 DEF Reappear, Expire, Fault
  <1>8. ASSUME NEW r \in Rows, DeadLetter(r) PROVE TypeOK'
    BY <1>8 DEF DeadLetter, Redrive
  <1>9. ASSUME NEW q \in Requests, NEW b \in Batches, CancelBatch(q, b) PROVE TypeOK'
    BY <1>9 DEF CancelBatch
  <1>10. ASSUME NEW q \in Requests, NEW u \in Users, DeleteOwner(q, u) PROVE TypeOK'
    BY <1>10 DEF DeleteOwner
  <1>11. ASSUME NEW q \in Requests, SelectCancelled(q) PROVE TypeOK'
    BY <1>11 DEF SelectCancelled
  <1>12. ASSUME NEW q \in Requests, NEW S \in SUBSET Rows, PurgeReceive(q, S) PROVE TypeOK'
    BY <1>12 DEF PurgeReceive, Receive, Deliverable
  <1>13. ASSUME NEW q \in Requests, NEW r \in Rows, PurgeDelete(q, r) PROVE TypeOK'
    BY <1>13 DEF PurgeDelete, Delete
  <1>14. ASSUME NEW q \in Requests, EndPurge(q) PROVE TypeOK'
    BY <1>14 DEF EndPurge
  <1>15. ASSUME NEW w \in Workers, NEW S \in SUBSET Rows, ReceiveRows(w, S) PROVE TypeOK'
    BY <1>15 DEF ReceiveRows, Receive, Deliverable
  <1>16. ASSUME NEW w \in Workers, NEW r \in Rows, ReadRow(w, r) PROVE TypeOK'
    BY <1>16 DEF ReadRow
  <1>17. ASSUME NEW w \in Workers, StoreCheck(w) PROVE TypeOK'
    <2>1. worker[w].cur \in Rows /\ BatchOf[worker[w].cur] \in Batches
      BY <1>17 DEF StoreCheck, Carrying, WorkerPcs
    <2>2. late' \in [Workers -> [Batches -> Nat]]
      BY <1>17 DEF StoreCheck
    <2>3. checks' \in [Rows -> Nat]
      BY <1>17, <2>1 DEF StoreCheck
    <2>4. /\ worker[w].pc = "score"
          /\ worker' = [worker EXCEPT ![w].pc = "ack"]
          /\ UNCHANGED <<queueVars, submit, live, cancelled, failures, request, faults>>
      BY <1>17 DEF StoreCheck
    <2>5. worker' \in [Workers -> [pc : WorkerPcs, hold : SUBSET Rows, cur : Rows \cup {NoRow}]]
      <3>1. PICK h \in SUBSET Rows, c \in Rows \cup {NoRow} : worker[w] = [pc |-> "score", hold |-> h, cur |-> c]
        BY <2>4
      <3>2. [worker[w] EXCEPT !.pc = "ack"] = [pc |-> "ack", hold |-> h, cur |-> c]
        <4>1. \A x : x = [pc |-> "score", hold |-> h, cur |-> c]
                      => [x EXCEPT !.pc = "ack"] = [pc |-> "ack", hold |-> h, cur |-> c]
          OBVIOUS
        <4> QED BY <3>1, <4>1
      <3>3. worker' = [worker EXCEPT ![w] = [worker[w] EXCEPT !.pc = "ack"]]
        BY <2>4
      <3> QED BY <3>2, <3>3
    <2>6. ASSUME NEW v \in Workers PROVE worker'[v].pc \in Carrying <=> worker'[v].cur # NoRow
      <3>1. CASE v = w BY <3>1, <2>4 DEF Carrying
      <3>2. CASE v # w BY <3>2, <2>4 DEF Carrying
      <3> QED BY <3>1, <3>2
    <2>7. QueueTypeOK'
      BY <2>4
    <2>8. UNCHANGED <<submit, live, cancelled, failures, request, faults>>
      BY <2>4
    <2> QED BY <2>2, <2>3, <2>5, <2>6, <2>7, <2>8
  <1>18. ASSUME NEW w \in Workers, StoreCancelled(w) PROVE TypeOK'
    BY <1>18, SMTT(90) DEF StoreCancelled
  <1>19. ASSUME NEW w \in Workers, RaiseRow(w) PROVE TypeOK'
    BY <1>19 DEF RaiseRow
  <1>20. ASSUME NEW w \in Workers, RaiseAfterStore(w) PROVE TypeOK'
    BY <1>20 DEF RaiseAfterStore, Fault
  <1>21. ASSUME NEW w \in Workers, AckRow(w) PROVE TypeOK'
    BY <1>21 DEF AckRow, Delete
  <1>22. ASSUME NEW w \in Workers, NEW S \in SUBSET Rows, ReceiveDlq(w, S) PROVE TypeOK'
    BY <1>22 DEF ReceiveDlq, ReceiveDead, DeadLetters
  <1>23. ASSUME NEW w \in Workers, NEW r \in Rows, RecordDlq(w, r) PROVE TypeOK'
    BY <1>23 DEF RecordDlq
  <1>24. ASSUME NEW w \in Workers, BreakDrain(w) PROVE TypeOK'
    BY <1>24 DEF BreakDrain, Fault
  <1>25. ASSUME NEW w \in Workers, AckDlq(w) PROVE TypeOK'
    <2>1. worker[w].cur \in Rows /\ worker[w].hold \in SUBSET Rows
      BY <1>25 DEF AckDlq, Carrying, WorkerPcs
    <2>2. PICK pc \in {"poll", "dlq"} : worker' = [worker EXCEPT ![w] = [pc |-> pc, hold |-> worker[w].hold, cur |-> NoRow]]
      BY <1>25 DEF AckDlq
    <2>3. worker' \in [Workers -> [pc : WorkerPcs, hold : SUBSET Rows, cur : Rows \cup {NoRow}]]
      BY <2>1, <2>2
    <2>4. \A v \in Workers : worker'[v].pc \in Carrying <=> worker'[v].cur # NoRow
      BY <2>2 DEF Carrying
    <2>5. QueueTypeOK'
      BY <1>25, <2>1, SMTT(60) DEF AckDlq, Delete
    <2>6. UNCHANGED <<submit, live, cancelled, checks, failures, request, faults, late>>
      BY <1>25 DEF AckDlq
    <2> QED BY <2>3, <2>4, <2>5, <2>6
  <1>26. ASSUME NEW w \in Workers, CrashWorker(w) PROVE TypeOK'
    BY <1>26 DEF CrashWorker, Fault
  <1>q. CASE Next
    BY <1>q, StepCases, <1>1, <1>2, <1>3, <1>4, <1>5, <1>6, <1>7, <1>8, <1>9, <1>10, <1>11, <1>12, <1>13, <1>14, <1>15, <1>16, <1>17, <1>18, <1>19, <1>20, <1>21, <1>22, <1>23, <1>24, <1>25, <1>26, Zenon
  <1> QED BY <1>0, <1>q

THEOREM TypeCorrect == Spec => []TypeOK
  <1>1. Init => TypeOK BY InitType
  <1>2. TypeOK /\ [Next]_vars => TypeOK' BY TypeStep
  <1> QED BY <1>1, <1>2, PTL DEF Spec

----------------------------------------------------------------------------

----------------------------------------------------------------------------
(* Who changes what.  Each part of the invariant below is disturbed by a few *)
(* actions only; these lemmas dismiss all the others at once.                *)

(* Outcomes are append-only and flags one-way: a resolved row stays          *)
(* resolved, a cancelled batch stays cancelled, a committed one committed.   *)
Lasting ==
    /\ \A r \in Rows : Resolved(r) => Resolved(r)'
    /\ \A b \in Batches : cancelled[b] => cancelled'[b]
    /\ \A b \in Batches : Committed(b) => Committed(b)'
    /\ \A r \in Rows : place[r] # "unsent" => place'[r] # "unsent"

LEMMA LastingStep ==
    ASSUME TypeOK, [Next]_vars
    PROVE  Lasting
  <1> USE PipelineAssumption
      DEF TypeOK, QueueTypeOK, queueVars, dbVars, Lasting, Resolved, Committed, Carrying, WorkerPcs, Fault
  <1>0. CASE UNCHANGED vars
    BY <1>0 DEF vars
  <1>1. ASSUME NEW b \in Batches, CreateBatch(b) PROVE Lasting
    <2>1. CASE Submit(b)
      BY <2>1 DEF Submit
    <2>2. CASE CommitBatch(b)
      BY <2>2 DEF CommitBatch
    <2>3. ASSUME NEW U \in SUBSET Rows, FinishEnqueue(b, U) PROVE Lasting
      BY <2>3 DEF FinishEnqueue
    <2>4. CASE AbortSubmit(b)
      BY <2>4 DEF AbortSubmit
    <2> QED BY <1>1, <2>1, <2>2, <2>3, <2>4, Zenon DEF CreateBatch
  <1>2. ASSUME NEW r \in Rows, SendRow(r) \/ QueueStep(r) PROVE Lasting
    <2>1. CASE SendRow(r)
      BY <2>1 DEF SendRow, EnqueueRow, RefuseRow, Send
    <2>2. CASE QueueStep(r)
      BY <2>2 DEF QueueStep, Reappear, DeadLetter, Expire, Redrive
    <2> QED BY <1>2, <2>1, <2>2
  <1>3. ASSUME NEW q \in Requests, RequestStep(q) PROVE Lasting
    <2>1. ASSUME NEW b \in Batches, CancelBatch(q, b) PROVE Lasting
      BY <2>1 DEF CancelBatch
    <2>2. ASSUME NEW u \in Users, DeleteOwner(q, u) PROVE Lasting
      BY <2>2 DEF DeleteOwner
    <2>3. CASE SelectCancelled(q) \/ EndPurge(q)
      BY <2>3 DEF SelectCancelled, EndPurge
    <2>4. ASSUME NEW S \in SUBSET Rows, PurgeReceive(q, S) PROVE Lasting
      BY <2>4 DEF PurgeReceive, Receive
    <2>5. ASSUME NEW r \in Rows, PurgeDelete(q, r) PROVE Lasting
      BY <2>5 DEF PurgeDelete, Delete
    <2> QED BY <1>3, <2>1, <2>2, <2>3, <2>4, <2>5 DEF RequestStep
  <1>4. ASSUME NEW w \in Workers, WorkerFault(w) PROVE Lasting
    BY <1>4 DEF WorkerFault, RaiseAfterStore, BreakDrain, CrashWorker
  <1>5. ASSUME NEW w \in Workers, StoreCheck(w) \/ StoreCancelled(w) \/ RaiseRow(w) PROVE Lasting
    <2>1. CASE StoreCheck(w)
      BY <2>1 DEF StoreCheck
    <2>2. CASE StoreCancelled(w)
      BY <2>2 DEF StoreCancelled
    <2>3. CASE RaiseRow(w)
      BY <2>3 DEF RaiseRow
    <2> QED BY <1>5, <2>1, <2>2, <2>3
  <1>6. ASSUME NEW w \in Workers, AckRow(w) \/ AckDlq(w) PROVE Lasting
    BY <1>6 DEF AckRow, AckDlq, Delete
  <1>7. ASSUME NEW w \in Workers, NEW S \in SUBSET Rows, ReceiveRows(w, S) \/ ReceiveDlq(w, S) PROVE Lasting
    BY <1>7 DEF ReceiveRows, ReceiveDlq, Receive, ReceiveDead, Deliverable, DeadLetters
  <1>8. ASSUME NEW w \in Workers, NEW r \in Rows, ReadRow(w, r) \/ RecordDlq(w, r) PROVE Lasting
    <2>1. CASE ReadRow(w, r)
      BY <2>1 DEF ReadRow
    <2>2. CASE RecordDlq(w, r)
      BY <2>2 DEF RecordDlq
    <2> QED BY <1>8, <2>1, <2>2
  <1> QED BY <1>0, <1>1, <1>2, <1>3, <1>4, <1>5, <1>6, <1>7, <1>8 DEF Next, WorkerStep

(* Only a Worker changes a Worker's state and stores a late check.           *)
LEMMA WorkerFrame ==
    ASSUME [Next]_vars
    PROVE  (\E w \in Workers : WorkerStep(w) \/ WorkerFault(w)) \/ UNCHANGED <<worker, late>>
  BY DEF Next, vars, historyVars, CreateBatch, Submit, CommitBatch, FinishEnqueue, AbortSubmit,
         SendRow, EnqueueRow, RefuseRow, QueueStep, Reappear, DeadLetter,
         RequestStep, CancelBatch, DeleteOwner, SelectCancelled, PurgeReceive, PurgeDelete, EndPurge

(* Only a request changes a request's state.                                 *)
LEMMA RequestFrame ==
    ASSUME [Next]_vars
    PROVE  (\E q \in Requests : RequestStep(q)) \/ UNCHANGED request
  BY DEF Next, vars, CreateBatch, Submit, CommitBatch, FinishEnqueue, AbortSubmit,
         SendRow, EnqueueRow, RefuseRow, QueueStep, Reappear, DeadLetter,
         WorkerStep, ReceiveRows, ReadRow, StoreCheck, StoreCancelled, RaiseRow, AckRow, ReceiveDlq, RecordDlq, AckDlq,
         WorkerFault, RaiseAfterStore, BreakDrain, CrashWorker

(* Only create_batch makes a row unsendable or itself done.                  *)
LEMMA SubmitFrame ==
    ASSUME TypeOK, [Next]_vars
    PROVE  \/ \E b \in Batches : CreateBatch(b)
           \/ \E r \in Rows : SendRow(r)
           \/ /\ UNCHANGED submit
              /\ \A r \in Rows : place'[r] \in {"unsent", "refused"} => place'[r] = place[r]
  <1> USE DEF TypeOK, QueueTypeOK, queueVars, dbVars, MainPlaces, DlqPlaces
  <1>0. CASE UNCHANGED vars
    BY <1>0 DEF vars
  <1>2. ASSUME NEW r \in Rows, QueueStep(r) PROVE UNCHANGED submit /\ \A s \in Rows : place'[s] \in {"unsent", "refused"} => place'[s] = place[s]
    BY <1>2 DEF QueueStep, Reappear, DeadLetter, Expire, Redrive
  <1>3. ASSUME NEW q \in Requests, RequestStep(q) PROVE UNCHANGED submit /\ \A s \in Rows : place'[s] \in {"unsent", "refused"} => place'[s] = place[s]
    BY <1>3 DEF RequestStep, CancelBatch, DeleteOwner, SelectCancelled, PurgeReceive, PurgeDelete, EndPurge, Receive, Deliverable, Delete
  <1>4. ASSUME NEW w \in Workers, WorkerStep(w) PROVE UNCHANGED submit /\ \A s \in Rows : place'[s] \in {"unsent", "refused"} => place'[s] = place[s]
    BY <1>4 DEF WorkerStep, ReceiveRows, ReadRow, StoreCheck, StoreCancelled, RaiseRow, AckRow, ReceiveDlq, RecordDlq, AckDlq,
                Receive, ReceiveDead, Deliverable, DeadLetters, Delete
  <1>5. ASSUME NEW w \in Workers, WorkerFault(w) PROVE UNCHANGED <<submit, place>>
    BY <1>5 DEF WorkerFault, RaiseAfterStore, BreakDrain, CrashWorker
  <1> QED BY <1>0, <1>2, <1>3, <1>4, <1>5 DEF Next

(* Only an acknowledgement or a purge removes a message.                     *)
LEMMA GoneFrame ==
    ASSUME TypeOK, [Next]_vars
    PROVE  \/ \E q \in Requests, r \in Rows : PurgeDelete(q, r)
           \/ \E w \in Workers : AckRow(w) \/ AckDlq(w)
           \/ \A r \in Rows : place'[r] = "gone" => place[r] = "gone"
  <1> USE DEF TypeOK, QueueTypeOK, queueVars
  <1>0. CASE UNCHANGED vars
    BY <1>0 DEF vars
  <1>1. ASSUME NEW b \in Batches, CreateBatch(b) PROVE UNCHANGED place
    BY <1>1 DEF CreateBatch, Submit, CommitBatch, FinishEnqueue, AbortSubmit
  <1>2. ASSUME NEW r \in Rows, SendRow(r) \/ QueueStep(r) PROVE \A s \in Rows : place'[s] = "gone" => place[s] = "gone"
    BY <1>2 DEF SendRow, EnqueueRow, RefuseRow, Send, QueueStep, Reappear, DeadLetter, Expire, Redrive
  <1>3. ASSUME NEW q \in Requests, RequestStep(q), \A r \in Rows : ~PurgeDelete(q, r) PROVE \A s \in Rows : place'[s] = "gone" => place[s] = "gone"
    BY <1>3 DEF RequestStep, CancelBatch, DeleteOwner, SelectCancelled, PurgeReceive, EndPurge, Receive
  <1>4. ASSUME NEW w \in Workers, WorkerStep(w), ~AckRow(w), ~AckDlq(w) PROVE \A s \in Rows : place'[s] = "gone" => place[s] = "gone"
    BY <1>4 DEF WorkerStep, ReceiveRows, ReadRow, StoreCheck, StoreCancelled, RaiseRow, ReceiveDlq, RecordDlq, Receive, ReceiveDead
  <1>5. ASSUME NEW w \in Workers, WorkerFault(w) PROVE UNCHANGED place
    BY <1>5 DEF WorkerFault, RaiseAfterStore, BreakDrain, CrashWorker
  <1> QED BY <1>0, <1>1, <1>2, <1>3, <1>4, <1>5 DEF Next

----------------------------------------------------------------------------
(* The parts of the invariant, one lemma each.                               *)

LEMMA GoneStep ==
    ASSUME TypeOK, GoneOK, AckOK, PurgeOK, Lasting, [Next]_vars
    PROVE  GoneOK'
  <1> USE PipelineAssumption DEF TypeOK, QueueTypeOK, GoneOK, Lasting
  <1>1. ASSUME NEW q \in Requests, NEW r \in Rows, PurgeDelete(q, r) PROVE GoneOK'
    BY <1>1 DEF PurgeDelete, Delete, PurgeOK
  <1>2. ASSUME NEW w \in Workers, AckRow(w) PROVE GoneOK'
    BY <1>2 DEF AckRow, Delete, AckOK
  <1>3. ASSUME NEW w \in Workers, AckDlq(w) PROVE GoneOK'
    BY <1>3 DEF AckDlq, Delete, AckOK
  <1>4. ASSUME \A r \in Rows : place'[r] = "gone" => place[r] = "gone" PROVE GoneOK'
    BY <1>4
  <1> QED BY <1>1, <1>2, <1>3, <1>4, GoneFrame

LEMMA UnsentStep ==
    ASSUME TypeOK, UnsentOK, Lasting, [Next]_vars
    PROVE  UnsentOK'
  <1> USE PipelineAssumption DEF TypeOK, QueueTypeOK, queueVars, UnsentOK, Resolved, RowsOf
  <1>1. ASSUME NEW b \in Batches, CreateBatch(b) PROVE UnsentOK'
    <2>1. CASE Submit(b) \/ CommitBatch(b) \/ AbortSubmit(b)
      BY <2>1 DEF Submit, CommitBatch, AbortSubmit
    <2>2. ASSUME NEW U \in SUBSET Rows, FinishEnqueue(b, U) PROVE UnsentOK'
      BY <2>2 DEF FinishEnqueue, RefusedRows
    <2> QED BY <1>1, <2>1, <2>2 DEF CreateBatch
  <1>2. ASSUME NEW r \in Rows, SendRow(r) PROVE UnsentOK'
    BY <1>2 DEF SendRow, EnqueueRow, RefuseRow, Send, dbVars
  <1>3. ASSUME UNCHANGED submit, \A r \in Rows : place'[r] \in {"unsent", "refused"} => place'[r] = place[r]
        PROVE  UnsentOK'
    BY <1>3 DEF Lasting
  <1> QED BY <1>1, <1>2, <1>3, SubmitFrame

LEMMA SentStep ==
    ASSUME TypeOK, SentOK, Lasting, [Next]_vars
    PROVE  SentOK'
  <1> USE PipelineAssumption DEF TypeOK, QueueTypeOK, queueVars, SentOK, Lasting, Committed
  <1>0. CASE UNCHANGED vars
    BY <1>0 DEF vars, dbVars
  <1>1. ASSUME NEW b \in Batches, CreateBatch(b) PROVE SentOK'
    BY <1>1 DEF CreateBatch, Submit, CommitBatch, FinishEnqueue, AbortSubmit
  <1>2. ASSUME NEW r \in Rows, SendRow(r) \/ QueueStep(r) PROVE SentOK'
    BY <1>2 DEF SendRow, EnqueueRow, RefuseRow, Send, QueueStep, Reappear, DeadLetter, Expire, Redrive, dbVars
  <1>3. ASSUME NEW q \in Requests, RequestStep(q) PROVE SentOK'
    BY <1>3 DEF RequestStep, CancelBatch, DeleteOwner, SelectCancelled, PurgeReceive, PurgeDelete, EndPurge,
                Receive, Deliverable, Delete, MainPlaces
  <1>4. ASSUME NEW w \in Workers, WorkerStep(w) PROVE SentOK'
    BY <1>4 DEF WorkerStep, ReceiveRows, ReadRow, StoreCheck, StoreCancelled, RaiseRow, AckRow, ReceiveDlq, RecordDlq,
                AckDlq, Receive, ReceiveDead, Deliverable, DeadLetters, Delete, MainPlaces, DlqPlaces
  <1>5. ASSUME NEW w \in Workers, WorkerFault(w) PROVE SentOK'
    BY <1>5 DEF WorkerFault, RaiseAfterStore, BreakDrain, CrashWorker
  <1> QED BY <1>0, <1>1, <1>2, <1>3, <1>4, <1>5 DEF Next

LEMMA HeldStep ==
    ASSUME TypeOK, HeldOK, Lasting, [Next]_vars
    PROVE  HeldOK'
  <1> USE PipelineAssumption DEF TypeOK, QueueTypeOK, HeldOK, Lasting
  <1>1. ASSUME NEW w \in Workers, NEW S \in SUBSET Rows, ReceiveRows(w, S) PROVE HeldOK'
    BY <1>1 DEF ReceiveRows, Receive
  <1>2. ASSUME NEW w \in Workers, NEW S \in SUBSET Rows, ReceiveDlq(w, S) PROVE HeldOK'
    BY <1>2 DEF ReceiveDlq, ReceiveDead
  <1>3. ASSUME NEW w \in Workers, NEW r \in Rows, ReadRow(w, r) PROVE HeldOK'
    BY <1>3 DEF ReadRow
  <1>4. ASSUME NEW w \in Workers, NEW r \in Rows, RecordDlq(w, r) PROVE HeldOK'
    BY <1>4 DEF RecordDlq
  <1>5. ASSUME NEW w \in Workers, StoreCheck(w) \/ StoreCancelled(w) PROVE HeldOK'
    <2>1. CASE StoreCheck(w)
      BY <2>1 DEF StoreCheck
    <2>2. CASE StoreCancelled(w)
      BY <2>2 DEF StoreCancelled
    <2> QED BY <1>5, <2>1, <2>2
  <1>6. ASSUME NEW w \in Workers, RaiseRow(w) \/ AckRow(w) PROVE HeldOK'
    <2>1. CASE RaiseRow(w)
      BY <2>1 DEF RaiseRow
    <2>2. CASE AckRow(w)
      BY <2>2 DEF AckRow
    <2> QED BY <1>6, <2>1, <2>2
  <1>7. ASSUME NEW w \in Workers, AckDlq(w) PROVE HeldOK'
    BY <1>7 DEF AckDlq
  <1>8. ASSUME NEW w \in Workers, WorkerFault(w) PROVE HeldOK'
    <2>1. CASE RaiseAfterStore(w)
      BY <2>1 DEF RaiseAfterStore
    <2>2. CASE BreakDrain(w)
      BY <2>2 DEF BreakDrain
    <2>3. CASE CrashWorker(w)
      BY <2>3 DEF CrashWorker
    <2> QED BY <1>8, <2>1, <2>2, <2>3 DEF WorkerFault
  <1>9. CASE UNCHANGED worker
    BY <1>9
  <1> QED BY <1>1, <1>2, <1>3, <1>4, <1>5, <1>6, <1>7, <1>8, <1>9, WorkerFrame DEF WorkerStep

LEMMA AckStep ==
    ASSUME TypeOK, AckOK, Lasting, [Next]_vars
    PROVE  AckOK'
  <1> USE PipelineAssumption DEF TypeOK, QueueTypeOK, AckOK, Lasting, Carrying, WorkerPcs
  <1>1. ASSUME NEW w \in Workers, NEW S \in SUBSET Rows, ReceiveRows(w, S) \/ ReceiveDlq(w, S) PROVE AckOK'
    <2>1. CASE ReceiveRows(w, S)
      BY <2>1 DEF ReceiveRows
    <2>2. CASE ReceiveDlq(w, S)
      BY <2>2 DEF ReceiveDlq
    <2> QED BY <1>1, <2>1, <2>2
  <1>2. ASSUME NEW w \in Workers, NEW r \in Rows, ReadRow(w, r) PROVE AckOK'
    BY <1>2 DEF ReadRow
  <1>3. ASSUME NEW w \in Workers, StoreCheck(w) PROVE AckOK'
    BY <1>3 DEF StoreCheck, Resolved
  <1>4. ASSUME NEW w \in Workers, StoreCancelled(w) PROVE AckOK'
    BY <1>4 DEF StoreCancelled, Resolved
  <1>5. ASSUME NEW w \in Workers, NEW r \in Rows, RecordDlq(w, r) PROVE AckOK'
    BY <1>5 DEF RecordDlq, Resolved
  <1>6. ASSUME NEW w \in Workers, RaiseRow(w) \/ AckRow(w) \/ AckDlq(w) PROVE AckOK'
    <2>1. CASE RaiseRow(w)
      BY <2>1 DEF RaiseRow
    <2>2. CASE AckRow(w)
      BY <2>2 DEF AckRow
    <2>3. CASE AckDlq(w)
      BY <2>3 DEF AckDlq
    <2> QED BY <1>6, <2>1, <2>2, <2>3
  <1>7. ASSUME NEW w \in Workers, WorkerFault(w) PROVE AckOK'
    <2>1. CASE RaiseAfterStore(w)
      BY <2>1 DEF RaiseAfterStore
    <2>2. CASE BreakDrain(w)
      BY <2>2 DEF BreakDrain
    <2>3. CASE CrashWorker(w)
      BY <2>3 DEF CrashWorker
    <2> QED BY <1>7, <2>1, <2>2, <2>3 DEF WorkerFault
  <1>8. CASE UNCHANGED worker
    BY <1>8
  <1> QED BY <1>1, <1>2, <1>3, <1>4, <1>5, <1>6, <1>7, <1>8, WorkerFrame DEF WorkerStep

LEMMA PurgeStep ==
    ASSUME TypeOK, PurgeOK, Lasting, [Next]_vars
    PROVE  PurgeOK'
  <1> USE PipelineAssumption DEF TypeOK, PurgeOK, Lasting
  <1>1. ASSUME NEW q \in Requests, NEW b \in Batches, CancelBatch(q, b) PROVE PurgeOK'
    BY <1>1 DEF CancelBatch
  <1>2. ASSUME NEW q \in Requests, NEW u \in Users, DeleteOwner(q, u) PROVE PurgeOK'
    BY <1>2 DEF DeleteOwner
  <1>3. ASSUME NEW q \in Requests, SelectCancelled(q) PROVE PurgeOK'
    BY <1>3 DEF SelectCancelled
  <1>4. ASSUME NEW q \in Requests, NEW S \in SUBSET Rows, PurgeReceive(q, S) PROVE PurgeOK'
    BY <1>4 DEF PurgeReceive
  <1>5. ASSUME NEW q \in Requests, NEW r \in Rows, PurgeDelete(q, r) PROVE PurgeOK'
    BY <1>5 DEF PurgeDelete
  <1>6. ASSUME NEW q \in Requests, EndPurge(q) PROVE PurgeOK'
    BY <1>6 DEF EndPurge
  <1>7. CASE UNCHANGED request
    BY <1>7
  <1> QED BY <1>1, <1>2, <1>3, <1>4, <1>5, <1>6, <1>7, RequestFrame DEF RequestStep

LEMMA LateStep ==
    ASSUME TypeOK, LateOK, Lasting, [Next]_vars
    PROVE  LateOK'
  <1> USE PipelineAssumption DEF TypeOK, LateOK, Lasting, Carrying, WorkerPcs, historyVars
  <1>1. ASSUME NEW w \in Workers, NEW S \in SUBSET Rows, ReceiveRows(w, S) \/ ReceiveDlq(w, S) PROVE LateOK'
    <2>1. UNCHANGED <<late, cancelled>> /\ \A v \in Workers : worker'[v] = worker[v] \/ worker'[v].pc # "score"
      <3>1. PICK pc \in {"rows", "poll", "dlq"} : worker' = [worker EXCEPT ![w] = [pc |-> pc, hold |-> S, cur |-> NoRow]]
        BY <1>1 DEF ReceiveRows, ReceiveDlq
      <3>2. UNCHANGED <<late, cancelled>>
        BY <1>1 DEF ReceiveRows, ReceiveDlq, dbVars
      <3> QED BY <3>1, <3>2
    <2> QED BY <2>1
  <1>2. ASSUME NEW w \in Workers, NEW r \in Rows, ReadRow(w, r) PROVE LateOK'
    BY <1>2 DEF ReadRow
  <1>3. ASSUME NEW w \in Workers, StoreCheck(w) PROVE LateOK'
    BY <1>3 DEF StoreCheck
  <1>4. ASSUME NEW w \in Workers, NEW r \in Rows, RecordDlq(w, r) PROVE LateOK'
    BY <1>4 DEF RecordDlq
  <1>5. ASSUME NEW w \in Workers, StoreCancelled(w) \/ RaiseRow(w) \/ AckRow(w) \/ AckDlq(w) PROVE LateOK'
    <2>1. CASE StoreCancelled(w)
      BY <2>1 DEF StoreCancelled
    <2>2. CASE RaiseRow(w)
      BY <2>2 DEF RaiseRow
    <2>3. CASE AckRow(w)
      BY <2>3 DEF AckRow
    <2>4. CASE AckDlq(w)
      BY <2>4 DEF AckDlq
    <2> QED BY <1>5, <2>1, <2>2, <2>3, <2>4
  <1>6. ASSUME NEW w \in Workers, WorkerFault(w) PROVE LateOK'
    <2>1. CASE RaiseAfterStore(w)
      BY <2>1 DEF RaiseAfterStore
    <2>2. CASE BreakDrain(w)
      BY <2>2 DEF BreakDrain
    <2>3. CASE CrashWorker(w)
      BY <2>3 DEF CrashWorker
    <2> QED BY <1>6, <2>1, <2>2, <2>3 DEF WorkerFault
  <1>7. CASE UNCHANGED <<worker, late>>
    BY <1>7
  <1> QED BY <1>1, <1>2, <1>3, <1>4, <1>5, <1>6, <1>7, WorkerFrame DEF WorkerStep

----------------------------------------------------------------------------
LEMMA InitInv == Init => IInv
  <1> SUFFICES ASSUME Init PROVE IInv
    OBVIOUS
  <1>1. TypeOK
    BY InitType
  <1>2. GoneOK /\ UnsentOK /\ SentOK /\ HeldOK /\ AckOK /\ PurgeOK /\ LateOK
    BY PipelineAssumption DEF Init, QueueInit, GoneOK, UnsentOK, SentOK, HeldOK, AckOK, PurgeOK, LateOK
  <1> QED BY <1>1, <1>2 DEF IInv

LEMMA InvStep == IInv /\ [Next]_vars => IInv'
  BY TypeStep, LastingStep, GoneStep, UnsentStep, SentStep, HeldStep, AckStep, PurgeStep, LateStep DEF IInv

(* The strengthening is an invariant of the pipeline.                        *)
THEOREM Invariance == Spec => []IInv
  <1>1. Init => IInv BY InitInv
  <1>2. IInv /\ [Next]_vars => IInv' BY InvStep
  <1> QED BY <1>1, <1>2, PTL DEF Spec

----------------------------------------------------------------------------
(* The loss of a row is impossible once create_batch has returned, whatever  *)
(* crashes, redeliveries, redrives and purges come after it.                 *)
THEOREM NoRowLostTheorem == Spec => []NoRowLost
  <1>1. IInv => NoRowLost
    BY PipelineAssumption DEF IInv, TypeOK, QueueTypeOK, Places, GoneOK, UnsentOK, NoRowLost
  <1> QED BY <1>1, Invariance, PTL

(* After a cancel has committed, each Worker process stores at most one more *)
(* check of the batch.                                                       *)
THEOREM LateChecksTheorem == Spec => []LateChecksBounded
  <1>1. IInv => LateChecksBounded
    BY DEF IInv, LateOK, LateChecksBounded
  <1> QED BY <1>1, Invariance, PTL

----------------------------------------------------------------------------
(* The refinement of BatchContract, under the mapping of BatchPipeline.      *)

LEMMA ContractInit == Init => Contract!Init
  BY DEF Init, QueueInit, Contract!Init, Committed

(* What the contract sees of the pipeline's state.                           *)
Accepted == {b \in Batches : Committed(b)}
Claims == [w \in Workers |-> IF worker[w].pc = "score" THEN worker[w].cur ELSE NoRow]
Closed == {r \in Rows : place[r] = "gone"}

Goal == Contract!Next \/ UNCHANGED <<Accepted, cancelled, checks, failures, Claims, Closed>>

LEMMA Unseen ==
    ASSUME UNCHANGED <<Accepted, cancelled, checks, failures, Claims, Closed>>
    PROVE  Goal
  BY DEF Goal

(* The views change only with the variable they are computed from.           *)
LEMMA Views ==
    /\ UNCHANGED submit => UNCHANGED Accepted
    /\ UNCHANGED worker => UNCHANGED Claims
    /\ UNCHANGED place => UNCHANGED Closed
  BY DEF Accepted, Claims, Closed, Committed

(* A deleted message is a row the contract closes, or nothing it sees.       *)
LEMMA ClosingStep ==
    ASSUME TypeOK, NEW r \in Rows, NEW who, NEW Q, "gone" \notin Q, Delete(who, r, Q),
           Resolved(r) \/ cancelled[BatchOf[r]],
           UNCHANGED <<Accepted, cancelled, checks, failures, Claims>>
    PROVE  Goal
  <1>1. CASE UNCHANGED place
    BY <1>1, Views, Unseen
  <1>2. CASE place' = [place EXCEPT ![r] = "gone"]
    <2>1. Closed' = Closed \cup {r}
      BY <1>2 DEF TypeOK, QueueTypeOK, Closed
    <2>2. Contract!Close(r)
      BY <2>1 DEF Contract!Close, Accepted, Claims, Closed, Resolved
    <2> QED BY <2>2 DEF Goal, Contract!Next
  <1> QED BY <1>1, <1>2 DEF Delete

(* A Worker that stops scoring gives its claim up.                           *)
LEMMA ReleaseStep ==
    ASSUME NEW w \in Workers, UNCHANGED <<submit, place, cancelled, checks, failures>>,
           Claims' = [Claims EXCEPT ![w] = NoRow]
    PROVE  Goal
  <1>1. CASE Claims[w] = NoRow
    <2>1. UNCHANGED Claims
      BY <1>1 DEF Claims
    <2> QED BY <2>1, Views, Unseen
  <1>2. CASE Claims[w] # NoRow
    <2>1. Contract!Release(w)
      BY <1>2, Views DEF Contract!Release, Accepted, Claims, Closed
    <2> QED BY <2>1 DEF Goal, Contract!Next
  <1> QED BY <1>1, <1>2

LEMMA ContractStep == IInv /\ [Next]_vars => [Contract!Next]_(Contract!contractVars)
  <1> SUFFICES ASSUME IInv, [Next]_vars PROVE Goal
    BY DEF Goal, Accepted, Claims, Closed, Contract!contractVars
  <1> USE PipelineAssumption DEF IInv, TypeOK, QueueTypeOK, queueVars, dbVars
  <1>0. CASE UNCHANGED vars
    BY <1>0, Views, Unseen DEF vars
  <1>1. ASSUME NEW b \in Batches, CreateBatch(b) PROVE Goal
    <2>1. CASE Submit(b) \/ AbortSubmit(b)
      <3>1. UNCHANGED Accepted
        BY <2>1 DEF Submit, AbortSubmit, Accepted, Committed
      <3>2. UNCHANGED <<place, cancelled, checks, failures, worker>>
        BY <2>1 DEF Submit, AbortSubmit
      <3> QED BY <3>1, <3>2, Views, Unseen
    <2>2. CASE CommitBatch(b)
      <3>1. b \notin Accepted /\ Accepted' = Accepted \cup {b}
        BY <2>2 DEF CommitBatch, Accepted, Committed
      <3>2. UNCHANGED <<place, cancelled, checks, failures, worker>>
        BY <2>2 DEF CommitBatch
      <3>3. Contract!Accept(b)
        BY <3>1, <3>2, Views DEF Contract!Accept, Accepted, Claims, Closed
      <3> QED BY <3>3 DEF Goal, Contract!Next
    <2>3. ASSUME NEW U \in SUBSET Rows, FinishEnqueue(b, U) PROVE Goal
      <3> DEFINE S == RefusedRows(b) \cup U
      <3>1. UNCHANGED Accepted /\ b \in Accepted
        BY <2>3 DEF FinishEnqueue, Accepted, Committed
      <3>2. UNCHANGED <<place, cancelled, checks, worker>>
        BY <2>3 DEF FinishEnqueue
      <3>3. failures' = [r \in Rows |-> IF r \in S THEN failures[r] + 1 ELSE failures[r]]
        BY <2>3 DEF FinishEnqueue
      <3>4. S \in SUBSET Rows /\ \A r \in S : BatchOf[r] = b
        BY <2>3 DEF FinishEnqueue, RefusedRows, RowsOf
      <3> HIDE DEF S
      <3>5. Contract!Fail(S)
        BY <3>1, <3>2, <3>3, <3>4, Views DEF Contract!Fail, Accepted, Claims, Closed
      <3> QED BY <3>4, <3>5 DEF Goal, Contract!Next
    <2> QED BY <1>1, <2>1, <2>2, <2>3 DEF CreateBatch
  <1>2. ASSUME NEW r \in Rows, SendRow(r) \/ QueueStep(r) PROVE Goal
    <2>1. UNCHANGED Closed
      BY <1>2 DEF SendRow, EnqueueRow, RefuseRow, Send, QueueStep, Reappear, DeadLetter, Expire, Redrive, Closed
    <2>2. UNCHANGED <<submit, cancelled, checks, failures, worker>>
      BY <1>2 DEF SendRow, EnqueueRow, RefuseRow, QueueStep, Reappear, DeadLetter
    <2> QED BY <2>1, <2>2, Views, Unseen
  <1>3. ASSUME NEW q \in Requests, RequestStep(q) PROVE Goal
    <2>1. ASSUME NEW b \in Batches, CancelBatch(q, b) PROVE Goal
      <3>1. {b} \subseteq Accepted /\ cancelled' = [a \in Batches |-> cancelled[a] \/ a \in {b}]
        BY <2>1 DEF CancelBatch, Accepted
      <3>2. UNCHANGED <<submit, place, checks, failures, worker>>
        BY <2>1 DEF CancelBatch
      <3>3. Contract!Cancel({b})
        BY <3>1, <3>2, Views DEF Contract!Cancel, Accepted, Claims, Closed
      <3> QED BY <3>3 DEF Goal, Contract!Next
    <2>2. ASSUME NEW u \in Users, DeleteOwner(q, u) PROVE Goal
      <3> DEFINE B == {b \in Batches : OwnerOf[b] = u /\ Unfinished(b)}
      <3>1. B \subseteq Accepted /\ cancelled' = [b \in Batches |-> cancelled[b] \/ b \in B]
        BY <2>2 DEF DeleteOwner, Accepted, Unfinished
      <3>2. UNCHANGED <<submit, place, checks, failures, worker>>
        BY <2>2 DEF DeleteOwner
      <3>3. Contract!Cancel(B)
        BY <3>1, <3>2, Views DEF Contract!Cancel, Accepted, Claims, Closed
      <3> QED BY <3>3 DEF Goal, Contract!Next
    <2>3. CASE SelectCancelled(q) \/ EndPurge(q)
      BY <2>3, Views, Unseen DEF SelectCancelled, EndPurge
    <2>4. ASSUME NEW S \in SUBSET Rows, PurgeReceive(q, S) PROVE Goal
      <3>1. UNCHANGED Closed
        BY <2>4 DEF PurgeReceive, Receive, Deliverable, Closed
      <3> QED BY <2>4, <3>1, Views, Unseen DEF PurgeReceive
    <2>5. ASSUME NEW r \in Rows, PurgeDelete(q, r) PROVE Goal
      <3>1. cancelled[BatchOf[r]]
        BY <2>5 DEF PurgeDelete, PurgeOK
      <3>2. UNCHANGED <<submit, cancelled, checks, failures, worker>> /\ Delete(q, r, MainPlaces)
        BY <2>5 DEF PurgeDelete
      <3> QED BY <3>1, <3>2, Views, ClosingStep DEF MainPlaces
    <2> QED BY <1>3, <2>1, <2>2, <2>3, <2>4, <2>5 DEF RequestStep
  <1>4. ASSUME NEW w \in Workers, WorkerFault(w) PROVE Goal
    <2>1. UNCHANGED <<submit, place, cancelled, checks, failures>>
      BY <1>4 DEF WorkerFault, RaiseAfterStore, BreakDrain, CrashWorker
    <2>2. Claims' = [Claims EXCEPT ![w] = NoRow]
      <3>1. CASE RaiseAfterStore(w)
        <4>1. worker' = [worker EXCEPT ![w] = [worker[w] EXCEPT !.pc = "rows", !.cur = NoRow]]
          BY <3>1 DEF RaiseAfterStore
        <4>2. [worker[w] EXCEPT !.pc = "rows", !.cur = NoRow].pc = "rows"
          BY DEF IInv, TypeOK
        <4>3. DOMAIN worker = Workers
          BY DEF IInv, TypeOK
        <4> HIDE DEF IInv
        <4> QED BY <4>1, <4>2, <4>3 DEF Claims
      <3>2. CASE BreakDrain(w) BY <3>2 DEF BreakDrain, Claims
      <3>3. CASE CrashWorker(w) BY <3>3 DEF CrashWorker, Claims
      <3> QED BY <1>4, <3>1, <3>2, <3>3 DEF WorkerFault
    <2> QED BY <2>1, <2>2, ReleaseStep
  <1>5. ASSUME NEW w \in Workers, NEW S \in SUBSET Rows, ReceiveRows(w, S) \/ ReceiveDlq(w, S) PROVE Goal
    <2>1. UNCHANGED Closed
      BY <1>5 DEF ReceiveRows, ReceiveDlq, Receive, ReceiveDead, Deliverable, DeadLetters, Closed
    <2>2. UNCHANGED Claims
      <3>1. CASE ReceiveRows(w, S) BY <3>1 DEF ReceiveRows, Claims
      <3>2. CASE ReceiveDlq(w, S) BY <3>2 DEF ReceiveDlq, Claims
      <3> QED BY <1>5, <3>1, <3>2
    <2>3. UNCHANGED <<submit, cancelled, checks, failures>>
      BY <1>5 DEF ReceiveRows, ReceiveDlq
    <2> QED BY <2>1, <2>2, <2>3, Views, Unseen
  <1>6. ASSUME NEW w \in Workers, NEW r \in Rows, ReadRow(w, r) PROVE Goal
    <2>1. UNCHANGED <<submit, place, cancelled, checks, failures>>
      BY <1>6 DEF ReadRow
    <2>2. CASE cancelled[BatchOf[r]]
      <3>1. UNCHANGED Claims
        BY <1>6, <2>2 DEF ReadRow, Claims
      <3> QED BY <2>1, <3>1, Views, Unseen
    <2>3. CASE ~cancelled[BatchOf[r]]
      <3>1. Claims[w] = NoRow /\ Claims' = [Claims EXCEPT ![w] = r]
        BY <1>6, <2>3 DEF ReadRow, Claims
      <3>2. BatchOf[r] \in Accepted
        BY <1>6 DEF ReadRow, HeldOK, SentOK, Accepted
      <3>3. Contract!Claim(w, r)
        BY <2>1, <2>3, <3>1, <3>2, Views DEF Contract!Claim, Accepted, Claims, Closed
      <3> QED BY <3>3 DEF Goal, Contract!Next
    <2> QED BY <2>2, <2>3
  <1>7. ASSUME NEW w \in Workers, StoreCheck(w) PROVE Goal
    <2>1. UNCHANGED <<submit, place, cancelled, failures>>
      BY <1>7 DEF StoreCheck
    <2>2. Claims[w] = worker[w].cur /\ worker[w].cur # NoRow /\ Claims' = [Claims EXCEPT ![w] = NoRow]
      <3>1. worker[w].pc = "score" /\ worker[w].cur # NoRow
        BY <1>7 DEF StoreCheck, Carrying
      <3>2. worker'[w].pc = "ack" /\ \A v \in Workers \ {w} : worker'[v] = worker[v]
        BY <1>7 DEF StoreCheck
      <3> QED BY <3>1, <3>2 DEF Claims
    <2>3. checks' = [checks EXCEPT ![Claims[w]] = @ + 1]
      BY <1>7, <2>2 DEF StoreCheck
    <2>4. Contract!Score(w)
      BY <2>1, <2>2, <2>3, Views DEF Contract!Score, Accepted, Claims, Closed
    <2> QED BY <2>4 DEF Goal, Contract!Next
  <1>8. ASSUME NEW w \in Workers, NEW r \in Rows, RecordDlq(w, r) \/ (StoreCancelled(w) /\ r = worker[w].cur) PROVE Goal
    <2>1. UNCHANGED <<submit, place, cancelled, checks>>
      BY <1>8 DEF RecordDlq, StoreCancelled
    <2>2. UNCHANGED Claims
      <3>1. CASE RecordDlq(w, r) BY <3>1 DEF RecordDlq, Claims
      <3>2. CASE StoreCancelled(w) BY <3>2 DEF StoreCancelled, Claims
      <3> QED BY <1>8, <3>1, <3>2
    <2>3. failures' = [s \in Rows |-> IF s \in {r} THEN failures[s] + 1 ELSE failures[s]]
      BY <1>8 DEF RecordDlq, StoreCancelled
    <2>4. BatchOf[r] \in Accepted
      BY <1>8 DEF RecordDlq, StoreCancelled, HeldOK, SentOK, Accepted
    <2>5. Contract!Fail({r})
      BY <2>1, <2>2, <2>3, <2>4, Views DEF Contract!Fail, Accepted, Claims, Closed
    <2> QED BY <2>5 DEF Goal, Contract!Next
  <1>9. ASSUME NEW w \in Workers, RaiseRow(w) PROVE Goal
    <2>1. UNCHANGED <<submit, place, cancelled, checks, failures>>
      BY <1>9 DEF RaiseRow
    <2>2. Claims' = [Claims EXCEPT ![w] = NoRow]
      <3>1. worker'[w].pc = "rows" /\ \A v \in Workers \ {w} : worker'[v] = worker[v]
        BY <1>9 DEF RaiseRow
      <3> QED BY <3>1 DEF Claims
    <2> QED BY <2>1, <2>2, ReleaseStep
  <1>10. ASSUME NEW w \in Workers, AckRow(w) \/ AckDlq(w) PROVE Goal
    <2>1. worker[w].cur \in Rows /\ Resolved(worker[w].cur)
      BY <1>10 DEF AckRow, AckDlq, AckOK, Carrying
    <2>2. UNCHANGED <<submit, cancelled, checks, failures>>
      BY <1>10 DEF AckRow, AckDlq
    <2>3. UNCHANGED Claims
      <3>1. CASE AckRow(w) BY <3>1 DEF AckRow, Claims
      <3>2. CASE AckDlq(w) BY <3>2 DEF AckDlq, Claims
      <3> QED BY <1>10, <3>1, <3>2
    <2>4. Delete(w, worker[w].cur, MainPlaces) \/ Delete(w, worker[w].cur, DlqPlaces)
      BY <1>10 DEF AckRow, AckDlq
    <2> QED BY <2>1, <2>2, <2>3, <2>4, Views, ClosingStep DEF MainPlaces, DlqPlaces
  <1>11. ASSUME NEW w \in Workers, StoreCancelled(w) PROVE Goal
    <2>1. worker[w].cur \in Rows
      BY <1>11 DEF StoreCancelled, Carrying
    <2> QED BY <1>8, <1>11, <2>1
  <1> QED BY <1>0, <1>1, <1>2, <1>3, <1>4, <1>5, <1>6, <1>7, <1>8, <1>9, <1>10, <1>11 DEF Next, WorkerStep

(* The pipeline implements its contract, for every number of batches, rows,  *)
(* Workers, requests, crashes and redeliveries.                              *)
THEOREM Refinement == Spec => ImplementsContract
  <1>1. Init => Contract!Init
    BY ContractInit
  <1>2. IInv /\ [Next]_vars => [Contract!Next]_(Contract!contractVars)
    BY ContractStep
  <1> QED BY <1>1, <1>2, Invariance, PTL DEF Spec, ImplementsContract, Contract!Spec
----------------------------------------------------------------------------
(* Sums over finite sets: what SumFunctionOnSet does with a term more, a     *)
(* term less and with greater terms. The induction is over the subsets of    *)
(* the set, ordered by inclusion.                                            *)
(* Of a non-empty collection of subsets of a finite set, one contains no    *)
(* other.  This is the induction over finite sets used below: a smallest     *)
(* counterexample.                                                           *)
LEMMA Smallest ==
    ASSUME NEW S, IsFiniteSet(S), NEW T, T \subseteq SUBSET S, T # {}
    PROVE  \E U \in T : \A V \in SUBSET U : V # U => V \notin T
<1>1. T \subseteq FiniteSubsetsOf(S)
  BY FS_Subset DEF FiniteSubsetsOf
<1>2. PICK U \in T : \A V \in T : <<V, U>> \notin StrictSubsetOrdering(S)
  BY <1>1, FS_StrictSubsetOrderingWellFounded, WFMin
<1>3. ASSUME NEW V \in SUBSET U, V # U, V \in T PROVE FALSE
  BY <1>1, <1>2, <1>3 DEF StrictSubsetOrdering
<1> QED BY <1>3

(* SumFunctionOnSet adds up by taking the elements one after another; g is a *)
(* table of the sums of f over the subsets of S.                             *)
First(s) == CHOOSE x \in s : TRUE
Adds(g, f, S) == g = [s \in SUBSET S |-> IF s = {} THEN 0 ELSE f[First(s)] + g[s \ {First(s)}]]

(* What SumFunctionOnSet is, and what a table holds. *)
LEMMA SumIs ==
    ASSUME NEW f, NEW S
    PROVE  SumFunctionOnSet(f, S) = (CHOOSE g : Adds(g, f, S))[S]
  BY DEF SumFunctionOnSet, FoldFunctionOnSet, MapThenFoldSet, Adds, First

LEMMA FirstIn == ASSUME NEW S, S # {} PROVE First(S) \in S
  BY DEF First

LEMMA AddsAt ==
    ASSUME NEW f, NEW S, NEW g, Adds(g, f, S), NEW U \in SUBSET S
    PROVE  /\ U = {} => g[U] = 0
           /\ U # {} => g[U] = f[First(U)] + g[U \ {First(U)}]
<1>1. g[U] = IF U = {} THEN 0 ELSE f[First(U)] + g[U \ {First(U)}]
  BY Zenon DEF Adds
<1> QED BY <1>1

(* Two tables agree where both have an entry. *)
LEMMA AddsOnce ==
    ASSUME NEW f, NEW S, NEW g, Adds(g, f, S), NEW R, NEW h, Adds(h, f, R),
           IsFiniteSet(S), S \subseteq R
    PROVE  g[S] = h[S]
<1> DEFINE T == {U \in SUBSET S : g[U] # h[U]}
<1>1. SUFFICES ASSUME T # {} PROVE FALSE
  OBVIOUS
<1>2. PICK U \in T : \A V \in SUBSET U : V # U => V \notin T
  <2>1. T \subseteq SUBSET S
    OBVIOUS
  <2> HIDE DEF T
  <2> QED BY <2>1, <1>1, Smallest
<1>3. U \in SUBSET S /\ U \in SUBSET R /\ g[U] # h[U]
  BY <1>2
<1>4. U # {}
  <2>1. ASSUME U = {} PROVE g[U] = 0 /\ h[U] = 0
    BY <2>1, <1>3, AddsAt
  <2> QED BY <2>1, <1>3
<1> DEFINE V == U \ {First(U)}
<1>5. V \in SUBSET U /\ V # U
  BY <1>4, FirstIn
<1>6. g[V] = h[V]
  BY <1>5, <1>2, <1>3
<1>7. g[U] = f[First(U)] + g[V] /\ h[U] = f[First(U)] + h[V]
  BY <1>3, <1>4, AddsAt
<1> QED BY <1>3, <1>6, <1>7

(* There is a table. *)
LEMMA AddsExists ==
    ASSUME NEW f, NEW S, IsFiniteSet(S)
    PROVE  \E g : Adds(g, f, S)
<1> DEFINE T == {U \in SUBSET S : ~ \E g : Adds(g, f, U)}
<1>1. SUFFICES ASSUME T # {} PROVE FALSE
  OBVIOUS
<1>2. PICK U \in T : \A V \in SUBSET U : V # U => V \notin T
  <2>1. T \subseteq SUBSET S
    OBVIOUS
  <2> HIDE DEF T
  <2> QED BY <2>1, <1>1, Smallest
<1>3. U \in SUBSET S /\ ~ \E g : Adds(g, f, U)
  BY <1>2
<1> DEFINE G(V) == CHOOSE g : Adds(g, f, V)
           h == [s \in SUBSET U |-> IF s = {} THEN 0
                                    ELSE f[First(s)] + G(s \ {First(s)})[s \ {First(s)}]]
<1>4. ASSUME NEW V \in SUBSET U, V # U PROVE Adds(G(V), f, V) /\ IsFiniteSet(V)
  <2>1. V \in SUBSET S /\ V \notin T
    BY <1>2, <1>3, <1>4
  <2> QED BY <2>1, FS_Subset
<1>5. ASSUME NEW s \in SUBSET U, s # {}
      PROVE  h[s \ {First(s)}] = G(s \ {First(s)})[s \ {First(s)}]
  <2> DEFINE V == s \ {First(s)}
             W == V \ {First(V)}
  <2>1. V \in SUBSET U /\ V # U
    BY <1>5, FirstIn
  <2>2. Adds(G(V), f, V)
    BY <2>1, <1>4
  <2>3. CASE V = {}
    <3>1. G(V)[V] = 0
      BY <2>2, <2>3, AddsAt
    <3> QED BY <3>1, <2>3, <2>1
  <2>4. CASE V # {}
    <3>1. W \in SUBSET U /\ W # U /\ W \subseteq V
      BY <2>1, <2>4, FirstIn
    <3>2. Adds(G(W), f, W) /\ IsFiniteSet(W)
      BY <3>1, <1>4
    <3>3. G(W)[W] = G(V)[W]
      <4> HIDE DEF G, W, V
      <4> QED BY <3>1, <3>2, <2>2, AddsOnce
    <3>4. G(V)[V] = f[First(V)] + G(V)[W]
      <4>1. V \in SUBSET V
        OBVIOUS
      <4> HIDE DEF G, V
      <4> QED BY <4>1, <2>2, <2>4, AddsAt
    <3>5. h[V] = f[First(V)] + G(W)[W]
      BY <2>1, <2>4
    <3> QED BY <3>3, <3>4, <3>5
  <2> QED BY <2>3, <2>4
<1>6. Adds(h, f, U)
  <2>1. h = [s \in SUBSET U |-> IF s = {} THEN 0 ELSE f[First(s)] + h[s \ {First(s)}]]
    <3> HIDE DEF G
    <3> DEFINE k == [s \in SUBSET U |-> IF s = {} THEN 0 ELSE f[First(s)] + h[s \ {First(s)}]]
    <3>1. ASSUME NEW s \in SUBSET U PROVE h[s] = k[s]
      <4>1. CASE s = {}
        BY <4>1
      <4>2. CASE s # {}
        <5>1. h[s] = f[First(s)] + G(s \ {First(s)})[s \ {First(s)}]
          BY <4>2
        <5>2. k[s] = f[First(s)] + h[s \ {First(s)}]
          BY <4>2
        <5> QED BY <5>1, <5>2, <1>5, <4>2
      <4> QED BY <4>1, <4>2
    <3>2. h = [s \in SUBSET U |-> h[s]] /\ k = [s \in SUBSET U |-> k[s]]
      OBVIOUS
    <3> HIDE DEF h, k
    <3>3. h = k
      BY <3>1, <3>2
    <3> USE DEF k
    <3> QED BY <3>3
  <2> HIDE DEF h
  <2> QED BY <2>1 DEF Adds
<1> QED BY <1>6, <1>3

(* A sum is its first term and the sum of the rest. *)
LEMMA SumFirst ==
    ASSUME NEW f, NEW S, IsFiniteSet(S)
    PROVE  /\ S = {} => SumFunctionOnSet(f, S) = 0
           /\ S # {} => SumFunctionOnSet(f, S) = f[First(S)] + SumFunctionOnSet(f, S \ {First(S)})
<1> DEFINE G(V) == CHOOSE g : Adds(g, f, V)
           V == S \ {First(S)}
<1>1. IsFiniteSet(V) /\ V \subseteq S
  BY FS_Subset
<1>2. Adds(G(S), f, S) /\ Adds(G(V), f, V)
  BY <1>1, AddsExists
<1>3. SumFunctionOnSet(f, S) = G(S)[S] /\ SumFunctionOnSet(f, V) = G(V)[V]
  BY SumIs
<1> HIDE DEF G
<1>4. G(V)[V] = G(S)[V]
  <2> HIDE DEF V
  <2> QED BY <1>1, <1>2, AddsOnce
<1>5. (S = {} => G(S)[S] = 0) /\ (S # {} => G(S)[S] = f[First(S)] + G(S)[V])
  <2> S \in SUBSET S
    OBVIOUS
  <2> QED BY <1>2, AddsAt
<1> QED BY <1>3, <1>4, <1>5

(* A sum of integers is one. *)
LEMMA SumInt ==
    ASSUME NEW S, IsFiniteSet(S), NEW f, \A x \in S : f[x] \in Int
    PROVE  SumFunctionOnSet(f, S) \in Int
<1> DEFINE T == {U \in SUBSET S : SumFunctionOnSet(f, U) \notin Int}
<1>1. SUFFICES ASSUME T # {} PROVE FALSE
  OBVIOUS
<1>2. PICK U \in T : \A V \in SUBSET U : V # U => V \notin T
  <2>1. T \subseteq SUBSET S
    OBVIOUS
  <2> HIDE DEF T
  <2> QED BY <2>1, <1>1, Smallest
<1>3. U \in SUBSET S /\ IsFiniteSet(U)
  BY <1>2, FS_Subset
<1>4. U # {}
  BY <1>2, <1>3, SumFirst
<1>5. First(U) \in U
  BY <1>4, FirstIn
<1>6. U \ {First(U)} \notin T /\ U \ {First(U)} \in SUBSET S
  BY <1>5, <1>2, <1>3
<1>7. SumFunctionOnSet(f, U) = f[First(U)] + SumFunctionOnSet(f, U \ {First(U)})
  BY <1>3, <1>4, SumFirst
<1> QED BY <1>2, <1>3, <1>5, <1>6, <1>7

(* ... and, in any order, any term and the sum of the rest. *)
LEMMA SumRemove ==
    ASSUME NEW S, IsFiniteSet(S), NEW f, \A x \in S : f[x] \in Int, NEW a \in S
    PROVE  SumFunctionOnSet(f, S) = f[a] + SumFunctionOnSet(f, S \ {a})
<1> DEFINE Sum(U) == SumFunctionOnSet(f, U)
           T == {U \in SUBSET S : \E x \in U : Sum(U) # f[x] + Sum(U \ {x})}
<1>1. SUFFICES ASSUME T # {} PROVE FALSE
  OBVIOUS
<1>2. PICK U \in T : \A V \in SUBSET U : V # U => V \notin T
  <2>1. T \subseteq SUBSET S
    OBVIOUS
  <2> HIDE DEF T
  <2> QED BY <2>1, <1>1, Smallest
<1>3. PICK x \in U : Sum(U) # f[x] + Sum(U \ {x})
  BY <1>2
<1> DEFINE y == First(U)
<1>4. U \in SUBSET S /\ IsFiniteSet(U) /\ y \in U
  BY <1>2, <1>3, FS_Subset, FirstIn
<1>5. Sum(U) = f[y] + Sum(U \ {y})
  BY <1>3, <1>4, SumFirst
<1>6. x # y
  BY <1>3, <1>5
<1> DEFINE V == U \ {y}
           W == U \ {x}
           Z == V \ {x}
<1> HIDE DEF y, Sum
<1>7. Sum(V) = f[x] + Sum(Z)
  <2>1. V \in SUBSET U /\ V # U /\ V \in SUBSET S /\ x \in V
    BY <1>3, <1>4, <1>6
  <2> QED BY <2>1, <1>2
<1>8. Sum(W) = f[y] + Sum(Z)
  <2>1. W \in SUBSET U /\ W # U /\ W \in SUBSET S /\ y \in W /\ W \ {y} = Z
    BY <1>3, <1>4, <1>6
  <2>2. W \notin T
    BY <2>1, <1>2
  <2>3. Sum(W) = f[y] + Sum(W \ {y})
    BY <2>1, <2>2
  <2> QED BY <2>1, <2>3
<1>9. f[x] \in Int /\ f[y] \in Int /\ Sum(Z) \in Int
  <2>1. IsFiniteSet(Z) /\ \A z \in Z : f[z] \in Int
    BY <1>4, FS_Subset
  <2> QED BY <2>1, <1>3, <1>4, SumInt DEF Sum
<1> QED BY <1>3, <1>5, <1>7, <1>8, <1>9

LEMMA SumEmpty == \A f : SumFunctionOnSet(f, {}) = 0
  BY FS_EmptySet, SumFirst

(* Sums keep the order of their terms, two functions on each side.           *)
LEMMA SumLeq ==
    ASSUME NEW S, IsFiniteSet(S), NEW f, NEW g, NEW h, NEW k,
           \A x \in S : /\ f[x] \in Int /\ g[x] \in Int /\ h[x] \in Int /\ k[x] \in Int
                        /\ f[x] + g[x] <= h[x] + k[x]
    PROVE  SumFunctionOnSet(f, S) + SumFunctionOnSet(g, S) <= SumFunctionOnSet(h, S) + SumFunctionOnSet(k, S)
<1> DEFINE Sum(e, U) == SumFunctionOnSet(e, U)
           Good(U) == Sum(f, U) + Sum(g, U) <= Sum(h, U) + Sum(k, U)
           T == {U \in SUBSET S : ~Good(U)}
<1>1. SUFFICES ASSUME T # {} PROVE FALSE
  OBVIOUS
<1>2. PICK U \in T : \A V \in SUBSET U : V # U => V \notin T
  <2>1. T \subseteq SUBSET S
    OBVIOUS
  <2> HIDE DEF T
  <2> QED BY <2>1, <1>1, Smallest
<1>3. U \in SUBSET S /\ IsFiniteSet(U) /\ ~Good(U)
  BY <1>2, FS_Subset
<1>4. PICK a \in U : TRUE
  <2>1. Good({})
    BY SumEmpty
  <2> QED BY <2>1, <1>3
<1> DEFINE V == U \ {a}
<1>5. Good(V)
  <2>1. V \in SUBSET U /\ V # U /\ V \in SUBSET S
    BY <1>3, <1>4
  <2> HIDE DEF Good
  <2> QED BY <2>1, <1>2
<1>6. /\ Sum(f, U) = f[a] + Sum(f, V) /\ Sum(g, U) = g[a] + Sum(g, V)
      /\ Sum(h, U) = h[a] + Sum(h, V) /\ Sum(k, U) = k[a] + Sum(k, V)
  BY <1>3, <1>4, SumRemove
<1>7. Sum(f, V) \in Int /\ Sum(g, V) \in Int /\ Sum(h, V) \in Int /\ Sum(k, V) \in Int
  <2>1. IsFiniteSet(V) /\ V \subseteq S
    BY <1>3, FS_Subset
  <2> HIDE DEF V
  <2> QED BY <2>1, SumInt
<1>8. f[a] \in Int /\ g[a] \in Int /\ h[a] \in Int /\ k[a] \in Int /\ f[a] + g[a] <= h[a] + k[a]
  BY <1>3, <1>4
<1> HIDE DEF V, T, Sum
<1> QED BY <1>3, <1>5, <1>6, <1>7, <1>8

(* Greater terms, a greater sum. *)
LEMMA SumMonotone ==
    ASSUME NEW S, IsFiniteSet(S), NEW f, NEW g,
           \A x \in S : f[x] \in Int /\ g[x] \in Int /\ f[x] <= g[x]
    PROVE  SumFunctionOnSet(f, S) <= SumFunctionOnSet(g, S)
<1> DEFINE zero == [x \in S |-> 0]
<1>1. SumFunctionOnSet(f, S) + SumFunctionOnSet(zero, S) <= SumFunctionOnSet(g, S) + SumFunctionOnSet(zero, S)
  <2>1. \A x \in S : zero[x] = 0
    OBVIOUS
  <2> HIDE DEF zero
  <2> QED BY <2>1, SumLeq
<1>2. SumFunctionOnSet(f, S) \in Int /\ SumFunctionOnSet(g, S) \in Int /\ SumFunctionOnSet(zero, S) \in Int
  BY SumInt
<1> QED BY <1>1, <1>2

(* Ones add up to the number of terms.                                       *)
LEMMA SumOnes ==
    ASSUME NEW S, IsFiniteSet(S), NEW f, \A x \in S : f[x] = 1
    PROVE  SumFunctionOnSet(f, S) = Cardinality(S)
<1> DEFINE T == {U \in SUBSET S : SumFunctionOnSet(f, U) # Cardinality(U)}
<1>1. SUFFICES ASSUME T # {} PROVE FALSE
  OBVIOUS
<1>2. PICK U \in T : \A V \in SUBSET U : V # U => V \notin T
  <2>1. T \subseteq SUBSET S
    OBVIOUS
  <2> HIDE DEF T
  <2> QED BY <2>1, <1>1, Smallest
<1>3. U \in SUBSET S /\ IsFiniteSet(U) /\ SumFunctionOnSet(f, U) # Cardinality(U)
  BY <1>2, FS_Subset
<1>4. PICK a \in U : TRUE
  BY <1>3, SumEmpty, FS_EmptySet
<1> DEFINE V == U \ {a}
<1>5. SumFunctionOnSet(f, V) = Cardinality(V)
  <2>1. V \in SUBSET U /\ V # U /\ V \in SUBSET S
    BY <1>3, <1>4
  <2> QED BY <2>1, <1>2
<1>6. SumFunctionOnSet(f, U) = 1 + SumFunctionOnSet(f, V)
  BY <1>3, <1>4, SumRemove
<1>7. Cardinality(V) = Cardinality(U) - 1 /\ Cardinality(U) \in Nat
  BY <1>3, <1>4, FS_RemoveElement, FS_CardinalityType
<1> QED BY <1>3, <1>5, <1>6, <1>7

(* Noughts add up to nought.                                                 *)
LEMMA SumZero ==
    ASSUME NEW S, IsFiniteSet(S), NEW f, \A x \in S : f[x] = 0
    PROVE  SumFunctionOnSet(f, S) = 0
<1> DEFINE T == {U \in SUBSET S : SumFunctionOnSet(f, U) # 0}
<1>1. SUFFICES ASSUME T # {} PROVE FALSE
  OBVIOUS
<1>2. PICK U \in T : \A V \in SUBSET U : V # U => V \notin T
  <2>1. T \subseteq SUBSET S
    OBVIOUS
  <2> HIDE DEF T
  <2> QED BY <2>1, <1>1, Smallest
<1>3. U \in SUBSET S /\ IsFiniteSet(U) /\ SumFunctionOnSet(f, U) # 0
  BY <1>2, FS_Subset
<1>4. PICK a \in U : TRUE
  BY <1>3, SumEmpty
<1>5. SumFunctionOnSet(f, U \ {a}) = 0
  <2>1. U \ {a} \in SUBSET U /\ U \ {a} # U /\ U \ {a} \in SUBSET S
    BY <1>3, <1>4
  <2> QED BY <2>1, <1>2
<1>6. SumFunctionOnSet(f, U) = 0 + SumFunctionOnSet(f, U \ {a})
  BY <1>3, <1>4, SumRemove
<1> QED BY <1>3, <1>5, <1>6

(* A term of one for each element of A adds up to how many there are.        *)
LEMMA SumChosen ==
    ASSUME NEW S, IsFiniteSet(S), NEW A \in SUBSET S, NEW f, \A x \in S : f[x] = IF x \in A THEN 1 ELSE 0
    PROVE  SumFunctionOnSet(f, S) = Cardinality(A)
<1> DEFINE T == {U \in SUBSET S : SumFunctionOnSet(f, U) # Cardinality(A \cap U)}
<1>1. SUFFICES ASSUME T # {} PROVE FALSE
  <2>1. S \in SUBSET S /\ A \cap S = A
    OBVIOUS
  <2> QED BY <2>1
<1>2. PICK U \in T : \A V \in SUBSET U : V # U => V \notin T
  <2>1. T \subseteq SUBSET S
    OBVIOUS
  <2> HIDE DEF T
  <2> QED BY <2>1, <1>1, Smallest
<1>3. U \in SUBSET S /\ IsFiniteSet(U) /\ SumFunctionOnSet(f, U) # Cardinality(A \cap U)
  BY <1>2, FS_Subset
<1>4. PICK a \in U : TRUE
  <2>1. ASSUME U = {} PROVE SumFunctionOnSet(f, U) = 0 /\ Cardinality(A \cap U) = 0
    <3>1. A \cap U = {}
      BY <2>1
    <3> QED BY <3>1, <2>1, SumEmpty, FS_EmptySet
  <2> QED BY <2>1, <1>3
<1> DEFINE V == U \ {a}
<1>5. SumFunctionOnSet(f, V) = Cardinality(A \cap V)
  <2>1. V \in SUBSET U /\ V # U /\ V \in SUBSET S
    BY <1>3, <1>4
  <2> QED BY <2>1, <1>2
<1>6. SumFunctionOnSet(f, U) = f[a] + SumFunctionOnSet(f, V)
  <2>1. \A x \in U : f[x] \in Int
    BY <1>3
  <2> QED BY <2>1, <1>3, <1>4, SumRemove
<1>7. Cardinality(A \cap U) = (IF a \in A THEN 1 ELSE 0) + Cardinality(A \cap V) /\ Cardinality(A \cap V) \in Nat
  <2>1. IsFiniteSet(A \cap U) /\ IsFiniteSet(A \cap V)
    BY <1>3, FS_Subset
  <2>2. CASE a \in A
    <3>1. A \cap V = (A \cap U) \ {a} /\ a \in A \cap U
      BY <2>2, <1>4
    <3>2. Cardinality((A \cap U) \ {a}) = Cardinality(A \cap U) - 1
      BY <3>1, <2>1, FS_RemoveElement
    <3> QED BY <3>1, <3>2, <2>1, <2>2, FS_CardinalityType
  <2>3. CASE a \notin A
    <3>1. A \cap V = A \cap U
      BY <2>3
    <3>2. Cardinality(A \cap U) = Cardinality(A \cap V)
      BY <3>1
    <3>3. Cardinality(A \cap V) \in Nat
      BY <2>1, FS_CardinalityType
    <3> HIDE DEF V
    <3> QED BY <3>2, <3>3, <2>3
  <2> QED BY <2>2, <2>3
<1> HIDE DEF V
<1> QED BY <1>3, <1>4, <1>5, <1>6, <1>7

(* Fewer terms, none of them negative, add up to less.                       *)
LEMMA SumFewer ==
    ASSUME NEW S, IsFiniteSet(S), NEW R \in SUBSET S, NEW f, \A x \in S : f[x] \in Nat
    PROVE  SumFunctionOnSet(f, R) <= SumFunctionOnSet(f, S)
<1> DEFINE T == {U \in SUBSET S : R \subseteq U /\ ~(SumFunctionOnSet(f, R) <= SumFunctionOnSet(f, U))}
<1>1. SUFFICES ASSUME T # {} PROVE FALSE
  OBVIOUS
<1>2. PICK U \in T : \A V \in SUBSET U : V # U => V \notin T
  <2>1. T \subseteq SUBSET S
    OBVIOUS
  <2> HIDE DEF T
  <2> QED BY <2>1, <1>1, Smallest
<1>3. U \in SUBSET S /\ IsFiniteSet(U) /\ R \subseteq U /\ ~(SumFunctionOnSet(f, R) <= SumFunctionOnSet(f, U))
  BY <1>2, FS_Subset
<1>4. SumFunctionOnSet(f, R) \in Int
  <2>1. IsFiniteSet(R)
    BY FS_Subset
  <2> QED BY <2>1, SumInt
<1>5. PICK a \in U : a \notin R
  <2>1. R # U
    BY <1>3, <1>4
  <2> QED BY <2>1, <1>3
<1> DEFINE V == U \ {a}
<1>6. SumFunctionOnSet(f, R) <= SumFunctionOnSet(f, V)
  <2>1. V \in SUBSET U /\ V # U /\ V \in SUBSET S /\ R \subseteq V
    BY <1>3, <1>5
  <2> QED BY <2>1, <1>2
<1>7. SumFunctionOnSet(f, U) = f[a] + SumFunctionOnSet(f, V)
  <2>1. \A x \in U : f[x] \in Int
    BY <1>3
  <2> QED BY <2>1, <1>3, <1>5, SumRemove
<1>8. SumFunctionOnSet(f, V) \in Int /\ f[a] \in Nat
  <2>1. IsFiniteSet(V) /\ \A x \in V : f[x] \in Int
    BY <1>3, FS_Subset
  <2> HIDE DEF V
  <2>2. SumFunctionOnSet(f, V) \in Int
    BY <2>1, SumInt
  <2> QED BY <2>2, <1>3, <1>5
<1> HIDE DEF V
<1> QED BY <1>3, <1>4, <1>6, <1>7, <1>8

----------------------------------------------------------------------------
(* Nothing but a fault makes a row count twice.  The inductive invariant      *)
(* weighs a row by what is stored of it and by what may still be: nobody     *)
(* stores anything but a Worker holding the row, and a Worker gets hold of   *)
(* it only when its message comes back from the queue.                       *)

(* Worker w has row r among its page or in hand ...                          *)
Carries(w, r) == r \in worker[w].hold \/ worker[w].cur = r

(* ... and these Workers have not stored its outcome yet.                    *)
MayStore(r) == {w \in Workers :
    r \in worker[w].hold \/ (worker[w].cur = r /\ worker[w].pc \in {"score", "refuse"})}

(* The row will be recorded or received again without a fault: it is to be   *)
(* sent, visible in a queue, or hidden by nobody who still works on it.      *)
ComesBack(r) ==
    \/ place[r] \in {"unsent", "queue", "dlq"}
    \/ place[r] = "refused" /\ submit[BatchOf[r]] # "done"
    \/ place[r] \in {"hidden", "dlqHidden"} /\ ~\E w \in Workers : holder[r] = w /\ Carries(w, r)

(* What the row is counted for in the end if nothing goes wrong, and what of *)
(* that is beyond one: paid for by the faults there have been.               *)
Chances(r) == checks[r] + failures[r] + Cardinality(MayStore(r)) + (IF ComesBack(r) THEN 1 ELSE 0)
Extra == [r \in Rows |-> IF Chances(r) > 1 THEN Chances(r) - 1 ELSE 0]
PaidOK == SumFunctionOnSet(Extra, Rows) <= faults

(* A Worker's row in hand has left its page, and it starts a poll with none. *)
HandsOK == \A w \in Workers :
    /\ worker[w].cur \notin worker[w].hold
    /\ worker[w].pc = "poll" => worker[w].hold = {}

(* The Worker with the latest receipt of a row it carries can delete it: the *)
(* message is in the queue it deletes from, or gone.                         *)
HolderOK == \A w \in Workers, r \in Rows : holder[r] = w /\ Carries(w, r) =>
    place[r] \in {"gone"} \cup (IF worker[w].pc \in {"dlq", "dlqAck"} THEN DlqPlaces ELSE MainPlaces)

CInv == TypeOK /\ HeldOK /\ HandsOK /\ HolderOK /\ PaidOK

----------------------------------------------------------------------------
LEMMA HandsStep ==
    ASSUME TypeOK, HandsOK, [Next]_vars
    PROVE  HandsOK'
  <1> USE PipelineAssumption DEF TypeOK, HandsOK, Carrying, WorkerPcs
  <1>1. ASSUME NEW w \in Workers, NEW S \in SUBSET Rows, ReceiveRows(w, S) PROVE HandsOK'
    BY <1>1 DEF ReceiveRows
  <1>2. ASSUME NEW w \in Workers, NEW S \in SUBSET Rows, ReceiveDlq(w, S) PROVE HandsOK'
    BY <1>2 DEF ReceiveDlq
  <1>3. ASSUME NEW w \in Workers, NEW r \in Rows, ReadRow(w, r) PROVE HandsOK'
    BY <1>3 DEF ReadRow
  <1>4. ASSUME NEW w \in Workers, NEW r \in Rows, RecordDlq(w, r) PROVE HandsOK'
    BY <1>4 DEF RecordDlq
  <1>5. ASSUME NEW w \in Workers, StoreCheck(w) PROVE HandsOK'
    BY <1>5 DEF StoreCheck
  <1>6. ASSUME NEW w \in Workers, StoreCancelled(w) PROVE HandsOK'
    BY <1>6 DEF StoreCancelled
  <1>7. ASSUME NEW w \in Workers, RaiseRow(w) PROVE HandsOK'
    BY <1>7 DEF RaiseRow
  <1>8. ASSUME NEW w \in Workers, AckRow(w) PROVE HandsOK'
    BY <1>8 DEF AckRow
  <1>9. ASSUME NEW w \in Workers, AckDlq(w) PROVE HandsOK'
    BY <1>9 DEF AckDlq
  <1>10. ASSUME NEW w \in Workers, WorkerFault(w) PROVE HandsOK'
    <2>1. CASE RaiseAfterStore(w)
      BY <2>1 DEF RaiseAfterStore
    <2>2. CASE BreakDrain(w)
      BY <2>2 DEF BreakDrain
    <2>3. CASE CrashWorker(w)
      BY <2>3 DEF CrashWorker
    <2> QED BY <1>10, <2>1, <2>2, <2>3 DEF WorkerFault
  <1>11. CASE UNCHANGED worker
    BY <1>11
  <1> QED BY <1>1, <1>2, <1>3, <1>4, <1>5, <1>6, <1>7, <1>8, <1>9, <1>10, <1>11, WorkerFrame, Zenon DEF WorkerStep

(* Every term of the sum is a number. *)
WeighedOK == \A r \in Rows :
    /\ Chances(r) \in Nat /\ Cardinality(MayStore(r)) \in Nat /\ IsFiniteSet(MayStore(r))
    /\ checks[r] \in Nat /\ failures[r] \in Nat
    /\ Extra[r] = IF Chances(r) > 1 THEN Chances(r) - 1 ELSE 0

LEMMA ChancesType == TypeOK => WeighedOK
<1> SUFFICES ASSUME TypeOK, NEW r \in Rows
    PROVE  /\ Chances(r) \in Nat /\ Cardinality(MayStore(r)) \in Nat /\ IsFiniteSet(MayStore(r))
           /\ checks[r] \in Nat /\ failures[r] \in Nat
           /\ Extra[r] = IF Chances(r) > 1 THEN Chances(r) - 1 ELSE 0
  BY DEF WeighedOK
<1>1. IsFiniteSet(MayStore(r))
  <2>1. MayStore(r) \in SUBSET Workers
    BY DEF MayStore
  <2> QED BY <2>1, PipelineAssumption, FS_Subset
<1>2. Cardinality(MayStore(r)) \in Nat
  BY <1>1, FS_CardinalityType
<1>3. checks[r] \in Nat /\ failures[r] \in Nat
  BY DEF TypeOK
<1>4. Chances(r) \in Nat
  BY <1>2, <1>3 DEF Chances
<1>5. Extra[r] = IF Chances(r) > 1 THEN Chances(r) - 1 ELSE 0
  BY DEF Extra
<1> QED BY <1>1, <1>2, <1>3, <1>4, <1>5

LEMMA ChancesTypeNext == TypeOK' => WeighedOK'
  BY ChancesType, PTL

(* No fault, no new chance.                                                  *)
LEMMA Unspent ==
    ASSUME TypeOK, TypeOK', PaidOK, faults' >= faults, \A r \in Rows : Chances(r)' <= Chances(r)
    PROVE  PaidOK'
<1>1. \A r \in Rows : Extra'[r] \in Int /\ Extra[r] \in Int /\ Extra'[r] <= Extra[r]
  <2> TAKE r \in Rows
  <2>1. Chances(r) \in Nat /\ Extra[r] = IF Chances(r) > 1 THEN Chances(r) - 1 ELSE 0
    BY ChancesType DEF WeighedOK
  <2>2. Chances(r)' \in Nat /\ Extra'[r] = IF Chances(r)' > 1 THEN Chances(r)' - 1 ELSE 0
    BY ChancesTypeNext DEF WeighedOK
  <2> QED BY <2>1, <2>2
<1>2. IsFiniteSet(Rows)
  BY QueueAssumption
<1>3. SumFunctionOnSet(Extra', Rows) <= SumFunctionOnSet(Extra, Rows)
  BY <1>1, <1>2, SumMonotone
<1>4. SumFunctionOnSet(Extra', Rows) \in Int /\ SumFunctionOnSet(Extra, Rows) \in Int
  BY <1>1, <1>2, SumInt
<1>5. faults \in Int /\ faults' \in Int
  BY PipelineAssumption DEF TypeOK
<1> QED BY <1>3, <1>4, <1>5 DEF PaidOK

(* Each fault of a step pays for one row.                                    *)
LEMMA SpentOn ==
    ASSUME TypeOK, TypeOK', PaidOK, NEW A \in SUBSET Rows, faults' = faults + Cardinality(A),
           \A r \in Rows : Chances(r)' <= Chances(r) + (IF r \in A THEN 1 ELSE 0)
    PROVE  PaidOK'
<1> DEFINE one == [r \in Rows |-> IF r \in A THEN 1 ELSE 0]
           zero == [r \in Rows |-> 0]
<1>1. \A r \in Rows : /\ Extra'[r] \in Int /\ zero[r] \in Int /\ Extra[r] \in Int /\ one[r] \in Int
                      /\ Extra'[r] + zero[r] <= Extra[r] + one[r]
  <2> TAKE r \in Rows
  <2>1. Chances(r) \in Nat /\ Extra[r] = IF Chances(r) > 1 THEN Chances(r) - 1 ELSE 0
    BY ChancesType DEF WeighedOK
  <2>2. Chances(r)' \in Nat /\ Extra'[r] = IF Chances(r)' > 1 THEN Chances(r)' - 1 ELSE 0
    BY ChancesTypeNext DEF WeighedOK
  <2>3. Chances(r)' <= Chances(r) + one[r] /\ one[r] \in {0, 1} /\ zero[r] = 0
    OBVIOUS
  <2> HIDE DEF one, zero
  <2> QED BY <2>1, <2>2, <2>3
<1>2. IsFiniteSet(Rows)
  BY QueueAssumption
<1>3. SumFunctionOnSet(Extra', Rows) + SumFunctionOnSet(zero, Rows) <= SumFunctionOnSet(Extra, Rows) + SumFunctionOnSet(one, Rows)
  <2> HIDE DEF one, zero
  <2> QED BY <1>1, <1>2, SumLeq
<1>4. SumFunctionOnSet(zero, Rows) = 0 /\ SumFunctionOnSet(one, Rows) = Cardinality(A)
  <2>1. \A r \in Rows : zero[r] = 0 /\ one[r] = IF r \in A THEN 1 ELSE 0
    OBVIOUS
  <2> HIDE DEF one, zero
  <2> QED BY <2>1, <1>2, SumZero, SumChosen
<1>5. SumFunctionOnSet(Extra', Rows) \in Int /\ SumFunctionOnSet(Extra, Rows) \in Int
  BY <1>1, <1>2, SumInt
<1>6. faults \in Int /\ faults' \in Int /\ Cardinality(A) \in Nat
  <2>1. IsFiniteSet(A)
    BY <1>2, FS_Subset
  <2> QED BY <2>1, FS_CardinalityType, PipelineAssumption DEF TypeOK
<1> HIDE DEF one, zero
<1> QED BY <1>3, <1>4, <1>5, <1>6 DEF PaidOK

(* One fault pays for one.                                                   *)
LEMMA Spent ==
    ASSUME TypeOK, TypeOK', PaidOK, faults' = faults + 1, NEW a \in Rows,
           \A r \in Rows : Chances(r)' <= Chances(r) + (IF r = a THEN 1 ELSE 0)
    PROVE  PaidOK'
<1>1. faults' = faults + Cardinality({a})
  BY FS_Singleton
<1>2. \A r \in Rows : Chances(r)' <= Chances(r) + (IF r \in {a} THEN 1 ELSE 0)
  OBVIOUS
<1>3. {a} \in SUBSET Rows
  OBVIOUS
<1> QED BY <1>1, <1>2, <1>3, SpentOn

(* How the number of Workers that may store a row changes with the set. *)
LEMMA Counted ==
    ASSUME TypeOK, TypeOK', NEW r \in Rows
    PROVE  /\ MayStore(r)' \subseteq MayStore(r) => Cardinality(MayStore(r))' <= Cardinality(MayStore(r))
           /\ \A w : MayStore(r)' \subseteq MayStore(r) \cup {w} =>
                    Cardinality(MayStore(r))' <= Cardinality(MayStore(r)) + 1
           /\ \A w \in MayStore(r) : MayStore(r)' \subseteq MayStore(r) \ {w} =>
                    Cardinality(MayStore(r))' <= Cardinality(MayStore(r)) - 1
<1> DEFINE A == MayStore(r)
           B == MayStore(r)'
<1>1. IsFiniteSet(A) /\ Cardinality(A) \in Nat /\ IsFiniteSet(B) /\ Cardinality(B) \in Nat
  BY ChancesType, ChancesTypeNext DEF WeighedOK
<1> HIDE DEF A, B
<1>2. B \subseteq A => Cardinality(B) <= Cardinality(A)
  BY <1>1, FS_Subset
<1>3. ASSUME NEW w, B \subseteq A \cup {w} PROVE Cardinality(B) <= Cardinality(A) + 1
  <2>1. IsFiniteSet(A \cup {w}) /\ Cardinality(A \cup {w}) <= Cardinality(A) + 1
    <3>1. Cardinality(A \cup {w}) = IF w \in A THEN Cardinality(A) ELSE Cardinality(A) + 1
      BY <1>1, FS_AddElement
    <3> QED BY <3>1, <1>1, FS_AddElement
  <2>2. Cardinality(B) <= Cardinality(A \cup {w}) /\ Cardinality(A \cup {w}) \in Nat
    BY <2>1, <1>3, FS_Subset, FS_CardinalityType
  <2> QED BY <1>1, <2>1, <2>2
<1>4. ASSUME NEW w \in A, B \subseteq A \ {w} PROVE Cardinality(B) <= Cardinality(A) - 1
  <2>1. IsFiniteSet(A \ {w}) /\ Cardinality(A \ {w}) = Cardinality(A) - 1
    BY <1>1, FS_RemoveElement
  <2>2. Cardinality(B) <= Cardinality(A \ {w})
    BY <2>1, <1>4, FS_Subset
  <2> QED BY <2>1, <2>2
<1> USE DEF A, B
<1> QED BY <1>2, <1>3, <1>4

(* What a step stores of a row: nothing, or one check or failure. *)
Same(r) == checks'[r] + failures'[r] = checks[r] + failures[r]
More(r) == checks'[r] + failures'[r] = checks[r] + failures[r] + 1

(* What a step does with a row adds up to no more than before ...            *)
LEMMA Weighed ==
    ASSUME TypeOK, TypeOK', NEW r \in Rows,
           \/ Same(r) /\ MayStore(r)' \subseteq MayStore(r) /\ (ComesBack(r)' => ComesBack(r))
           \/ Same(r) /\ ComesBack(r) /\ ~ComesBack(r)' /\ \E w : MayStore(r)' \subseteq MayStore(r) \cup {w}
           \/ Same(r) /\ \E w \in MayStore(r) : MayStore(r)' \subseteq MayStore(r) \ {w}
           \/ /\ More(r) /\ (ComesBack(r)' => ComesBack(r))
              /\ \E w \in MayStore(r) : MayStore(r)' \subseteq MayStore(r) \ {w}
           \/ More(r) /\ ComesBack(r) /\ ~ComesBack(r)' /\ MayStore(r)' \subseteq MayStore(r)
    PROVE  Chances(r)' <= Chances(r)
<1> DEFINE a == Cardinality(MayStore(r))
           b == Cardinality(MayStore(r))'
<1>1. /\ a \in Nat /\ b \in Nat /\ checks[r] \in Nat /\ failures[r] \in Nat
      /\ checks'[r] \in Nat /\ failures'[r] \in Nat
  BY ChancesType, ChancesTypeNext DEF WeighedOK
<1>2. \/ Same(r) /\ b <= a /\ (ComesBack(r)' => ComesBack(r))
      \/ Same(r) /\ ComesBack(r) /\ ~ComesBack(r)' /\ b <= a + 1
      \/ Same(r) /\ b <= a - 1
      \/ More(r) /\ (ComesBack(r)' => ComesBack(r)) /\ b <= a - 1
      \/ More(r) /\ ComesBack(r) /\ ~ComesBack(r)' /\ b <= a
  BY Counted, Zenon
<1>3. /\ Chances(r) = checks[r] + failures[r] + a + (IF ComesBack(r) THEN 1 ELSE 0)
      /\ Chances(r)' = checks'[r] + failures'[r] + b + (IF ComesBack(r)' THEN 1 ELSE 0)
  BY DEF Chances
<1> HIDE DEF a, b
<1> QED BY <1>1, <1>2, <1>3 DEF Same, More

(* ... and to one more at the most when its outcome stays as it is, or one   *)
(* is stored that nobody was expected to store.                              *)
LEMMA WeighedFault ==
    ASSUME TypeOK, TypeOK', NEW r \in Rows, MayStore(r)' \subseteq MayStore(r),
           Same(r) \/ (More(r) /\ (ComesBack(r)' => ComesBack(r)))
    PROVE  Chances(r)' <= Chances(r) + 1
<1> DEFINE a == Cardinality(MayStore(r))
           b == Cardinality(MayStore(r))'
<1>1. /\ a \in Nat /\ b \in Nat /\ checks[r] \in Nat /\ failures[r] \in Nat
      /\ checks'[r] \in Nat /\ failures'[r] \in Nat
  BY ChancesType, ChancesTypeNext DEF WeighedOK
<1>2. b <= a
  BY Counted
<1>3. /\ Chances(r) = checks[r] + failures[r] + a + (IF ComesBack(r) THEN 1 ELSE 0)
      /\ Chances(r)' = checks'[r] + failures'[r] + b + (IF ComesBack(r)' THEN 1 ELSE 0)
  BY DEF Chances
<1> HIDE DEF a, b
<1> QED BY <1>1, <1>2, <1>3 DEF Same, More

----------------------------------------------------------------------------
LEMMA HolderStep ==
    ASSUME TypeOK, HandsOK, HeldOK, HolderOK, [Next]_vars
    PROVE  HolderOK'
  <1> USE PipelineAssumption, QueueAssumption
      DEF TypeOK, QueueTypeOK, queueVars, dbVars, HolderOK, Carries, Carrying, WorkerPcs, MainPlaces, DlqPlaces
  <1>0. CASE UNCHANGED vars
    BY <1>0 DEF vars
  <1>1. ASSUME NEW b \in Batches, CreateBatch(b) PROVE HolderOK'
    BY <1>1 DEF CreateBatch, Submit, CommitBatch, FinishEnqueue, AbortSubmit
  <1>2. ASSUME NEW r \in Rows, SendRow(r) PROVE HolderOK'
    BY <1>2 DEF SendRow, EnqueueRow, RefuseRow, Send, HeldOK
  <1>3. ASSUME NEW r \in Rows, Reappear(r) PROVE HolderOK'
    BY <1>3 DEF Reappear, Expire
  <1>4. ASSUME NEW r \in Rows, DeadLetter(r) PROVE HolderOK'
    BY <1>4 DEF DeadLetter, Redrive
  <1>5. ASSUME NEW q \in Requests, NEW S \in SUBSET Rows, PurgeReceive(q, S) PROVE HolderOK'
    BY <1>5 DEF PurgeReceive, Receive, Deliverable
  <1>6. ASSUME NEW q \in Requests, NEW r \in Rows, PurgeDelete(q, r) PROVE HolderOK'
    BY <1>6 DEF PurgeDelete, Delete
  <1>7. ASSUME NEW q \in Requests, RequestStep(q), UNCHANGED <<place, holder, worker>> PROVE HolderOK'
    BY <1>7
  <1>8. ASSUME NEW w \in Workers, NEW S \in SUBSET Rows, ReceiveRows(w, S) PROVE HolderOK'
    BY <1>8 DEF ReceiveRows, Receive, Deliverable
  <1>9. ASSUME NEW w \in Workers, NEW S \in SUBSET Rows, ReceiveDlq(w, S) PROVE HolderOK'
    BY <1>9 DEF ReceiveDlq, ReceiveDead, DeadLetters
  <1>10. ASSUME NEW w \in Workers, NEW r \in Rows, ReadRow(w, r) PROVE HolderOK'
    BY <1>10 DEF ReadRow
  <1>11. ASSUME NEW w \in Workers, NEW r \in Rows, RecordDlq(w, r) PROVE HolderOK'
    BY <1>11 DEF RecordDlq
  <1>12. ASSUME NEW w \in Workers, StoreCheck(w) PROVE HolderOK'
    BY <1>12 DEF StoreCheck
  <1>13. ASSUME NEW w \in Workers, StoreCancelled(w) PROVE HolderOK'
    BY <1>13 DEF StoreCancelled
  <1>14. ASSUME NEW w \in Workers, RaiseRow(w) PROVE HolderOK'
    BY <1>14 DEF RaiseRow
  <1>15. ASSUME NEW w \in Workers, AckRow(w) PROVE HolderOK'
    BY <1>15 DEF AckRow, Delete
  <1>16. ASSUME NEW w \in Workers, AckDlq(w) PROVE HolderOK'
    BY <1>16 DEF AckDlq, Delete
  <1>17. ASSUME NEW w \in Workers, RaiseAfterStore(w) PROVE HolderOK'
    BY <1>17 DEF RaiseAfterStore
  <1>18. ASSUME NEW w \in Workers, BreakDrain(w) PROVE HolderOK'
    BY <1>18 DEF BreakDrain
  <1>19. ASSUME NEW w \in Workers, CrashWorker(w) PROVE HolderOK'
    BY <1>19 DEF CrashWorker
  <1>20. ASSUME NEW q \in Requests, RequestStep(q) PROVE HolderOK'
    <2>1. \/ \E S \in SUBSET Rows : PurgeReceive(q, S)
          \/ \E r \in Rows : PurgeDelete(q, r)
          \/ UNCHANGED <<place, holder, worker>>
      BY <1>20, Zenon DEF RequestStep, CancelBatch, DeleteOwner, SelectCancelled, EndPurge
    <2> QED BY <2>1, <1>20, <1>5, <1>6, <1>7
  <1> QED BY <1>0, <1>1, <1>2, <1>3, <1>4, <1>8, <1>9, <1>10, <1>11, <1>12, <1>13, <1>14, <1>15,
             <1>16, <1>17, <1>18, <1>19, <1>20, Zenon DEF Next, WorkerStep, WorkerFault, QueueStep

----------------------------------------------------------------------------
(* No row gets another chance. *)
NoMore == \A r \in Rows : Chances(r)' <= Chances(r)

(* What a step of Worker w leaves of the others, and of a row's way back.    *)
Stores(w, r) == r \in worker[w].hold \/ (worker[w].cur = r /\ worker[w].pc \in {"score", "refuse"})

LEMMA OneWorker ==
    ASSUME NEW w \in Workers, \A v \in Workers \ {w} : worker'[v] = worker[v], NEW r \in Rows
    PROVE  /\ w \in MayStore(r) <=> Stores(w, r)
           /\ MayStore(r)' \subseteq MayStore(r) \cup {w}
           /\ Stores(w, r) => MayStore(r)' \subseteq MayStore(r)
           /\ ~Stores(w, r)' => MayStore(r)' \subseteq MayStore(r) \ {w} /\ MayStore(r)' \subseteq MayStore(r)
           /\ (/\ place'[r] = place[r] \/ place'[r] = "gone"
               /\ holder'[r] = holder[r] /\ submit'[BatchOf[r]] = submit[BatchOf[r]]
               /\ Carries(w, r) => Carries(w, r)' \/ holder[r] # w \/ place'[r] = "gone")
              => (ComesBack(r)' => ComesBack(r))
<1>1. /\ w \in MayStore(r) <=> Stores(w, r)
      /\ MayStore(r)' \subseteq MayStore(r) \cup {w}
      /\ Stores(w, r) => MayStore(r)' \subseteq MayStore(r)
      /\ ~Stores(w, r)' => MayStore(r)' \subseteq MayStore(r) \ {w} /\ MayStore(r)' \subseteq MayStore(r)
  BY DEF Stores, MayStore
<1>2. ASSUME place'[r] = place[r] \/ place'[r] = "gone",
             holder'[r] = holder[r], submit'[BatchOf[r]] = submit[BatchOf[r]],
             Carries(w, r) => Carries(w, r)' \/ holder[r] # w \/ place'[r] = "gone",
             ComesBack(r)'
      PROVE  ComesBack(r)
  BY <1>2 DEF ComesBack, Carries
<1> QED BY <1>1, <1>2

----------------------------------------------------------------------------
(* A step stores no more than a row's chances, unless it is a fault. *)
LEMMA PaidStep ==
    ASSUME TypeOK, TypeOK', HandsOK, HeldOK, HolderOK, PaidOK, [Next]_vars
    PROVE  PaidOK'
  <1> USE PipelineAssumption, QueueAssumption
      DEF TypeOK, QueueTypeOK, queueVars, dbVars, Carrying, WorkerPcs, MainPlaces, DlqPlaces
  <1>f. faults \in Nat
    OBVIOUS
  <1>a. ASSUME NoMore, faults' = faults \/ faults' = faults + 1 PROVE PaidOK'
    BY <1>a, <1>f, Unspent DEF NoMore
  <1>0. CASE UNCHANGED vars
    <2>1. \A r \in Rows : Same(r) /\ MayStore(r)' = MayStore(r) /\ ComesBack(r)' = ComesBack(r)
      BY <1>0 DEF vars, Same, MayStore, ComesBack, Carries
    <2>2. NoMore
      BY <2>1, Weighed DEF NoMore
    <2> QED BY <2>2, <1>0, <1>a DEF vars
  <1>1. ASSUME NEW b \in Batches, Submit(b) \/ CommitBatch(b) \/ AbortSubmit(b) PROVE PaidOK'
    <2>1. \A r \in Rows : Same(r) /\ MayStore(r)' = MayStore(r) /\ (ComesBack(r)' => ComesBack(r))
      BY <1>1 DEF Submit, CommitBatch, AbortSubmit, Same, MayStore, ComesBack, Carries
    <2>2. NoMore
      BY <2>1, Weighed DEF NoMore
    <2> QED BY <2>2, <1>1, <1>a DEF Submit, CommitBatch, AbortSubmit, Fault
  <1>2. ASSUME NEW b \in Batches, NEW U \in SUBSET Rows, FinishEnqueue(b, U) PROVE PaidOK'
    <2>1. ASSUME NEW r \in Rows
          PROVE  /\ MayStore(r)' = MayStore(r)
                 /\ r \notin U => \/ Same(r) /\ (ComesBack(r)' => ComesBack(r))
                                  \/ More(r) /\ ComesBack(r) /\ ~ComesBack(r)'
                 /\ r \in U => More(r) /\ (ComesBack(r)' => ComesBack(r))
      BY <1>2 DEF FinishEnqueue, RefusedRows, RowsOf, Same, More, MayStore, ComesBack, Carries
    <2>2. \A r \in Rows : Chances(r)' <= Chances(r) + (IF r \in U THEN 1 ELSE 0)
      <3>1. \A r \in Rows \ U : Chances(r)' <= Chances(r)
        BY <2>1, Weighed
      <3>2. \A r \in U : Chances(r)' <= Chances(r) + 1
        BY <2>1, WeighedFault
      <3> QED BY <3>1, <3>2, ChancesType DEF WeighedOK
    <2>3. faults' = faults + Cardinality(U)
      BY <1>2 DEF FinishEnqueue
    <2> QED BY <2>2, <2>3, SpentOn
  <1>3. ASSUME NEW a \in Rows, EnqueueRow(a) \/ RefuseRow(a) \/ DeadLetter(a) PROVE PaidOK'
    <2>1. \A r \in Rows : Same(r) /\ MayStore(r)' = MayStore(r) /\ (ComesBack(r)' => ComesBack(r))
      BY <1>3 DEF EnqueueRow, RefuseRow, DeadLetter, Send, Redrive, Same, MayStore, ComesBack, Carries
    <2>2. NoMore
      BY <2>1, Weighed DEF NoMore
    <2> QED BY <2>2, <1>3, <1>a DEF EnqueueRow, RefuseRow, DeadLetter
  <1>4. ASSUME NEW a \in Rows, Reappear(a) PROVE PaidOK'
    <2>1. \A r \in Rows : Same(r) /\ MayStore(r)' = MayStore(r) /\ (r # a /\ ComesBack(r)' => ComesBack(r))
      BY <1>4 DEF Reappear, Expire, Same, MayStore, ComesBack, Carries
    <2>2. CASE Held(a)
      <3>1. \A r \in Rows : Chances(r)' <= Chances(r) + (IF r = a THEN 1 ELSE 0)
        <4>1. \A r \in Rows \ {a} : Chances(r)' <= Chances(r)
          BY <2>1, Weighed
        <4>2. Chances(a)' <= Chances(a) + 1
          BY <2>1, WeighedFault
        <4> QED BY <4>1, <4>2, ChancesType DEF WeighedOK
      <3>2. faults' = faults + 1
        BY <1>4, <2>2 DEF Reappear, Fault
      <3> QED BY <3>1, <3>2, Spent
    <2>3. CASE ~Held(a)
      <3>1. ComesBack(a)
        BY <1>4, <2>3 DEF Reappear, Expire, Held, ComesBack, Carries
      <3>2. NoMore
        BY <2>1, <3>1, Weighed DEF NoMore
      <3> QED BY <3>2, <1>4, <2>3, <1>a DEF Reappear
    <2> QED BY <2>2, <2>3
  <1>5. ASSUME NEW q \in Requests, RequestStep(q) PROVE PaidOK'
    <2>1. UNCHANGED <<checks, failures, worker, submit, faults>>
      BY <1>5 DEF RequestStep, CancelBatch, DeleteOwner, SelectCancelled, PurgeReceive, PurgeDelete, EndPurge
    <2>2. \A r \in Rows : ComesBack(r)' => ComesBack(r)
      <3>1. ASSUME NEW S \in SUBSET Rows, PurgeReceive(q, S) PROVE \A r \in Rows : ComesBack(r)' => ComesBack(r)
        BY <3>1 DEF PurgeReceive, Receive, Deliverable, ComesBack, Carries
      <3>2. ASSUME NEW a \in Rows, PurgeDelete(q, a) PROVE \A r \in Rows : ComesBack(r)' => ComesBack(r)
        BY <3>2 DEF PurgeDelete, Delete, ComesBack, Carries
      <3>3. ASSUME UNCHANGED <<place, holder>> PROVE \A r \in Rows : ComesBack(r)' => ComesBack(r)
        BY <2>1, <3>3 DEF ComesBack, Carries
      <3> QED BY <1>5, <3>1, <3>2, <3>3, Zenon DEF RequestStep, CancelBatch, DeleteOwner, SelectCancelled, EndPurge
    <2>3. \A r \in Rows : Same(r) /\ MayStore(r)' = MayStore(r)
      BY <2>1 DEF Same, MayStore
    <2>4. NoMore
      BY <2>2, <2>3, Weighed DEF NoMore
    <2> QED BY <2>4, <2>1, <1>a
  <1>6. ASSUME NEW w \in Workers, NEW S \in SUBSET Rows, ReceiveRows(w, S) \/ ReceiveDlq(w, S) PROVE PaidOK'
    <2>1. /\ \A v \in Workers \ {w} : worker'[v] = worker[v]
          /\ worker'[w].hold = S /\ worker'[w].cur = NoRow /\ worker[w].hold = {} /\ worker[w].cur = NoRow
      <3>1. CASE ReceiveRows(w, S)
        BY <3>1 DEF ReceiveRows, HandsOK
      <3>2. CASE ReceiveDlq(w, S)
        BY <3>2 DEF ReceiveDlq
      <3> QED BY <3>1, <3>2, <1>6
    <2>2. /\ UNCHANGED <<checks, failures, submit, faults>>
          /\ \A r \in Rows \ S : place'[r] = place[r] /\ holder'[r] = holder[r]
          /\ \A r \in S : place[r] \in {"queue", "dlq"} /\ place'[r] \in {"hidden", "dlqHidden"} /\ holder'[r] = w
      BY <1>6 DEF ReceiveRows, ReceiveDlq, Receive, ReceiveDead, Deliverable, DeadLetters
    <2>3. ASSUME NEW r \in Rows PROVE Chances(r)' <= Chances(r)
      <3>0. Same(r)
        BY <2>2 DEF Same
      <3>1. CASE r \in S
        <4>1. ComesBack(r) /\ ~ComesBack(r)'
          BY <2>1, <2>2, <3>1 DEF ComesBack, Carries
        <4> QED BY <3>0, <4>1, <2>1, OneWorker, Weighed
      <3>2. CASE r \notin S
        <4>1. ~Stores(w, r)' /\ ~Carries(w, r)
          BY <2>1, <3>2 DEF Stores, Carries
        <4>2. ComesBack(r)' => ComesBack(r)
          BY <2>1, <2>2, <3>2, <4>1, OneWorker
        <4> QED BY <3>0, <4>1, <4>2, <2>1, OneWorker, Weighed
      <3> QED BY <3>1, <3>2
    <2> QED BY <2>2, <2>3, <1>a DEF NoMore
  <1>8. ASSUME NEW w \in Workers, NEW a \in Rows, ReadRow(w, a) PROVE PaidOK'
    <2>1. /\ \A v \in Workers \ {w} : worker'[v] = worker[v]
          /\ a \in worker[w].hold /\ worker'[w].hold = worker[w].hold \ {a} /\ worker'[w].cur = a
          /\ worker[w].cur = NoRow
          /\ UNCHANGED <<place, holder, checks, failures, submit, faults>>
      BY <1>8 DEF ReadRow
    <2>2. ASSUME NEW r \in Rows PROVE Chances(r)' <= Chances(r)
      <3>1. Same(r) /\ (Stores(w, r)' => Stores(w, r)) /\ (Carries(w, r) => Carries(w, r)')
        BY <2>1 DEF Same, Stores, Carries
      <3> QED BY <3>1, <2>1, OneWorker, Weighed
    <2> QED BY <2>1, <2>2, <1>a DEF NoMore
  <1>9. ASSUME NEW w \in Workers, NEW a \in Rows, RecordDlq(w, a) PROVE PaidOK'
    <2>1. /\ \A v \in Workers \ {w} : worker'[v] = worker[v]
          /\ a \in worker[w].hold /\ worker'[w].hold = worker[w].hold \ {a} /\ worker'[w].cur = a
          /\ worker'[w].pc = "dlqAck" /\ worker[w].cur = NoRow
          /\ UNCHANGED <<place, holder, checks, submit, faults>>
          /\ failures' = [failures EXCEPT ![a] = @ + 1]
      BY <1>9 DEF RecordDlq
    <2>2. ASSUME NEW r \in Rows PROVE Chances(r)' <= Chances(r)
      <3>1. Carries(w, r) => Carries(w, r)'
        BY <2>1 DEF Carries
      <3>2. CASE r = a
        <4>1. More(r) /\ Stores(w, r) /\ ~Stores(w, r)'
          BY <2>1, <3>2 DEF More, Stores
        <4> QED BY <3>1, <4>1, <2>1, OneWorker, Weighed
      <3>3. CASE r # a
        <4>1. Same(r) /\ (Stores(w, r)' => Stores(w, r))
          BY <2>1, <3>3 DEF Same, Stores
        <4> QED BY <3>1, <4>1, <2>1, OneWorker, Weighed
      <3> QED BY <3>2, <3>3
    <2> QED BY <2>1, <2>2, <1>a DEF NoMore
  <1>10. ASSUME NEW w \in Workers, StoreCheck(w) \/ StoreCancelled(w) PROVE PaidOK'
    <2> DEFINE a == worker[w].cur
    <2>1. /\ \A v \in Workers \ {w} : worker'[v] = worker[v]
          /\ worker'[w].hold = worker[w].hold /\ worker'[w].cur = worker[w].cur
          /\ worker'[w].pc = "ack" /\ worker[w].pc \in {"score", "refuse"} /\ a \in Rows /\ a \notin worker[w].hold
          /\ UNCHANGED <<place, holder, submit, faults>>
      <3>1. CASE StoreCheck(w)
        BY <3>1 DEF StoreCheck, HandsOK
      <3>2. CASE StoreCancelled(w)
        BY <3>2 DEF StoreCancelled, HandsOK
      <3> QED BY <3>1, <3>2, <1>10
    <2>2. More(a) /\ \A r \in Rows \ {a} : Same(r)
      <3>1. CASE StoreCheck(w)
        <4>1. checks' = [checks EXCEPT ![a] = @ + 1] /\ failures' = failures
          BY <3>1 DEF StoreCheck
        <4> HIDE DEF a
        <4> QED BY <4>1, <2>1 DEF More, Same
      <3>2. CASE StoreCancelled(w)
        <4>1. failures' = [failures EXCEPT ![a] = @ + 1] /\ checks' = checks
          BY <3>2 DEF StoreCancelled
        <4> HIDE DEF a
        <4> QED BY <4>1, <2>1 DEF More, Same
      <3> QED BY <3>1, <3>2, <1>10
    <2>3. ASSUME NEW r \in Rows PROVE Chances(r)' <= Chances(r)
      <3>1. Carries(w, r) => Carries(w, r)'
        BY <2>1 DEF Carries
      <3>2. CASE r = a
        <4>1. Stores(w, r) /\ ~Stores(w, r)'
          BY <2>1, <3>2 DEF Stores
        <4> QED BY <3>1, <3>2, <4>1, <2>1, <2>2, OneWorker, Weighed
      <3>3. CASE r # a
        <4>1. Stores(w, r)' => Stores(w, r)
          BY <2>1 DEF Stores
        <4> QED BY <3>1, <3>3, <4>1, <2>1, <2>2, OneWorker, Weighed
      <3> QED BY <3>2, <3>3
    <2> QED BY <2>1, <2>3, <1>a DEF NoMore
  <1>11. ASSUME NEW w \in Workers, RaiseRow(w) \/ BreakDrain(w) PROVE PaidOK'
    <2>1. /\ \A v \in Workers \ {w} : worker'[v] = worker[v]
          /\ worker'[w].hold \in {worker[w].hold, {}} /\ worker'[w].cur = NoRow
          /\ worker[w].pc \in {"score", "refuse", "dlq"}
          /\ UNCHANGED <<place, holder, checks, failures, submit>>
      <3>1. CASE RaiseRow(w)
        BY <3>1 DEF RaiseRow
      <3>2. CASE BreakDrain(w)
        BY <3>2 DEF BreakDrain
      <3> QED BY <3>1, <3>2, <1>11
    <2>2. faults' = faults \/ faults' = faults + 1
      BY <1>11 DEF RaiseRow, BreakDrain, Fault
    <2>3. ASSUME NEW r \in Rows PROVE Chances(r)' <= Chances(r)
      <3>1. Same(r) /\ (Stores(w, r)' => Stores(w, r))
        BY <2>1 DEF Same, Stores
      <3>2. Carries(w, r) => Stores(w, r)
        BY <2>1 DEF Carries, Stores
      <3>3. CASE Carries(w, r) => Carries(w, r)'
        BY <3>1, <3>3, <2>1, OneWorker, Weighed
      <3>4. CASE Carries(w, r) /\ ~Carries(w, r)'
        <4>1. ~Stores(w, r)'
          BY <3>4 DEF Carries, Stores
        <4> QED BY <3>1, <3>2, <3>4, <4>1, <2>1, OneWorker, Weighed
      <3> QED BY <3>3, <3>4
    <2> QED BY <2>2, <2>3, <1>a DEF NoMore
  <1>12. ASSUME NEW w \in Workers, AckRow(w) \/ AckDlq(w) PROVE PaidOK'
    <2> DEFINE a == worker[w].cur
    <2>1. /\ \A v \in Workers \ {w} : worker'[v] = worker[v]
          /\ worker'[w].hold = worker[w].hold /\ worker'[w].cur = NoRow /\ a \in Rows
          /\ UNCHANGED <<holder, checks, failures, submit, faults>>
          /\ \A r \in Rows \ {a} : place'[r] = place[r]
      <3>1. CASE AckRow(w)
        BY <3>1 DEF AckRow, Delete
      <3>2. CASE AckDlq(w)
        BY <3>2 DEF AckDlq, Delete
      <3> QED BY <3>1, <3>2, <1>12
    <2>2. (place'[a] = place[a] /\ holder[a] # w) \/ place'[a] = "gone"
      <3>1. Carries(w, a)
        BY DEF Carries
      <3>2. CASE AckRow(w)
        BY <3>1, <3>2, <2>1 DEF AckRow, Delete, HolderOK
      <3>3. CASE AckDlq(w)
        BY <3>1, <3>3, <2>1 DEF AckDlq, Delete, HolderOK
      <3> QED BY <3>2, <3>3, <1>12
    <2>3. ASSUME NEW r \in Rows PROVE Chances(r)' <= Chances(r)
      <3>1. Same(r) /\ (Stores(w, r)' => Stores(w, r))
        BY <2>1 DEF Same, Stores
      <3>2. /\ place'[r] = place[r] \/ place'[r] = "gone"
            /\ Carries(w, r) => Carries(w, r)' \/ holder[r] # w \/ place'[r] = "gone"
        BY <2>1, <2>2 DEF Carries
      <3> QED BY <3>1, <3>2, <2>1, OneWorker, Weighed
    <2> QED BY <2>1, <2>3, <1>a DEF NoMore
  <1>13. ASSUME NEW w \in Workers, RaiseAfterStore(w) \/ CrashWorker(w) PROVE PaidOK'
    <2> DEFINE a == worker[w].cur
    <2>1. /\ \A v \in Workers \ {w} : worker'[v] = worker[v]
          /\ worker'[w].hold \in {worker[w].hold, {}} /\ worker'[w].cur = NoRow
          /\ UNCHANGED <<place, holder, checks, failures, submit>>
      <3>1. CASE RaiseAfterStore(w)
        BY <3>1 DEF RaiseAfterStore
      <3>2. CASE CrashWorker(w)
        BY <3>2 DEF CrashWorker
      <3> QED BY <3>1, <3>2, <1>13
    <2>2. faults' = faults + 1
      BY <1>13 DEF RaiseAfterStore, CrashWorker, Fault
    <2>3. ASSUME NEW r \in Rows PROVE Same(r) /\ MayStore(r)' \subseteq MayStore(r)
      <3>1. Stores(w, r)' => Stores(w, r)
        BY <2>1 DEF Stores
      <3> QED BY <3>1, <2>1, OneWorker DEF Same
    <2>4. ASSUME NEW r \in Rows, r # a PROVE Chances(r)' <= Chances(r)
      <3>1. Carries(w, r) => Stores(w, r)
        BY <2>4 DEF Carries, Stores
      <3>2. CASE Carries(w, r) => Carries(w, r)'
        BY <2>3, <3>2, <2>1, OneWorker, Weighed
      <3>3. CASE Carries(w, r) /\ ~Carries(w, r)'
        <4>1. ~Stores(w, r)'
          BY <3>3 DEF Carries, Stores
        <4> QED BY <2>3, <3>1, <3>3, <4>1, <2>1, OneWorker, Weighed
      <3> QED BY <3>2, <3>3
    <2>5. CASE a \in Rows
      <3>1. \A r \in Rows : Chances(r)' <= Chances(r) + (IF r = a THEN 1 ELSE 0)
        BY <2>3, <2>4, WeighedFault, ChancesType, ChancesTypeNext DEF WeighedOK
      <3> HIDE DEF a
      <3> QED BY <3>1, <2>2, <2>5, Spent
    <2>6. CASE a \notin Rows
      BY <2>4, <2>6, <2>2, <1>a DEF NoMore
    <2> QED BY <2>5, <2>6
  <1> QED BY <1>0, <1>1, <1>2, <1>3, <1>4, <1>5, <1>6, <1>8, <1>9, <1>10, <1>11, <1>12, <1>13, Zenon
          DEF Next, CreateBatch, SendRow, QueueStep, WorkerStep, WorkerFault

----------------------------------------------------------------------------
LEMMA CInit == Init => CInv
  <1> SUFFICES ASSUME Init PROVE CInv
    OBVIOUS
  <1>1. TypeOK /\ HeldOK
    BY InitType, InitInv DEF IInv
  <1>2. HandsOK /\ HolderOK
    BY PipelineAssumption, QueueAssumption DEF Init, QueueInit, HandsOK, HolderOK, Carries
  <1>3. PaidOK
    <2>1. ASSUME NEW r \in Rows PROVE Extra[r] = 0
      <3>1. MayStore(r) = {}
        BY <2>1, PipelineAssumption DEF Init, MayStore
      <3>2. Cardinality(MayStore(r)) = 0
        BY <3>1, FS_EmptySet
      <3>3. checks[r] = 0 /\ failures[r] = 0
        BY DEF Init
      <3>4. Chances(r) = 0 + 0 + 0 + (IF ComesBack(r) THEN 1 ELSE 0)
        BY <3>2, <3>3 DEF Chances
      <3> QED BY <3>4 DEF Extra
    <2>2. SumFunctionOnSet(Extra, Rows) = 0
      BY <2>1, QueueAssumption, SumZero
    <2> QED BY <2>2 DEF Init, PaidOK
  <1> QED BY <1>1, <1>2, <1>3 DEF CInv

(* Every check or failure a row has, or may still get, beyond one was paid   *)
(* for by a fault: a crash, a lost acknowledgement or a duplicate delivery.  *)
THEOREM EveryExtraIsPaidFor == Spec => []CInv
  <1>1. Init => CInv
    BY CInit
  <1>2. CInv /\ TypeOK' /\ HeldOK' /\ [Next]_vars => CInv'
    BY HandsStep, HolderStep, PaidStep DEF CInv
  <1>3. IInv => TypeOK /\ HeldOK
    BY DEF IInv
  <1> QED BY <1>1, <1>2, <1>3, Invariance, PTL DEF Spec

(* So what is stored of some rows exceeds their number by the faults at      *)
(* most.                                                                     *)
LEMMA StoredAtMost ==
    ASSUME CInv, NEW R \in SUBSET Rows
    PROVE  SumFunctionOnSet(checks, R) + SumFunctionOnSet(failures, R) <= Cardinality(R) + faults
<1> DEFINE one == [r \in Rows |-> 1]
<1>1. IsFiniteSet(R) /\ IsFiniteSet(Rows)
  BY QueueAssumption, FS_Subset
<1>2. \A r \in Rows : /\ checks[r] \in Int /\ failures[r] \in Int /\ one[r] \in Int /\ Extra[r] \in Nat
                      /\ checks[r] + failures[r] <= one[r] + Extra[r]
  <2> TAKE r \in Rows
  <2>1. /\ checks[r] \in Nat /\ failures[r] \in Nat /\ Cardinality(MayStore(r)) \in Nat
        /\ Extra[r] = IF Chances(r) > 1 THEN Chances(r) - 1 ELSE 0
        /\ Chances(r) \in Nat
    BY ChancesType DEF CInv, WeighedOK
  <2>2. checks[r] + failures[r] <= Chances(r)
    BY <2>1 DEF Chances
  <2> QED BY <2>1, <2>2
<1>3. SumFunctionOnSet(one, R) = Cardinality(R)
  BY <1>1, SumOnes
<1> HIDE DEF one
<1>4. SumFunctionOnSet(checks, R) + SumFunctionOnSet(failures, R)
          <= SumFunctionOnSet(one, R) + SumFunctionOnSet(Extra, R)
  BY <1>1, <1>2, SumLeq
<1>5. SumFunctionOnSet(Extra, R) <= SumFunctionOnSet(Extra, Rows)
  BY <1>1, <1>2, SumFewer
<1>6. /\ SumFunctionOnSet(checks, R) \in Int /\ SumFunctionOnSet(failures, R) \in Int
      /\ SumFunctionOnSet(Extra, R) \in Int /\ SumFunctionOnSet(Extra, Rows) \in Int
      /\ Cardinality(R) \in Nat /\ faults \in Nat
  <2>1. \A f : (\A r \in R : f[r] \in Int) => SumFunctionOnSet(f, R) \in Int
    BY <1>1, SumInt
  <2>2. SumFunctionOnSet(Extra, Rows) \in Int
    BY <1>1, <1>2, SumInt
  <2> QED BY <2>1, <2>2, <1>1, <1>2, FS_CardinalityType, PipelineAssumption DEF CInv, TypeOK
<1> QED BY <1>3, <1>4, <1>5, <1>6 DEF CInv, PaidOK

(* The counts of get_batch_progress exceed row_total by no more than the     *)
(* faults there have been, however many rows, Workers and batches there are. *)
THEOREM OvershootTheorem == Spec => []OvershootBounded
  <1>1. CInv => OvershootBounded
    <2> SUFFICES ASSUME CInv, NEW b \in Batches PROVE Completed(b) + Failed(b) <= RowTotal(b) + faults
      BY DEF OvershootBounded
    <2>1. RowsOf(b) \in SUBSET Rows
      BY DEF RowsOf
    <2>2. SumFunctionOnSet(checks, RowsOf(b)) + SumFunctionOnSet(failures, RowsOf(b))
              <= Cardinality(RowsOf(b)) + faults
      BY <2>1, StoredAtMost
    <2>3. /\ SumFunctionOnSet(checks, RowsOf(b)) \in Int /\ SumFunctionOnSet(failures, RowsOf(b)) \in Int
          /\ Cardinality(RowsOf(b)) \in Nat /\ faults \in Nat /\ Rejected[b] \in Nat
      <3>1. IsFiniteSet(RowsOf(b)) /\ \A r \in RowsOf(b) : checks[r] \in Int /\ failures[r] \in Int
        BY <2>1, QueueAssumption, FS_Subset DEF CInv, TypeOK
      <3>2. SumFunctionOnSet(checks, RowsOf(b)) \in Int /\ SumFunctionOnSet(failures, RowsOf(b)) \in Int
        BY <3>1, SumInt
      <3>3. faults \in Nat /\ Rejected[b] \in Nat
        BY PipelineAssumption DEF CInv, TypeOK
      <3> QED BY <3>1, <3>2, <3>3, FS_CardinalityType
    <2> QED BY <2>2, <2>3 DEF Completed, Failed, RowTotal
  <1> QED BY <1>1, EveryExtraIsPaidFor, PTL

----------------------------------------------------------------------------
(* Without a fault, one row without an outcome keeps the counts below the    *)
(* total; and when every row has one, nothing does.                          *)
LEMMA OnceStored ==
    ASSUME CInv, faults = 0, NEW R \in SUBSET Rows, NEW a \in R, ~Resolved(a)
    PROVE  SumFunctionOnSet(checks, R) + SumFunctionOnSet(failures, R) < Cardinality(R)
<1> DEFINE V == R \ {a}
<1>1. IsFiniteSet(R) /\ \A r \in R : checks[r] \in Int /\ failures[r] \in Int
  BY QueueAssumption, FS_Subset DEF CInv, TypeOK
<1>2. checks[a] = 0 /\ failures[a] = 0
  BY DEF CInv, TypeOK, Resolved
<1>3. /\ SumFunctionOnSet(checks, R) = 0 + SumFunctionOnSet(checks, V)
      /\ SumFunctionOnSet(failures, R) = 0 + SumFunctionOnSet(failures, V)
  BY <1>1, <1>2, SumRemove
<1>4. SumFunctionOnSet(checks, V) + SumFunctionOnSet(failures, V) <= Cardinality(V) + 0
  <2>1. V \in SUBSET Rows
    OBVIOUS
  <2> HIDE DEF V
  <2> QED BY <2>1, StoredAtMost
<1>5. Cardinality(V) = Cardinality(R) - 1 /\ Cardinality(R) \in Nat
  BY <1>1, FS_RemoveElement, FS_CardinalityType
<1>6. SumFunctionOnSet(checks, V) \in Int /\ SumFunctionOnSet(failures, V) \in Int
  <2>1. IsFiniteSet(V) /\ \A r \in V : checks[r] \in Int /\ failures[r] \in Int
    BY <1>1, FS_Subset
  <2> HIDE DEF V
  <2> QED BY <2>1, SumInt
<1> HIDE DEF V
<1> QED BY <1>3, <1>4, <1>5, <1>6

LEMMA AllStored ==
    ASSUME TypeOK, NEW R \in SUBSET Rows, \A r \in R : Resolved(r)
    PROVE  SumFunctionOnSet(checks, R) + SumFunctionOnSet(failures, R) >= Cardinality(R)
<1> DEFINE one == [r \in R |-> 1]
           zero == [r \in R |-> 0]
<1>1. IsFiniteSet(R)
  BY QueueAssumption, FS_Subset
<1>2. SumFunctionOnSet(one, R) = Cardinality(R) /\ SumFunctionOnSet(zero, R) = 0
  BY <1>1, SumOnes, SumZero
<1>3. \A r \in R : /\ one[r] \in Int /\ zero[r] \in Int /\ checks[r] \in Int /\ failures[r] \in Int
                   /\ one[r] + zero[r] <= checks[r] + failures[r]
  BY DEF TypeOK, Resolved
<1> HIDE DEF one, zero
<1>4. SumFunctionOnSet(one, R) + SumFunctionOnSet(zero, R)
          <= SumFunctionOnSet(checks, R) + SumFunctionOnSet(failures, R)
  BY <1>1, <1>3, SumLeq
<1>5. Cardinality(R) \in Nat /\ SumFunctionOnSet(checks, R) \in Int /\ SumFunctionOnSet(failures, R) \in Int
  BY <1>1, <1>3, SumInt, FS_CardinalityType
<1> QED BY <1>2, <1>4, <1>5

(* Deleting a user cancels, in the same commit, every batch with a row still *)
(* to come, and no finished one. delete_user asks the counts, not the rows;  *)
(* they are as good while there was no fault.                                *)
THEOREM DeleteCancelsTheorem == Spec => DeleteCancelsTheUnfinished
  <1> DEFINE Good ==
        \A b \in Batches :
          (live[OwnerOf[b]] /\ ~live'[OwnerOf[b]] /\ Committed(b)) =>
              /\ (faults = 0 /\ \E r \in RowsOf(b) : ~Resolved(r)) => cancelled'[b]
              /\ (\A r \in RowsOf(b) : Resolved(r)) => cancelled'[b] = cancelled[b]
  <1>1. CInv /\ [Next]_vars => Good
    <2> SUFFICES ASSUME CInv, [Next]_vars, NEW b \in Batches,
                        live[OwnerOf[b]], ~live'[OwnerOf[b]], Committed(b)
                 PROVE  /\ (faults = 0 /\ \E r \in RowsOf(b) : ~Resolved(r)) => cancelled'[b]
                        /\ (\A r \in RowsOf(b) : Resolved(r)) => cancelled'[b] = cancelled[b]
      OBVIOUS
    <2>1. PICK q \in Requests, u \in Users : DeleteOwner(q, u)
      BY Zenon DEF Next, vars, dbVars, CreateBatch, SendRow, QueueStep, RequestStep, WorkerStep, WorkerFault,
        Submit, CommitBatch, FinishEnqueue, AbortSubmit, EnqueueRow, RefuseRow, Reappear, DeadLetter,
        CancelBatch, SelectCancelled, PurgeReceive, PurgeDelete, EndPurge,
        ReceiveRows, ReceiveDlq, ReadRow, RecordDlq, StoreCheck, StoreCancelled, RaiseRow, AckRow, AckDlq,
        RaiseAfterStore, BreakDrain, CrashWorker
    <2>2. OwnerOf[b] = u /\ cancelled'[b] = (cancelled[b] \/ Unfinished(b))
      <3>1. live' = [live EXCEPT ![u] = FALSE]
            /\ cancelled' = [c \in Batches |-> cancelled[c] \/ (OwnerOf[c] = u /\ Unfinished(c))]
        BY <2>1 DEF DeleteOwner
      <3>2. OwnerOf[b] = u
        BY <3>1, PipelineAssumption DEF CInv, TypeOK
      <3> QED BY <3>1, <3>2, Zenon
    <2>3. RowsOf(b) \in SUBSET Rows
      BY DEF RowsOf
    <2>4. /\ SumFunctionOnSet(checks, RowsOf(b)) \in Int /\ SumFunctionOnSet(failures, RowsOf(b)) \in Int
          /\ Cardinality(RowsOf(b)) \in Nat /\ Rejected[b] \in Nat
      <3>1. IsFiniteSet(RowsOf(b)) /\ \A r \in RowsOf(b) : checks[r] \in Int /\ failures[r] \in Int
        BY <2>3, QueueAssumption, FS_Subset DEF CInv, TypeOK
      <3> QED BY <3>1, SumInt, FS_CardinalityType, PipelineAssumption
    <2>5. ASSUME faults = 0, NEW r \in RowsOf(b), ~Resolved(r) PROVE cancelled'[b]
      <3>1. SumFunctionOnSet(checks, RowsOf(b)) + SumFunctionOnSet(failures, RowsOf(b)) < Cardinality(RowsOf(b))
        BY <2>5, <2>3, OnceStored
      <3>2. RowTotal(b) > Completed(b) + Failed(b)
        BY <3>1, <2>4 DEF RowTotal, Completed, Failed
      <3> QED BY <3>2, <2>2, Zenon DEF Unfinished
    <2>6. ASSUME \A r \in RowsOf(b) : Resolved(r) PROVE cancelled'[b] = cancelled[b]
      <3>1. SumFunctionOnSet(checks, RowsOf(b)) + SumFunctionOnSet(failures, RowsOf(b)) >= Cardinality(RowsOf(b))
        BY <2>6, <2>3, AllStored DEF CInv
      <3>2. ~(RowTotal(b) > Completed(b) + Failed(b))
        BY <3>1, <2>4 DEF RowTotal, Completed, Failed
      <3>3. cancelled[b] \in BOOLEAN
        BY DEF CInv, TypeOK
      <3> QED BY <3>2, <3>3, <2>2, Zenon DEF Unfinished
    <2> QED BY <2>5, <2>6, Zenon
  <1> QED BY <1>1, EveryExtraIsPaidFor, PTL DEF Spec, DeleteCancelsTheUnfinished
=============================================================================
