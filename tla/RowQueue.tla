------------------------------ MODULE RowQueue ------------------------------
(* The batches queue and its dead-letter queue as the API and the Worker see *)
(* them: Amazon SQS standard queues with a visibility timeout, a receive     *)
(* count and a redrive policy.  SQS itself is external; what is modelled is  *)
(* what the callers in api/app/services/aws_clients.py and                   *)
(* worker/worker/main.py rely on.                                            *)
(*                                                                           *)
(* create_batch sends one message per CSV row, so a message is identified    *)
(* with its row.  A standard queue keeps no order: a receive may return any  *)
(* visible messages.                                                         *)
EXTENDS Naturals, FiniteSets

CONSTANTS Rows,        \* the valid CSV rows, over all batches
          Receivers,   \* whoever calls receive_message: workers and API requests
          NoOne,       \* no receiver
          MaxReceive,  \* maxReceiveCount of the redrive policy
          PageMax      \* MaxNumberOfMessages of one receive

ASSUME QueueAssumption ==
    /\ IsFiniteSet(Rows)
    /\ MaxReceive \in Nat \ {0}
    /\ PageMax \in Nat \ {0}
    /\ NoOne \notin Receivers

VARIABLES place,     \* where the row's message is
          receives,  \* its ApproximateReceiveCount on the main queue
          holder     \* the receiver whose receipt handle is the latest one

queueVars == <<place, receives, holder>>

MainPlaces == {"queue", "hidden"}
DlqPlaces == {"dlq", "dlqHidden"}
Places == {"unsent", "refused", "gone"} \cup MainPlaces \cup DlqPlaces

QueueTypeOK ==
    /\ place \in [Rows -> Places]
    /\ receives \in [Rows -> 0 .. MaxReceive]
    /\ holder \in [Rows -> Receivers \cup {NoOne}]

QueueInit ==
    /\ place = [r \in Rows |-> "unsent"]
    /\ receives = [r \in Rows |-> 0]
    /\ holder = [r \in Rows |-> NoOne]

(* Messages a receive on the main queue may return. *)
Deliverable == {r \in Rows : place[r] = "queue" /\ receives[r] < MaxReceive}

(* Messages a receive on the dead-letter queue may return. *)
DeadLetters == {r \in Rows : place[r] = "dlq"}

Send(r) ==
    /\ place' = [place EXCEPT ![r] = "queue"]
    /\ UNCHANGED <<receives, holder>>

(* receive_message: the messages S become invisible, each is counted. *)
Receive(who, S) ==
    /\ S \subseteq Deliverable
    /\ Cardinality(S) <= PageMax
    /\ place' = [r \in Rows |-> IF r \in S THEN "hidden" ELSE place[r]]
    /\ receives' = [r \in Rows |-> IF r \in S THEN receives[r] + 1 ELSE receives[r]]
    /\ holder' = [r \in Rows |-> IF r \in S THEN who ELSE holder[r]]

ReceiveDead(who, S) ==
    /\ S \subseteq DeadLetters
    /\ Cardinality(S) <= PageMax
    /\ place' = [r \in Rows |-> IF r \in S THEN "dlqHidden" ELSE place[r]]
    /\ holder' = [r \in Rows |-> IF r \in S THEN who ELSE holder[r]]
    /\ UNCHANGED receives

(* delete_message on the queue whose places are Q.  The latest receipt       *)
(* handle deletes the message; an older one may or may not, and a message    *)
(* that has left the queue is not affected.                                  *)
Delete(who, r, Q) ==
    /\ UNCHANGED <<receives, holder>>
    /\ \/ /\ place[r] \in Q
          /\ place' = [place EXCEPT ![r] = "gone"]
       \/ /\ place[r] \notin Q \/ holder[r] # who
          /\ UNCHANGED place

(* The visibility timeout of a received message ends. *)
Expire(r) ==
    /\ place[r] \in {"hidden", "dlqHidden"}
    /\ place' = [place EXCEPT ![r] = IF @ = "hidden" THEN "queue" ELSE "dlq"]
    /\ UNCHANGED <<receives, holder>>

(* The redrive policy: a message received maxReceiveCount times and visible  *)
(* again goes to the dead-letter queue instead of to the next receiver.      *)
Redrive(r) ==
    /\ place[r] = "queue"
    /\ receives[r] >= MaxReceive
    /\ place' = [place EXCEPT ![r] = "dlq"]
    /\ holder' = [holder EXCEPT ![r] = NoOne]
    /\ UNCHANGED receives
=============================================================================
