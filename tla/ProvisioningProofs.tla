------------------------- MODULE ProvisioningProofs -------------------------
(* Proofs about Provisioning, for any number of requests and invitations and *)
(* all faults.  Both results rest on who holds which credential: an          *)
(* invitation between Auth0 and its commit belongs to one request and to no  *)
(* row, so a commit gives the row a credential that no account ever had.     *)
EXTENDS Provisioning, TLAPS

(* Request q holds an invitation it has not committed. *)
Holds(q) == req[q].pc \in {"email", "commit"}

HeldAlone ==
    /\ \A q \in Requests : Holds(q) =>
          /\ req[q].sub \in spent \ buried
          /\ \A r \in Rows : account[r].sub # req[q].sub
    /\ \A p, q \in Requests : Holds(p) /\ Holds(q) /\ req[p].sub = req[q].sub => p = q

(* Rows and history know only ids that Auth0 gave out. *)
KnownIds ==
    /\ buried \subseteq spent
    /\ \A r \in Rows : account[r].sub \in spent \cup {NoCredential}

IInv == TypeOK /\ HeldAlone /\ KnownIds /\ OneLiveAccount /\ ClosedStaysClosed

LEMMA RowsArePositive == 0 \notin Rows
BY ProvisioningAssumption DEF Rows

LEMMA Counters == 0 \in 0 .. Attempts /\ 1 \in 0 .. Attempts /\ 0 \in 0 .. Settling
BY SettlingAssumption

LEMMA InitInv == Init => IInv
<1> SUFFICES ASSUME Init PROVE IInv
  OBVIOUS
<1>1. \A q \in Requests : req[q] = Idle
  BY DEF Init
<1>2. \A r \in Rows : account[r] = [status |-> "none", sub |-> NoCredential]
  BY DEF Init
<1>3. TypeOK
  BY <1>1, <1>2, Counters DEF Init, TypeOK, Idle, Pcs
<1>4. HeldAlone /\ OneLiveAccount
  BY <1>1, <1>2 DEF HeldAlone, OneLiveAccount, Holds, Live, Idle
<1>5. KnownIds /\ ClosedStaysClosed
  BY <1>2 DEF Init, KnownIds, ClosedStaysClosed, Live
<1>6. QED
  BY <1>3, <1>4, <1>5 DEF IInv

----------------------------------------------------------------------------
(* Steps that leave the rows and the ids alone *)

(* Request q moves on without taking an invitation. *)
LEMMA CallStep ==
    ASSUME IInv, NEW q \in Requests, TypeOK', UNCHANGED <<account, spent, buried>>,
           \A p \in Requests \ {q} : req'[p] = req[p],
           Holds(q)' => Holds(q) /\ req'[q].sub = req[q].sub
    PROVE  IInv'
<1>1. \A p \in Requests : Holds(p)' => Holds(p) /\ req'[p].sub = req[p].sub
  BY DEF Holds
<1>2. HeldAlone'
  BY <1>1 DEF HeldAlone, IInv
<1>3. QED
  BY <1>2 DEF IInv, KnownIds, OneLiveAccount, ClosedStaysClosed, Live

(* Auth0 gives out a new id, to q or to a request that never learns of it.   *)
LEMMA IssueStep ==
    ASSUME IInv, NEW q \in Requests, TypeOK', UNCHANGED <<account, buried>>,
           NEW c \in Credentials \ spent, spent' = spent \cup {c},
           \A p \in Requests \ {q} : req'[p] = req[p],
           Holds(q)' => req'[q].sub = c
    PROVE  IInv'
<1>1. \A p \in Requests \ {q} : (Holds(p)' <=> Holds(p)) /\ req'[p].sub = req[p].sub
  BY DEF Holds
<1>2. \A r \in Rows : account[r].sub # c
  BY ProvisioningAssumption DEF IInv, KnownIds
<1>3. c \notin buried
  BY DEF IInv, KnownIds
<1>4. HeldAlone'
  <2>1. \A p \in Requests \ {q} : Holds(p) => req[p].sub # c
    BY DEF HeldAlone, IInv
  <2>2. ASSUME NEW p \in Requests, Holds(p)'
        PROVE  req'[p].sub \in spent' \ buried' /\ \A r \in Rows : account'[r].sub # req'[p].sub
    <3>1. CASE p = q
      BY <2>2, <3>1, <1>2, <1>3
    <3>2. CASE p # q
      BY <2>2, <3>2, <1>1 DEF HeldAlone, IInv
    <3>3. QED
      BY <3>1, <3>2
  <2>3. ASSUME NEW p \in Requests, NEW b \in Requests, Holds(p)', Holds(b)', req'[p].sub = req'[b].sub
        PROVE  p = b
    BY <2>1, <2>3, <1>1 DEF HeldAlone, IInv
  <2>4. QED
    BY <2>2, <2>3 DEF HeldAlone
<1>5. QED
  BY <1>4 DEF IInv, KnownIds, OneLiveAccount, ClosedStaysClosed, Live

(* q's commit writes the row, and q lets its invitation go. *)
LEMMA WriteStep ==
    ASSUME IInv, NEW q \in Requests, TypeOK', UNCHANGED <<spent, buried>>,
           Holds(q), Unique(q), Written(q),
           \A p \in Requests \ {q} : req'[p] = req[p],
           ~Holds(q)'
    PROVE  IInv'
<1>1. PICK r \in Target(q) : account' = [account EXCEPT ![r] = [status |-> "live", sub |-> req[q].sub]]
  BY DEF Written
<1>2. r \in Rows
  BY DEF Target, IInv, TypeOK
<1>3. \A b \in Rows : account'[b] = IF b = r THEN [status |-> "live", sub |-> req[q].sub] ELSE account[b]
  BY <1>1, <1>2 DEF IInv, TypeOK
<1>4. \A b \in Rows : Live(b) => b = r
  BY <1>2, RowsArePositive DEF Unique, Target
<1>5. OneLiveAccount'
  BY <1>3, <1>4 DEF OneLiveAccount, Live
<1>6. req[q].sub \in spent \ buried
  BY DEF HeldAlone, IInv
<1>7. ClosedStaysClosed'
  BY <1>3, <1>6 DEF ClosedStaysClosed, IInv, Live
<1>8. KnownIds'
  BY <1>3, <1>6 DEF KnownIds, IInv
<1>9. HeldAlone'
  <2>1. \A p \in Requests : Holds(p)' => p # q /\ Holds(p) /\ req'[p].sub = req[p].sub
    BY DEF Holds
  <2>2. \A p \in Requests : Holds(p)' => req[p].sub # req[q].sub
    BY <2>1 DEF HeldAlone, IInv
  <2>3. QED
    BY <2>1, <2>2, <1>3 DEF HeldAlone, IInv
<1>10. QED
  BY <1>5, <1>7, <1>8, <1>9 DEF IInv

LEMMA DeleteStep ==
    ASSUME IInv, NEW q \in Requests, NEW r \in Rows, TypeOK', MarkDeleted(q, r)
    PROVE  IInv'
<1>1. \A b \in Rows : account'[b] = IF b = r THEN [account[r] EXCEPT !.status = "deleted"] ELSE account[b]
  BY DEF MarkDeleted, IInv, TypeOK
<1>2. \A b \in Rows : account'[b].sub = account[b].sub
  BY <1>1 DEF IInv, TypeOK
<1>3. \A b \in Rows : ~Live(b)'
  BY <1>1 DEF IInv, TypeOK, OneLiveAccount, Live, MarkDeleted
<1>4. buried' = buried \cup ({account[r].sub} \ {NoCredential}) /\ spent' = spent
  BY DEF MarkDeleted
<1>5. \A p \in Requests : Holds(p)' => Holds(p) /\ req'[p] = req[p]
  BY DEF MarkDeleted, Holds, IInv, TypeOK
<1>6. HeldAlone'
  BY <1>2, <1>4, <1>5 DEF HeldAlone, IInv
<1>7. KnownIds'
  BY <1>2, <1>4 DEF KnownIds, IInv
<1>8. QED
  BY <1>3, <1>6, <1>7 DEF IInv, OneLiveAccount, ClosedStaysClosed

LEMMA ClearStep ==
    ASSUME IInv, NEW q \in Requests, TypeOK', ClearSub(q)
    PROVE  IInv'
<1>1. \A b \in Rows : account'[b] = account[b] \/ (account'[b].sub = NoCredential /\ account'[b].status = account[b].status)
  BY DEF ClearSub, IInv, TypeOK
<1>2. UNCHANGED <<spent, buried>>
  BY DEF ClearSub, History
<1>3. NoCredential \notin spent /\ NoCredential \notin buried
  BY ProvisioningAssumption DEF IInv, TypeOK
<1>4. \A p \in Requests : Holds(p)' => Holds(p) /\ req'[p] = req[p]
  BY DEF ClearSub, Ends, Idle, Holds, IInv, TypeOK
<1>5. HeldAlone'
  BY <1>1, <1>2, <1>3, <1>4 DEF HeldAlone, IInv
<1>6. KnownIds' /\ OneLiveAccount' /\ ClosedStaysClosed'
  BY <1>1, <1>2, <1>3 DEF KnownIds, OneLiveAccount, ClosedStaysClosed, Live, IInv
<1>7. QED
  BY <1>5, <1>6 DEF IInv

----------------------------------------------------------------------------
(* Types *)

ReqTypes == [Requests -> [pc : Pcs, row : Rows \cup {0}, sub : Credentials \cup {NoCredential}, tries : 0 .. Attempts]]

LEMMA AtTyped ==
    ASSUME req \in ReqTypes, NEW q \in Requests, NEW pc \in Pcs, NEW n \in Rows \cup {0}
    PROVE  [req EXCEPT ![q].pc = pc, ![q].row = n] \in ReqTypes
BY DEF ReqTypes

LEMMA CarryTyped ==
    ASSUME req \in ReqTypes, NEW q \in Requests, NEW pc \in Pcs, NEW c \in Credentials \cup {NoCredential}
    PROVE  [req EXCEPT ![q].pc = pc, ![q].sub = c] \in ReqTypes
BY DEF ReqTypes

LEMMA TryTyped ==
    ASSUME req \in ReqTypes, NEW q \in Requests, NEW pc \in Pcs, NEW k \in 0 .. Attempts
    PROVE  /\ [req EXCEPT ![q].pc = pc, ![q].tries = k] \in ReqTypes
           /\ [req EXCEPT ![q].tries = k] \in ReqTypes
BY DEF ReqTypes

LEMMA CarryTryTyped ==
    ASSUME req \in ReqTypes, NEW q \in Requests, NEW pc \in Pcs, NEW c \in Credentials \cup {NoCredential},
           NEW k \in 0 .. Attempts
    PROVE  [req EXCEPT ![q].pc = pc, ![q].sub = c, ![q].tries = k] \in ReqTypes
BY DEF ReqTypes

LEMMA ProvisionTyped ==
    ASSUME TypeOK, NEW q \in Requests,
           \/ ReadRows(q) \/ FindStale(q) \/ Replace(q) \/ Invite(q) \/ InviteAgain(q) \/ InviteRefused(q) \/ SendInvite(q)
           \/ CommitRow(q) \/ CommitFails(q) \/ Undo(q)
    PROVE  TypeOK'
<1> USE ProvisioningAssumption, Counters, RowsArePositive DEF TypeOK, Goes, Asks, Ends, Idle, Without, Removes, History, Pcs
<1>1. CASE ReadRows(q)
  <2>1. NewestRow \subseteq Rows \cup {0}
    BY DEF NewestRow
  <2>2. PICK n \in Rows \cup {0} : req' = [req EXCEPT ![q].pc = "find", ![q].row = n]
    BY <2>1, <1>1 DEF ReadRows, Begins
  <2>3. req' \in ReqTypes
    BY <2>2, AtTyped DEF ReqTypes
  <2>4. req'[q].pc = "find" /\ \A p \in Requests : p # q => req'[p] = req[p]
    BY <2>2
  <2>5. UNCHANGED <<account, credential, settling, spent, buried>> /\ damaged' = damaged /\ raced' \in BOOLEAN
    BY <1>1 DEF ReadRows, Begins
  <2>6. QED
    BY <2>3, <2>4, <2>5 DEF ReqTypes
<1>2. CASE FindStale(q)
  <2>1. UNCHANGED <<account, credential, settling, spent, buried, damaged, raced>>
    BY <1>2 DEF FindStale
  <2>2. CASE Asks(q)
    <3>1. req' \in ReqTypes
      BY <2>2, TryTyped DEF ReqTypes
    <3>2. req'[q].pc = "invite" /\ \A p \in Requests : p # q => req'[p] = req[p]
      BY <2>2
    <3> QED BY <2>1, <3>1, <3>2 DEF ReqTypes
  <2>3. CASE credential # NoCredential /\ req' = [req EXCEPT ![q].pc = "replace", ![q].sub = credential]
    <3>1. req' \in ReqTypes
      BY <2>3, CarryTyped DEF ReqTypes
    <3>2. req'[q].pc = "replace" /\ req'[q].sub # NoCredential /\ \A p \in Requests : p # q => req'[p] = req[p]
      BY <2>3
    <3> QED BY <2>1, <3>1, <3>2 DEF ReqTypes
  <2> QED BY <1>2, <2>2, <2>3 DEF FindStale
<1>3. CASE Replace(q)
  <2>1. UNCHANGED <<account, spent, buried, damaged, raced>>
    BY <1>3 DEF Replace
  <2>2. credential' \in Credentials \cup {NoCredential} /\ settling' \in 0 .. Settling
    BY <1>3 DEF Replace
  <2>3. req' \in ReqTypes
    BY <1>3, CarryTryTyped DEF Replace, ReqTypes
  <2>4. req'[q].pc = "invite" /\ \A p \in Requests : p # q => req'[p] = req[p]
    BY <1>3 DEF Replace
  <2> QED BY <2>1, <2>2, <2>3, <2>4 DEF ReqTypes
<1>4. CASE Invite(q)
  <2>1. PICK c \in Credentials \ spent : credential' = c /\ spent' = spent \cup {c} /\ req' = [req EXCEPT ![q].pc = "email", ![q].sub = c, ![q].tries = 0]
    BY <1>4 DEF Invite
  <2>2. c # NoCredential
    OBVIOUS
  <2>3. req' \in ReqTypes
    BY <2>1, CarryTryTyped DEF ReqTypes
  <2>4. \A p \in Requests : p # q => req'[p] = req[p]
    BY <2>1
  <2>5. req'[q].pc = "email" /\ req'[q].sub = c
    BY <2>1
  <2>6. UNCHANGED <<account, settling, buried, damaged, raced>>
    BY <1>4 DEF Invite
  <2>7. QED
    BY <2>1, <2>2, <2>3, <2>4, <2>5, <2>6 DEF ReqTypes
<1>5. CASE InviteRefused(q)
  BY <1>5 DEF InviteRefused, Refused
<1>6. CASE SendInvite(q)
  BY <1>6 DEF SendInvite
<1>7. CASE CommitRow(q)
  BY <1>7 DEF CommitRow, Written, Target
<1>8. CASE CommitFails(q)
  BY <1>8 DEF CommitFails
<1>9. CASE Undo(q)
  BY <1>9 DEF Undo
<1>11. CASE InviteAgain(q)
  <2>1. UNCHANGED <<account, credential, spent, buried, damaged, raced>>
    BY <1>11 DEF InviteAgain
  <2>2. settling' \in 0 .. Settling
    <3>1. settling' = IF settling = 0 THEN 0 ELSE settling - 1
      BY <1>11 DEF InviteAgain
    <3>2. settling \in 0 .. Settling
      OBVIOUS
    <3> HIDE DEF TypeOK
    <3>3. QED
      BY <3>1, <3>2, SettlingAssumption
  <2>3. req[q].tries \in 0 .. Attempts
    OBVIOUS
  <2>4. req[q].tries + 1 \in 0 .. Attempts
    BY <1>11, <2>3, SettlingAssumption DEF InviteAgain
  <2>5. req' \in ReqTypes
    BY <1>11, <2>4, TryTyped DEF InviteAgain, ReqTypes
  <2>6. req'[q].pc = "invite" /\ \A p \in Requests : p # q => req'[p] = req[p]
    BY <1>11 DEF InviteAgain
  <2> QED BY <2>1, <2>2, <2>5, <2>6 DEF ReqTypes
<1>10. QED
  BY <1>1, <1>2, <1>3, <1>4, <1>5, <1>6, <1>7, <1>8, <1>9, <1>11

LEMMA DeleteTyped ==
    ASSUME TypeOK, NEW q \in Requests,
           (\E r \in Rows : MarkDeleted(q, r)) \/ Refresh(q) \/ DropCredential(q) \/ ClearSub(q)
    PROVE  TypeOK'
<1> USE ProvisioningAssumption, Counters, RowsArePositive DEF TypeOK, Goes, Asks, Ends, Idle, Without, Removes, History, Pcs
<1>1. CASE \E r \in Rows : MarkDeleted(q, r)
  <2>1. PICK r \in Rows : MarkDeleted(q, r)
    BY <1>1
  <2>2. account' \in [Rows -> [status : {"none", "live", "deleted"}, sub : Credentials \cup {NoCredential}]]
    <3>1. account' = [account EXCEPT ![r].status = "deleted"]
      BY <2>1 DEF MarkDeleted
    <3>2. QED
      BY <3>1
  <2>3. buried' \subseteq Credentials
    BY <2>1 DEF MarkDeleted, Begins
  <2>4. req' = [req EXCEPT ![q].pc = "refresh", ![q].row = r] /\ UNCHANGED <<credential, settling, spent>> /\ damaged' = damaged /\ raced' \in BOOLEAN
    BY <2>1 DEF MarkDeleted, Begins
  <2>5. req' \in ReqTypes
    BY <2>4, AtTyped DEF ReqTypes
  <2>6. /\ req'[q].pc = "refresh" /\ req'[q].row # 0
        /\ \A p \in Requests : p # q => req'[p] = req[p]
    BY <2>4
  <2>7. QED
    BY <2>2, <2>3, <2>4, <2>5, <2>6 DEF ReqTypes
<1>2. CASE Refresh(q)
  <2>1. UNCHANGED <<account, credential, settling, spent, buried, damaged, raced>> /\ req[q].pc = "refresh"
    BY <1>2 DEF Refresh
  <2>2. \/ req' = [req EXCEPT ![q] = Idle]
        \/ /\ req' = [req EXCEPT ![q].pc = "drop", ![q].sub = account[req[q].row].sub]
           /\ account[req[q].row].sub # NoCredential
    <3> HIDE DEF TypeOK
    <3>1. CASE account[req[q].row].sub = NoCredential
      BY <1>2, <3>1 DEF Refresh
    <3>2. CASE account[req[q].row].sub # NoCredential
      BY <1>2, <3>2 DEF Refresh
    <3> QED BY <3>1, <3>2
  <2>3. account[req[q].row].sub \in Credentials \cup {NoCredential}
    BY <2>1
  <2>4. req' \in ReqTypes
    <3>1. CASE req' = [req EXCEPT ![q] = Idle]
      BY <3>1 DEF ReqTypes
    <3>2. CASE req' = [req EXCEPT ![q].pc = "drop", ![q].sub = account[req[q].row].sub]
      BY <3>2, <2>3, CarryTyped DEF ReqTypes
    <3> QED BY <2>2, <3>1, <3>2
  <2>5. /\ req'[q].pc = "idle" \/ (req'[q].pc = "drop" /\ req'[q].sub # NoCredential /\ req'[q].row # 0)
        /\ \A p \in Requests : p # q => req'[p] = req[p]
    BY <2>1, <2>2
  <2> QED BY <2>1, <2>4, <2>5 DEF ReqTypes
<1>3. CASE DropCredential(q)
  BY <1>3 DEF DropCredential
<1>4. CASE ClearSub(q)
  BY <1>4 DEF ClearSub
<1>5. QED
  BY <1>1, <1>2, <1>3, <1>4

LEMMA FaultTyped ==
    ASSUME TypeOK, NEW q \in Requests, Fault(q)
    PROVE  TypeOK'
<1> USE ProvisioningAssumption, Counters, RowsArePositive DEF TypeOK, Goes, Asks, Ends, Idle, Without, Removes, History, Pcs
<1>1. CASE Auth0Fails(q)
  BY <1>1 DEF Fault, Auth0Fails
<1>2. CASE CommitLost(q)
  BY <1>2 DEF Fault, CommitLost, Written, Target
<1>3. CASE Crash(q)
  BY <1>3 DEF Fault, Crash
<1>4. QED
  BY <1>1, <1>2, <1>3 DEF Fault

----------------------------------------------------------------------------
(* Every step keeps the invariant *)

LEMMA OneSteps ==
    ASSUME TypeOK, NEW q \in Requests,
           \/ ReadRows(q) \/ FindStale(q) \/ Replace(q) \/ Invite(q) \/ InviteAgain(q) \/ InviteRefused(q) \/ SendInvite(q)
           \/ CommitRow(q) \/ CommitFails(q) \/ Undo(q) \/ Refresh(q) \/ DropCredential(q) \/ Fault(q)
    PROVE  \A p \in Requests \ {q} : req'[p] = req[p]
BY DEF TypeOK, Goes, Asks, Ends, ReadRows, FindStale, Replace, Invite, InviteAgain, InviteRefused, SendInvite, CommitRow, CommitFails,
       Undo, Refresh, DropCredential, Fault, Auth0Fails, CommitLost, Crash

LEMMA ProvisionInv ==
    ASSUME IInv, NEW q \in Requests,
           \/ ReadRows(q) \/ FindStale(q) \/ Replace(q) \/ Invite(q) \/ InviteAgain(q) \/ InviteRefused(q) \/ SendInvite(q)
           \/ CommitRow(q) \/ CommitFails(q) \/ Undo(q)
    PROVE  IInv'
<1>t. TypeOK /\ TypeOK'
  BY ProvisionTyped DEF IInv
<1>o. \A p \in Requests \ {q} : req'[p] = req[p]
  BY <1>t, OneSteps
<1>1. CASE ReadRows(q) \/ FindStale(q) \/ Replace(q) \/ InviteAgain(q) \/ InviteRefused(q) \/ CommitFails(q) \/ Undo(q)
  <2>1. req'[q].pc \in {"find", "invite", "replace", "idle", "undo"}
    BY <1>1, <1>t DEF ReadRows, FindStale, Replace, InviteAgain, InviteRefused, Refused, CommitFails, Undo, Goes, Asks, Ends, Idle, TypeOK
  <2>2. UNCHANGED <<account, spent, buried>>
    BY <1>1 DEF ReadRows, FindStale, Replace, InviteAgain, InviteRefused, CommitFails, Undo, History
  <2>3. QED
    BY <1>t, <1>o, <2>1, <2>2, CallStep DEF Holds
<1>2. CASE SendInvite(q)
  <2>1. Holds(q) /\ req'[q].sub = req[q].sub
    BY <1>2, <1>t DEF SendInvite, Goes, Holds, TypeOK
  <2>2. UNCHANGED <<account, spent, buried>>
    BY <1>2 DEF SendInvite, History
  <2>3. QED
    BY <1>t, <1>o, <2>1, <2>2, CallStep
<1>3. CASE Invite(q)
  <2>1. PICK c \in Credentials \ spent : spent' = spent \cup {c} /\ req'[q].sub = c
    BY <1>3, <1>t DEF Invite, TypeOK
  <2>2. UNCHANGED <<account, buried>>
    BY <1>3 DEF Invite, History
  <2>3. QED
    BY <1>t, <1>o, <2>1, <2>2, IssueStep
<1>4. CASE CommitRow(q)
  <2>1. Holds(q) /\ ~Holds(q)' /\ Unique(q) /\ Written(q) /\ UNCHANGED <<spent, buried>>
    BY <1>4, <1>t DEF CommitRow, Ends, Idle, Holds, TypeOK, History
  <2>2. QED
    BY <1>t, <1>o, <2>1, WriteStep
<1>5. QED
  BY <1>1, <1>2, <1>3, <1>4

LEMMA FaultInv ==
    ASSUME IInv, NEW q \in Requests, Fault(q)
    PROVE  IInv'
<1>t. TypeOK /\ TypeOK'
  BY FaultTyped DEF IInv
<1>o. \A p \in Requests \ {q} : req'[p] = req[p]
  BY <1>t, OneSteps
<1>b. UNCHANGED buried
  BY DEF Fault
<1>h. ~Holds(q)'
  BY <1>t DEF Fault, Auth0Fails, CommitLost, Crash, Goes, Asks, Ends, Idle, Holds, TypeOK
<1>1. CASE UNCHANGED <<account, spent>>
  BY <1>t, <1>o, <1>b, <1>h, <1>1, CallStep
<1>2. CASE UNCHANGED account /\ \E c \in Credentials \ spent : spent' = spent \cup {c}
  BY <1>t, <1>o, <1>b, <1>h, <1>2, IssueStep
<1>3. CASE CommitLost(q) /\ Unique(q) /\ Written(q)
  <2>1. Holds(q) /\ UNCHANGED spent
    BY <1>3 DEF CommitLost, Holds
  <2>2. QED
    BY <1>t, <1>o, <1>b, <1>h, <1>3, <2>1, WriteStep
<1>4. QED
  BY <1>1, <1>2, <1>3 DEF Fault, Auth0Fails, CommitLost, Crash

LEMMA NextInv == IInv /\ [Next]_vars => IInv'
<1> SUFFICES ASSUME IInv, [Next]_vars PROVE IInv'
  OBVIOUS
<1>1. CASE UNCHANGED vars
  BY <1>1 DEF vars, IInv, TypeOK, HeldAlone, KnownIds, OneLiveAccount, ClosedStaysClosed, Holds, Live
<1>2. ASSUME NEW q \in Requests, Refresh(q) \/ DropCredential(q) PROVE IInv'
  <2>t. TypeOK /\ TypeOK'
    BY <1>2, DeleteTyped DEF IInv
  <2>1. \A p \in Requests \ {q} : req'[p] = req[p]
    BY <1>2, <2>t, OneSteps
  <2>2. ~Holds(q)' /\ UNCHANGED <<account, spent, buried>>
    <3>1. req'[q].pc \in {"idle", "drop", "clear"}
      <4>1. CASE Refresh(q)
        <5>1. req'[q] = Idle \/ req'[q].pc = "drop"
          BY <4>1, <2>t DEF Refresh, TypeOK
        <5>2. QED
          BY <5>1 DEF Idle
      <4>2. CASE DropCredential(q)
        BY <4>2, <2>t DEF DropCredential, Goes, TypeOK
      <4>3. QED
        BY <1>2, <4>1, <4>2
    <3>2. QED
      BY <3>1, <1>2 DEF Refresh, DropCredential, Holds, History
  <2>3. QED
    BY <2>t, <2>1, <2>2, CallStep
<1>3. ASSUME NEW q \in Requests, NEW r \in Rows, MarkDeleted(q, r) PROVE IInv'
  BY <1>3, DeleteTyped, DeleteStep DEF IInv
<1>4. ASSUME NEW q \in Requests, ClearSub(q) PROVE IInv'
  BY <1>4, DeleteTyped, ClearStep DEF IInv
<1>5. QED
  BY <1>1, <1>2, <1>3, <1>4, ProvisionInv, FaultInv DEF Next, Requests

LEMMA Custody == Spec => []IInv
BY InitInv, NextInv, PTL DEF Spec

(* Whatever invitations, deletions and faults race, a credential of a        *)
(* deleted account never opens the account that follows it.                  *)
THEOREM OldCredentialsStayOut == Spec => []ClosedStaysClosed
<1>1. IInv => ClosedStaysClosed
  BY DEF IInv
<1>2. QED
  BY <1>1, Custody, PTL

(* And an address never has two live accounts. *)
THEOREM AddressIsUnique == Spec => []OneLiveAccount
<1>1. IInv => OneLiveAccount
  BY DEF IInv
<1>2. QED
  BY <1>1, Custody, PTL

(* Every row, credential and request has its type. *)
THEOREM ProvisioningTyped == Spec => []TypeOK
<1>1. IInv => TypeOK
  BY DEF IInv
<1>2. QED
  BY <1>1, Custody, PTL

----------------------------------------------------------------------------
(* One request at a time                                                     *)
(* As long as no request began while another was at work, the one at work    *)
(* knows what the address holds: what it read of Auth0 is still so, and      *)
(* while it works no row is live.                                            *)

Busy(q) == req[q].pc # "idle"

AtMostOne == \A p, q \in Requests : Busy(p) /\ Busy(q) => p = q

(* The id a request carries is the credential of the address; and who asks   *)
(* for one has an attempt more left than Auth0 may refuse.                   *)
Carried ==
    \A q \in Requests :
        /\ req[q].pc \in {"replace", "email", "commit"} => req[q].sub = credential
        /\ req[q].pc = "invite" => credential = NoCredential /\ settling + req[q].tries <= Attempts

(* Without a lost COMMIT, a request at work has no live row under it. *)
Opened ==
    /\ (\E q \in Requests : Busy(q)) => \A r \in Rows : ~Live(r)
    /\ \A r \in Rows : Live(r) => account[r].sub = credential /\ credential # NoCredential

(* Without faults, nothing is ever left behind to replace or to take back. *)
Matched ==
    /\ Quiet /\ credential # NoCredential => \E r \in Rows : Live(r)
    /\ \A q \in Requests :
          /\ req[q].pc \in {"find", "invite", "clear"} => credential = NoCredential
          /\ req[q].pc \notin {"replace", "undo"}
          /\ req[q].pc = "refresh" => account[req[q].row].sub = credential
          /\ req[q].pc = "drop" => req[q].sub = credential

AloneInv ==
    ~raced => /\ AtMostOne
              /\ Carried
              /\ "commit" \notin damaged => Opened
              /\ damaged = {} => Matched

LEMMA InitAlone == Init => AloneInv
<1> SUFFICES ASSUME Init PROVE AloneInv
  OBVIOUS
<1>1. \A q \in Requests : req[q].pc = "idle"
  BY DEF Init, Idle
<1>2. credential = NoCredential /\ \A r \in Rows : ~Live(r)
  BY DEF Init, Live
<1>3. QED
  BY <1>1, <1>2 DEF AloneInv, AtMostOne, Carried, Opened, Matched, Busy

(* Whoever begins finds everybody idle, whoever goes on is the only one. *)
LEMMA OthersIdle ==
    ASSUME IInv, AloneInv, NEW q \in Requests, ~raced', Busy(q) \/ Begins, raced => raced',
           \A p \in Requests \ {q} : req'[p] = req[p]
    PROVE  \A p \in Requests \ {q} : ~Busy(p) /\ req'[p] = req[p]
BY DEF AloneInv, AtMostOne, Begins, Busy

(* What is left to say of a step, then, is what it does to the one request.  *)
LEMMA OneMoves ==
    ASSUME NEW q \in Requests, ~raced', \A p \in Requests \ {q} : ~Busy(p) /\ req'[p] = req[p],
           /\ req'[q].pc \in {"replace", "email", "commit"} => req'[q].sub = credential'
           /\ req'[q].pc = "invite" => credential' = NoCredential /\ settling' + req'[q].tries <= Attempts,
           "commit" \notin damaged' =>
               /\ req'[q].pc # "idle" => \A r \in Rows : ~Live(r)'
               /\ \A r \in Rows : Live(r)' => account'[r].sub = credential' /\ credential' # NoCredential,
           damaged' = {} =>
               /\ req'[q].pc = "idle" /\ credential' # NoCredential => \E r \in Rows : Live(r)'
               /\ req'[q].pc \in {"find", "invite", "clear"} => credential' = NoCredential
               /\ req'[q].pc \notin {"replace", "undo"}
               /\ req'[q].pc = "refresh" => account'[req'[q].row].sub = credential'
               /\ req'[q].pc = "drop" => req'[q].sub = credential'
    PROVE  AloneInv'
<1>1. \A p \in Requests \ {q} : req'[p].pc = "idle"
  BY DEF Busy
<1>2. AtMostOne'
  BY <1>1 DEF AtMostOne, Busy
<1>3. Carried'
  BY <1>1 DEF Carried
<1>4. "commit" \notin damaged' => Opened'
  BY <1>1 DEF Opened, Busy
<1>5. damaged' = {} => Matched'
  BY <1>1 DEF Matched, Quiet
<1>6. QED
  BY <1>2, <1>3, <1>4, <1>5 DEF AloneInv

(* What the invariant says before the step, for the request that takes it. *)
LEMMA OneKnows ==
    ASSUME AloneInv, NEW q \in Requests, ~raced
    PROVE  /\ req[q].pc \in {"replace", "email", "commit"} => req[q].sub = credential
           /\ req[q].pc = "invite" => credential = NoCredential /\ settling + req[q].tries <= Attempts
           /\ "commit" \notin damaged /\ Busy(q) => \A r \in Rows : ~Live(r)
           /\ "commit" \notin damaged => \A r \in Rows : Live(r) => account[r].sub = credential /\ credential # NoCredential
           /\ damaged = {} =>
                /\ req[q].pc \in {"find", "invite", "clear"} => credential = NoCredential
                /\ req[q].pc \notin {"replace", "undo"}
                /\ req[q].pc = "refresh" => account[req[q].row].sub = credential
                /\ req[q].pc = "drop" => req[q].sub = credential
BY DEF AloneInv, Carried, Opened, Matched

LEMMA ReadAlone ==
    ASSUME IInv, AloneInv, NEW q \in Requests, ReadRows(q), ~raced'
    PROVE  AloneInv'
<1>t. TypeOK /\ ~raced /\ (\A p \in Requests : ~Busy(p)) /\ \A r \in Rows : ~Live(r)
  BY DEF IInv, ReadRows, Begins, Busy
<1>1. UNCHANGED <<account, credential, damaged>>
  BY DEF ReadRows
<1>2. req'[q].pc = "find" /\ \A p \in Requests \ {q} : req'[p] = req[p]
  BY <1>t DEF ReadRows, TypeOK
<1>3. damaged = {} => credential = NoCredential
  BY <1>t DEF AloneInv, Matched, Quiet, Busy
<1>4. \A r \in Rows : ~Live(r)'
  BY <1>t, <1>1 DEF Live
<1>5. QED
  BY <1>t, <1>1, <1>2, <1>3, <1>4, OneMoves

LEMMA DeleteAlone ==
    ASSUME IInv, AloneInv, NEW q \in Requests, NEW r \in Rows, MarkDeleted(q, r), ~raced'
    PROVE  AloneInv'
<1>t. TypeOK /\ ~raced /\ (\A p \in Requests : ~Busy(p)) /\ Live(r)
  BY DEF IInv, MarkDeleted, Begins, Busy
<1>1. UNCHANGED <<credential, damaged>>
  BY DEF MarkDeleted
<1>2. req'[q].pc = "refresh" /\ req'[q].row = r /\ \A p \in Requests \ {q} : req'[p] = req[p]
  BY <1>t DEF MarkDeleted, TypeOK
<1>3. \A b \in Rows : ~Live(b)'
  BY <1>t DEF MarkDeleted, Live, TypeOK, IInv, OneLiveAccount
<1>4. account'[r].sub = account[r].sub
  BY <1>t DEF MarkDeleted, TypeOK
<1>5. damaged = {} => account[r].sub = credential
  BY <1>t, OneKnows
<1>6. QED
  BY <1>t, <1>1, <1>2, <1>3, <1>4, <1>5, OneMoves

(* The steps that write no row. *)
LEMMA CallAlone ==
    ASSUME IInv, AloneInv, NEW q \in Requests, ~raced',
           \/ FindStale(q) \/ Replace(q) \/ Invite(q) \/ InviteAgain(q) \/ InviteRefused(q) \/ SendInvite(q)
           \/ CommitFails(q) \/ Undo(q) \/ Refresh(q) \/ DropCredential(q)
    PROVE  AloneInv'
<1>a. TypeOK /\ UNCHANGED <<account, damaged, raced>>
  BY DEF IInv, FindStale, Replace, Invite, InviteAgain, InviteRefused, SendInvite, CommitFails, Undo, Refresh,
         DropCredential, History
<1>b. Busy(q)
  BY DEF Busy, FindStale, Replace, Invite, InviteAgain, InviteRefused, Refused, SendInvite, CommitFails, Undo,
         Refresh, DropCredential
<1>t. TypeOK /\ ~raced /\ Busy(q) /\ UNCHANGED <<account, damaged>>
  BY <1>a, <1>b
<1>o. \A p \in Requests \ {q} : ~Busy(p) /\ req'[p] = req[p]
  BY <1>t, OneSteps, OthersIdle
<1>k. /\ req[q].pc \in {"replace", "email", "commit"} => req[q].sub = credential
      /\ req[q].pc = "invite" => credential = NoCredential /\ settling + req[q].tries <= Attempts
      /\ damaged = {} =>
            /\ req[q].pc \in {"find", "invite", "clear"} => credential = NoCredential
            /\ req[q].pc \notin {"replace", "undo"}
            /\ req[q].pc = "refresh" => account[req[q].row].sub = credential
            /\ req[q].pc = "drop" => req[q].sub = credential
  BY <1>t, OneKnows
<1>n. "commit" \notin damaged => \A r \in Rows : ~Live(r)
  BY <1>t, OneKnows
<1>m. "commit" \notin damaged' => \A r \in Rows : ~Live(r)'
  BY <1>n, <1>t DEF Live
<1>s. settling \in Nat /\ (settling' \in 0 .. Settling => settling' + 1 <= Attempts)
  BY <1>t, SettlingAssumption DEF TypeOK
<1> USE DEF TypeOK, Goes, Asks, Ends, Idle, Without, Removes
<1>1. CASE FindStale(q)
  <2>1. /\ UNCHANGED credential
        /\ \/ req'[q].pc = "invite" /\ credential = NoCredential /\ settling' + req'[q].tries <= Attempts
           \/ req'[q].pc = "replace" /\ req'[q].sub = credential /\ credential # NoCredential
    <3>1. CASE credential = NoCredential
      <4>1. UNCHANGED <<credential, settling>> /\ req' = [req EXCEPT ![q].pc = "invite", ![q].tries = 1]
        BY <1>1, <3>1 DEF FindStale
      <4>2. req'[q].pc = "invite" /\ req'[q].tries = 1
        BY <1>t, <4>1
      <4>3. QED
        BY <1>t, <1>s, <3>1, <4>1, <4>2
    <3>2. CASE credential # NoCredential
      <4>1. UNCHANGED credential /\ req' = [req EXCEPT ![q].pc = "replace", ![q].sub = credential]
        BY <1>1, <3>2 DEF FindStale
      <4>2. QED
        BY <1>t, <3>2, <4>1
    <3>3. QED
      BY <3>1, <3>2
  <2>2. req[q].pc = "find"
    BY <1>1 DEF FindStale
  <2>3. QED
    BY <2>1, <2>2, <1>t, <1>o, <1>k, <1>m, OneMoves
<1>2. CASE Replace(q)
  <2>1. credential' = NoCredential /\ req'[q].pc = "invite" /\ req[q].pc = "replace" /\ req'[q].tries = 1
    BY <1>2, <1>t, <1>k DEF Replace
  <2>2. settling' + 1 <= Attempts
    BY <1>2, <1>t, <1>s DEF Replace
  <2>3. QED
    BY <2>1, <2>2, <1>t, <1>o, <1>k, <1>m, OneMoves
<1>3. CASE Invite(q)
  <2>1. req'[q].pc = "email" /\ req'[q].sub = credential'
    BY <1>3, <1>t DEF Invite
  <2>2. QED
    BY <2>1, <1>t, <1>o, <1>m, OneMoves
<1>4. CASE InviteRefused(q)
  <2>1. FALSE
    BY <1>4, <1>k, <1>s, SettlingAssumption DEF InviteRefused, Refused, Taken
  <2>2. QED
    BY <2>1
<1>5. CASE SendInvite(q)
  <2>1. req'[q].pc = "commit" /\ req'[q].sub = credential' /\ UNCHANGED credential
    BY <1>5, <1>t, <1>k DEF SendInvite
  <2>2. QED
    BY <2>1, <1>t, <1>o, <1>m, OneMoves
<1>6. CASE CommitFails(q)
  <2>1. req'[q].pc = "undo" /\ \E r \in Rows : Live(r)
    BY <1>6, <1>t DEF CommitFails, Unique
  <2>2. "commit" \in damaged
    BY <2>1, <1>n
  <2>3. QED
    BY <2>1, <2>2, <1>t, <1>o, OneMoves
<1>7. CASE Undo(q)
  <2>1. req'[q].pc = "idle" /\ req[q].pc = "undo"
    BY <1>7, <1>t DEF Undo
  <2>2. damaged # {}
    BY <2>1, <1>k
  <2>3. QED
    BY <2>1, <2>2, <1>t, <1>o, <1>m, OneMoves
<1>8. CASE Refresh(q)
  <2>1. UNCHANGED credential /\ req[q].pc = "refresh"
    BY <1>8 DEF Refresh
  <2>2. CASE account[req[q].row].sub = NoCredential
    <3>1. req'[q].pc = "idle"
      BY <2>2, <1>8, <1>t DEF Refresh
    <3>2. QED
      BY <3>1, <2>1, <2>2, <1>t, <1>o, <1>k, <1>m, OneMoves
  <2>3. CASE account[req[q].row].sub # NoCredential
    <3>1. req'[q].pc = "drop" /\ req'[q].sub = account[req[q].row].sub
      BY <2>3, <1>8, <1>t DEF Refresh
    <3>2. QED
      BY <3>1, <2>1, <1>t, <1>o, <1>k, <1>m, OneMoves
  <2>4. QED
    BY <2>2, <2>3
<1>9. CASE DropCredential(q)
  <2>1. req'[q].pc = "clear" /\ req[q].pc = "drop" /\ credential' = Without(req[q].sub)
    BY <1>9, <1>t DEF DropCredential
  <2>2. damaged' = {} => credential' = NoCredential
    BY <2>1, <1>t, <1>k
  <2>3. QED
    BY <2>1, <2>2, <1>t, <1>o, <1>m, OneMoves
<1>11. CASE InviteAgain(q)
  <2>1. req[q].pc = "invite" /\ req'[q].pc = "invite" /\ req'[q].tries = req[q].tries + 1 /\ UNCHANGED credential
    BY <1>11, <1>t DEF InviteAgain
  <2>2. settling > 0 /\ settling' = settling - 1
    BY <1>11, <1>k, <1>s DEF InviteAgain, Taken
  <2>3. req[q].tries \in Nat
    BY <1>t
  <2>4. settling' + req'[q].tries <= Attempts
    BY <2>1, <2>2, <2>3, <1>k, <1>s, SettlingAssumption
  <2>5. QED
    BY <2>1, <2>4, <1>t, <1>o, <1>k, <1>m, OneMoves
<1>10. QED
  BY <1>1, <1>2, <1>3, <1>4, <1>5, <1>6, <1>7, <1>8, <1>9, <1>11

LEMMA CommitAlone ==
    ASSUME IInv, AloneInv, NEW q \in Requests, CommitRow(q), ~raced'
    PROVE  AloneInv'
<1>t. TypeOK /\ ~raced /\ Busy(q) /\ req[q].pc = "commit" /\ UNCHANGED <<credential, damaged>>
  BY DEF IInv, CommitRow, History, Busy
<1>o. \A p \in Requests \ {q} : ~Busy(p) /\ req'[p] = req[p]
  BY <1>t, OneSteps, OthersIdle DEF CommitRow
<1>1. req[q].sub = credential /\ credential # NoCredential
  BY <1>t, OneKnows DEF TypeOK
<1>2. PICK r \in Target(q) : account' = [account EXCEPT ![r] = [status |-> "live", sub |-> req[q].sub]]
  BY DEF CommitRow, Written
<1>3. r \in Rows
  BY <1>t DEF Target, TypeOK
<1>4. \A b \in Rows : account'[b] = IF b = r THEN [status |-> "live", sub |-> credential] ELSE account[b]
  BY <1>1, <1>2, <1>3, <1>t DEF TypeOK
<1>5. Live(r)'
  BY <1>3, <1>4 DEF Live
<1>6. "commit" \notin damaged => \A b \in Rows : Live(b)' => account'[b].sub = credential
  BY <1>4, <1>t, OneKnows DEF Live
<1>7. req'[q].pc = "idle"
  BY <1>t DEF CommitRow, Ends, Idle, TypeOK
<1>8. QED
  BY <1>t, <1>o, <1>1, <1>3, <1>5, <1>6, <1>7, OneMoves

LEMMA ClearAlone ==
    ASSUME IInv, AloneInv, NEW q \in Requests, ClearSub(q), ~raced'
    PROVE  AloneInv'
<1>t. TypeOK /\ ~raced /\ Busy(q) /\ req[q].pc = "clear" /\ UNCHANGED <<credential, damaged>>
  BY DEF IInv, ClearSub, History, Busy
<1>1. req'[q].pc = "idle" /\ \A p \in Requests \ {q} : req'[p] = req[p]
  BY <1>t DEF ClearSub, Ends, Idle, TypeOK
<1>o. \A p \in Requests \ {q} : ~Busy(p) /\ req'[p] = req[p]
  BY <1>t, <1>1, OthersIdle
<1>2. \A r \in Rows : Live(r)' => Live(r)
  BY <1>t DEF ClearSub, Live, TypeOK
<1>3. "commit" \notin damaged => \A r \in Rows : ~Live(r)'
  BY <1>2, <1>t, OneKnows
<1>4. damaged = {} => credential = NoCredential
  BY <1>t, OneKnows
<1>5. QED
  BY <1>t, <1>o, <1>1, <1>3, <1>4, OneMoves

(* A call that fails leaves the request idle, or at taking back its own      *)
(* invitation; no row is live then unless a COMMIT was lost.                 *)
LEMMA FaultAlone ==
    ASSUME IInv, AloneInv, NEW q \in Requests, Fault(q), ~raced'
    PROVE  AloneInv'
<1>t. TypeOK /\ ~raced /\ Busy(q)
  BY DEF IInv, Fault, Auth0Fails, CommitLost, Crash, Busy
<1>o. \A p \in Requests \ {q} : ~Busy(p) /\ req'[p] = req[p]
  BY <1>t, OneSteps, OthersIdle
<1>1. req'[q].pc \in {"idle", "undo"}
  BY <1>t DEF Fault, Auth0Fails, CommitLost, Crash, Goes, Asks, Ends, Idle, TypeOK
<1>2. damaged' # {}
  BY DEF Fault
<1>3. "commit" \notin damaged' => "commit" \notin damaged /\ UNCHANGED account
  BY DEF Fault, Auth0Fails, CommitLost, Crash
<1>4. "commit" \notin damaged' => \A r \in Rows : ~Live(r)'
  BY <1>t, <1>3, OneKnows DEF Live
<1>5. QED
  BY <1>t, <1>o, <1>1, <1>2, <1>4, OneMoves

LEMMA NextAlone == IInv /\ AloneInv /\ [Next]_vars => AloneInv'
<1> SUFFICES ASSUME IInv, AloneInv, [Next]_vars, ~raced' PROVE AloneInv'
  BY DEF AloneInv
<1>1. CASE UNCHANGED vars
  BY <1>1 DEF vars, AloneInv, AtMostOne, Carried, Opened, Matched, Busy, Quiet, Live
<1>2. ASSUME NEW q \in Requests, ReadRows(q) PROVE AloneInv'
  BY <1>2, ReadAlone
<1>3. ASSUME NEW q \in Requests, NEW r \in Rows, MarkDeleted(q, r) PROVE AloneInv'
  BY <1>3, DeleteAlone
<1>4. QED
  BY <1>1, <1>2, <1>3, CallAlone, CommitAlone, ClearAlone, FaultAlone DEF Next, Requests

LEMMA KnowsTheAddress == Spec => []AloneInv
BY InitInv, NextInv, InitAlone, NextAlone, PTL DEF Spec

(* Whatever call fails, wherever the process dies: while requests follow one *)
(* another and no COMMIT is lost, the credential of a live account is there. *)
THEOREM AloneNobodyIsLockedOut == Spec => []NoLockoutAlone
<1>1. AloneInv => NoLockoutAlone
  BY DEF AloneInv, Opened, NoLockoutAlone, NoLockout
<1>2. QED
  BY <1>1, KnowsTheAddress, PTL

(* The account and the invitation land together unless a call failed. *)
THEOREM LandsTogether == Spec => []TogetherOrNotAtAll
<1>1. AloneInv => TogetherOrNotAtAll
  BY DEF AloneInv, Opened, Matched, TogetherOrNotAtAll
<1>2. QED
  BY <1>1, KnowsTheAddress, PTL

(* And neither what a failure leaves behind nor a deletion that settles uses *)
(* up the attempts of the next invitation, lost COMMITs included.            *)
THEOREM LeftoversDoNotRefuse == Spec => []RetryNotRefused
<1>1. IInv /\ AloneInv => RetryNotRefused
  BY SettlingAssumption DEF AloneInv, Carried, RetryNotRefused, Refused, Taken, IInv, TypeOK
<1>2. QED
  BY <1>1, Custody, KnowsTheAddress, PTL
=============================================================================
