---------------------------- MODULE Provisioning ----------------------------
(* One email address between two stores: its users rows and its Auth0        *)
(* credential (api/app/services/users_service.py, auth/management.py).       *)
(* create_user and add_teaching_assistant invite first and commit the row    *)
(* afterwards; delete_user commits the deletion first and removes the        *)
(* credential afterwards.  Neither holds a lock across the calls to Auth0,   *)
(* which may fail after they took effect.                                    *)
(* A deactivated account is live here like an active one; teams are in Teams.*)
EXTENDS Naturals

CONSTANTS Provisioners,   \* requests that provision the address
          Deleters,       \* requests that delete its account
          RowMax,         \* bounds the users rows of the address
          Credentials,    \* Auth0 user ids; bounds the invitations
          NoCredential,
          Attempts,       \* _CREATE_ATTEMPTS of invite_user
          Settling,       \* how often Auth0 may refuse an address whose credential is gone
          Faults          \* subset of {"auth0", "crash", "commit"}

ASSUME ProvisioningAssumption ==
    /\ RowMax \in Nat
    /\ NoCredential \notin Credentials
    /\ Faults \subseteq {"auth0", "crash", "commit"}

(* "Auth0 can still report an email as taken for a moment after its          *)
(* credential was deleted" (management.py): the spaced attempts outlast it.  *)
ASSUME SettlingAssumption == Attempts \in Nat /\ Settling \in Nat /\ Settling < Attempts

Requests == Provisioners \cup Deleters
Rows == 1 .. RowMax

VARIABLES account,     \* the users rows, in the order they were created
          credential,  \* the address's Auth0 credential; Auth0 keeps one per address
          settling,    \* how many creations Auth0 will still refuse after a deletion
          req,         \* what each request is doing
          spent,       \* ids Auth0 has given out
          buried,      \* history: credentials of accounts that were deleted
          damaged,     \* history: the kinds of faults that have happened
          raced        \* history: a request began while another was at work

vars == <<account, credential, settling, req, spent, buried, damaged, raced>>

Live(r) == account[r].status = "live"
Idle == [pc |-> "idle", row |-> 0, sub |-> NoCredential, tries |-> 0]
Asks(q) == req' = [req EXCEPT ![q].pc = "invite", ![q].tries = 1]
Goes(q, pc) == req' = [req EXCEPT ![q].pc = pc]
Ends(q) == req' = [req EXCEPT ![q] = Idle]
Without(c) == IF credential = c THEN NoCredential ELSE credential

(* DELETE /api/v2/users/{id}: it succeeds for an id that is gone, and an     *)
(* address that loses its credential may stay taken for a moment.            *)
Removes(c) ==
    /\ credential' = Without(c)
    /\ IF credential = c THEN settling' \in 0 .. Settling ELSE UNCHANGED settling

(* POST /api/v2/users answers 409. *)
Taken == credential # NoCredential \/ settling > 0

History == <<buried, damaged, raced>>
Begins == raced' = (raced \/ \E p \in Requests : req[p].pc # "idle")

----------------------------------------------------------------------------
(* create_user and add_teaching_assistant *)

(* _rows_for_email, newest first: 0 when there is none. *)
NewestRow == IF \A r \in Rows : account[r].status = "none" THEN {0}
             ELSE {r \in Rows : account[r].status # "none" /\ \A b \in Rows : b > r => account[b].status = "none"}

(* The newest row of the address, deleted as all of them are, is used again. *)
ReadRows(q) ==
    /\ req[q].pc = "idle"
    /\ \A r \in Rows : ~Live(r)
    /\ \E r \in NewestRow : req' = [req EXCEPT ![q].pc = "find", ![q].row = r]
    /\ Begins
    /\ UNCHANGED <<account, credential, settling, spent, buried, damaged>>

(* Mutant: a credential without a live account is taken over. *)
FindStale_Adopts(q) ==
    /\ req[q].pc = "find"
    /\ \/ credential = NoCredential /\ Asks(q)
       \/ credential # NoCredential /\ req' = [req EXCEPT ![q].pc = "commit", ![q].sub = credential]
    /\ UNCHANGED <<account, credential, settling, spent, History>>

(* Mutant: nobody looks for one. *)
FindStale_Skipped(q) ==
    /\ req[q].pc = "find"
    /\ Asks(q)
    /\ UNCHANGED <<account, credential, settling, spent, History>>

FindStale(q) ==
    /\ req[q].pc = "find"
    /\ \/ credential = NoCredential /\ Asks(q)
       \/ credential # NoCredential /\ req' = [req EXCEPT ![q].pc = "replace", ![q].sub = credential]
    /\ UNCHANGED <<account, credential, settling, spent, History>>

Replace(q) ==
    /\ req[q].pc = "replace"
    /\ Removes(req[q].sub)
    /\ req' = [req EXCEPT ![q].pc = "invite", ![q].sub = NoCredential, ![q].tries = 1]
    /\ UNCHANGED <<account, spent, History>>

(* invite_user: Auth0 refuses an address it takes for taken ... *)
Invite(q) ==
    /\ req[q].pc = "invite"
    /\ ~Taken
    /\ \E c \in Credentials \ spent :
          /\ credential' = c
          /\ spent' = spent \cup {c}
          /\ req' = [req EXCEPT ![q].pc = "email", ![q].sub = c, ![q].tries = 0]
    /\ UNCHANGED <<account, settling, History>>

(* ... which is tried again, a little later ... *)
InviteAgain(q) ==
    /\ req[q].pc = "invite"
    /\ Taken
    /\ req[q].tries < Attempts
    /\ req' = [req EXCEPT ![q].tries = @ + 1]
    /\ settling' = IF settling = 0 THEN 0 ELSE settling - 1
    /\ UNCHANGED <<account, credential, spent, History>>

(* ... until the attempts are used up. *)
Refused(q) == req[q].pc = "invite" /\ Taken /\ req[q].tries = Attempts

InviteRefused(q) ==
    /\ Refused(q)
    /\ Ends(q)
    /\ UNCHANGED <<account, credential, settling, spent, History>>

SendInvite(q) ==
    /\ req[q].pc = "email"
    /\ Goes(q, "commit")
    /\ UNCHANGED <<account, credential, settling, spent, History>>

(* The row a commit writes: the row it read, or a new one. *)
Target(q) == IF req[q].row # 0 THEN {req[q].row}
             ELSE {r \in Rows : account[r].status = "none" /\ \A b \in Rows : b < r => account[b].status # "none"}

(* uq_users_email_live: no other row of the address is live. *)
Unique(q) == \A r \in Rows : Live(r) => r = req[q].row

(* Mutant: a row used again keeps the credential it had. *)
Written_KeepsSub(q) == \E r \in Target(q) : account' =
    [account EXCEPT ![r].status = "live", ![r].sub = IF req[q].row = 0 THEN req[q].sub ELSE @]

Written(q) == \E r \in Target(q) : account' = [account EXCEPT ![r] = [status |-> "live", sub |-> req[q].sub]]

(* Mutant: the index covers whole rows, not addresses. *)
CommitRow_NoIndex(q) ==
    /\ req[q].pc = "commit"
    /\ Written(q)
    /\ Ends(q)
    /\ UNCHANGED <<credential, settling, spent, History>>

(* The UPDATE of a row read as deleted does not ask what it is now. *)
CommitRow(q) ==
    /\ req[q].pc = "commit"
    /\ Unique(q)
    /\ Written(q)
    /\ Ends(q)
    /\ UNCHANGED <<credential, settling, spent, History>>

CommitFails(q) ==
    /\ req[q].pc = "commit"
    /\ ~Unique(q)
    /\ Goes(q, "undo")
    /\ UNCHANGED <<account, credential, settling, spent, History>>

(* The invitation is taken back: the commit failed, or the email did. *)
Undo(q) ==
    /\ req[q].pc = "undo"
    /\ Removes(req[q].sub)
    /\ Ends(q)
    /\ UNCHANGED <<account, spent, History>>

----------------------------------------------------------------------------
(* delete_user *)

MarkDeleted(q, r) ==
    /\ req[q].pc = "idle"
    /\ Live(r)
    /\ account' = [account EXCEPT ![r].status = "deleted"]
    /\ buried' = buried \cup ({account[r].sub} \ {NoCredential})
    /\ req' = [req EXCEPT ![q].pc = "refresh", ![q].row = r]
    /\ Begins
    /\ UNCHANGED <<credential, settling, spent, damaged>>

(* _transition's refresh after its commit: what the row holds by then. *)
Refresh(q) ==
    LET sub == account[req[q].row].sub IN
    /\ req[q].pc = "refresh"
    /\ req' = [req EXCEPT ![q] = IF sub = NoCredential THEN Idle ELSE [@ EXCEPT !.pc = "drop", !.sub = sub]]
    /\ UNCHANGED <<account, credential, settling, spent, History>>

(* Mutant: the row forgets the credential without Auth0 being asked. *)
DropCredential_NoCall(q) ==
    /\ req[q].pc = "drop"
    /\ Goes(q, "clear")
    /\ UNCHANGED <<account, credential, settling, spent, History>>

DropCredential(q) ==
    /\ req[q].pc = "drop"
    /\ Removes(req[q].sub)
    /\ Goes(q, "clear")
    /\ UNCHANGED <<account, spent, History>>

(* Written whatever the row holds by now. *)
ClearSub(q) ==
    /\ req[q].pc = "clear"
    /\ account' = [account EXCEPT ![req[q].row].sub = NoCredential]
    /\ Ends(q)
    /\ UNCHANGED <<credential, settling, spent, History>>

----------------------------------------------------------------------------
(* Faults *)

(* A call to Auth0 fails or times out; it may have had its effect.           *)
Auth0Fails(q) ==
    \/ /\ req[q].pc = "find"
       /\ Ends(q)
       /\ UNCHANGED <<account, credential, settling, spent>>
    \/ /\ req[q].pc \in {"replace", "undo", "drop"}
       /\ UNCHANGED <<credential, settling>> \/ Removes(req[q].sub)
       /\ Ends(q)
       /\ UNCHANGED <<account, spent>>
    \/ /\ req[q].pc = "invite"
       /\ Ends(q)
       /\ \/ UNCHANGED <<credential, spent>>
          \/ ~Taken /\ \E c \in Credentials \ spent : credential' = c /\ spent' = spent \cup {c}
       /\ UNCHANGED <<account, settling>>
    \/ /\ req[q].pc = "email"
       /\ Goes(q, "undo")
       /\ UNCHANGED <<account, credential, settling, spent>>

(* The connection is lost during COMMIT: the row may have been written.      *)
CommitLost(q) ==
    /\ req[q].pc = "commit"
    /\ UNCHANGED account \/ (Unique(q) /\ Written(q))
    /\ Goes(q, "undo")
    /\ UNCHANGED <<credential, settling, spent>>

(* The process dies between two calls. *)
Crash(q) ==
    /\ req[q].pc # "idle"
    /\ Ends(q)
    /\ UNCHANGED <<account, credential, settling, spent>>

Fault(q) ==
    /\ \E kind \in Faults :
          /\ \/ kind = "auth0" /\ Auth0Fails(q)
             \/ kind = "commit" /\ CommitLost(q)
             \/ kind = "crash" /\ Crash(q)
          /\ damaged' = damaged \cup {kind}
    /\ UNCHANGED <<buried, raced>>

----------------------------------------------------------------------------
Init ==
    /\ account = [r \in Rows |-> [status |-> "none", sub |-> NoCredential]]
    /\ credential = NoCredential
    /\ settling = 0
    /\ req = [q \in Requests |-> Idle]
    /\ spent = {}
    /\ buried = {}
    /\ damaged = {}
    /\ raced = FALSE

Next ==
    \/ \E q \in Provisioners : ReadRows(q)
    \/ \E q \in Deleters, r \in Rows : MarkDeleted(q, r)
    \/ \E q \in Requests :
          \/ FindStale(q) \/ Replace(q) \/ Invite(q) \/ InviteAgain(q) \/ InviteRefused(q)
          \/ SendInvite(q) \/ CommitRow(q) \/ CommitFails(q) \/ Undo(q)
          \/ Refresh(q) \/ DropCredential(q) \/ ClearSub(q)
          \/ Fault(q)

Spec == Init /\ [][Next]_vars

----------------------------------------------------------------------------
(* Properties *)

Pcs == {"idle", "find", "replace", "invite", "email", "commit", "undo", "refresh", "drop", "clear"}

TypeOK ==
    /\ account \in [Rows -> [status : {"none", "live", "deleted"}, sub : Credentials \cup {NoCredential}]]
    /\ credential \in Credentials \cup {NoCredential}
    /\ settling \in 0 .. Settling
    /\ req \in [Requests -> [pc : Pcs, row : Rows \cup {0}, sub : Credentials \cup {NoCredential}, tries : 0 .. Attempts]]
    /\ \A q \in Requests : req[q].pc \in {"replace", "email", "commit", "undo", "drop"} => req[q].sub # NoCredential
    /\ \A q \in Requests : req[q].pc \in {"refresh", "drop", "clear"} => req[q].row # 0
    /\ spent \subseteq Credentials
    /\ buried \subseteq Credentials
    /\ damaged \subseteq Faults
    /\ raced \in BOOLEAN

Quiet == \A q \in Requests : req[q].pc = "idle"

(* "A local row without a credential is a permanent lockout"                 *)
(* (users_service.py, _provision): when no request is at work, the           *)
(* credential of a live account is there.                                    *)
NoLockout == Quiet => \A r \in Rows : Live(r) => account[r].sub = credential /\ credential # NoCredential

(* It is as long as requests do not run at the same time and no connection   *)
(* is lost during COMMIT, whatever call to Auth0 fails, wherever the process *)
(* dies.                                                                     *)
NoLockoutAlone == ~raced /\ "commit" \notin damaged => NoLockout

(* "The account, the link and the Auth0 invite land together or not at all"  *)
(* (users_routes.py): unless a call failed, an address has a credential      *)
(* exactly when it has a live account.                                       *)
TogetherOrNotAtAll ==
    Quiet /\ ~raced /\ damaged = {} => (credential # NoCredential <=> \E r \in Rows : Live(r))

(* Neither a credential left behind by a failure (_provision replaces it     *)
(* first) nor a deletion Auth0 has not caught up with (invite_user tries     *)
(* again) uses up the attempts of the next invitation of the address.        *)
RetryNotRefused == ~raced => \A q \in Requests : ~Refused(q)

(* "Re-provisioning this email will fail until it's deleted manually"        *)
(* (delete_user, of a credential it could not remove): no request gets past  *)
(* the credential of a deleted account.  It is not so: _provision deletes it *)
(* as stale.                                                                 *)
StuckUntilCleaned ==
    [][\A q \in Requests : req[q].pc = "replace" /\ req[q].sub \in buried => req'[q].pc # "invite"]_vars

(* "A stale Auth0 credential is never adopted" (_provision): who held a      *)
(* deleted account's credential never signs in to the account's successor.   *)
ClosedStaysClosed == \A r \in Rows : Live(r) => account[r].sub \notin buried

(* However invitations and deletions race, an address has one live account.  *)
OneLiveAccount == \A r, b \in Rows : Live(r) /\ Live(b) => r = b
=============================================================================
