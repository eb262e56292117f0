-------------------------------- MODULE Teams --------------------------------
(* Accounts, teams and sign-ins: the status and role of every user, which    *)
(* instructor supervises which teaching assistant, and the live sessions     *)
(* (api/app/services/users_service.py, services/sessions.py).  The rows are  *)
(* changed by requests that run side by side as READ COMMITTED transactions  *)
(* of PostgreSQL.  What a transaction has written is private to it, and the  *)
(* rows are locked, until it commits:                                        *)
(*   - an UPDATE waits for the rows it matches;                              *)
(*   - SELECT ... FOR UPDATE (_transition) keeps other writers of the user's *)
(*     row out, and inserts of rows whose foreign key names that user;       *)
(*   - an ordinary UPDATE of the user (change_user_role) does not block the  *)
(*     latter.                                                               *)
(* Rows of supervisions and sessions are ended, never deleted.  root_admins  *)
(* act here but are not acted upon, and are left out of Users.  A deleted    *)
(* row that is used again for a new account is in Provisioning.              *)
EXTENDS Naturals, FiniteSets

CONSTANTS Users, Requests,
          Links,       \* ids of supervisions rows; bounds how many are made
          Sessions,    \* ids of sessions rows; bounds how many are made
          NoUser,
          FirstRole,   \* the role each user was provisioned with
          Operations   \* the operations of an instance

Transitions == {"deactivate", "reactivate", "delete"}

ASSUME TeamsAssumption ==
    /\ NoUser \notin Users
    /\ FirstRole \in [Users -> {"instructor", "ta"}]
    /\ Operations \subseteq Transitions \cup {"role", "link", "end", "login", "logout"}

VARIABLES status,   \* User.status
          role,     \* User.role
          link,     \* the supervisions rows
          session,  \* the sessions rows
          audit,    \* the latest user_status_events row of each user
          tx,       \* what each request is doing
          since     \* history: what others changed under a request, see Noted

tables == <<status, role, link, session, audit>>
vars == <<tables, tx, since>>

----------------------------------------------------------------------------
Active(u) == status[u] = "active"
ActiveLinks == {l \in Links : link[l].state = "active"}
LiveSessions(u) == {s \in Sessions : session[s].state = "live" /\ session[s].user = u}

(* User.supervisors: active links to active instructors. *)
SupervisorsOf(t) == {i \in Users : Active(i) /\ \E l \in ActiveLinks : link[l].ta = t /\ link[l].instructor = i}

(* _supervised_ta_ids: the instructor's status does not matter. *)
TeamOf(i) == {t \in Users : \E l \in ActiveLinks : link[l].ta = t /\ link[l].instructor = i}

(* Transactions *)

Idle == [pc |-> "idle", op |-> "none", who |-> NoUser, other |-> NoUser, from |-> "none", to |-> "none",
         row |-> {}, tas |-> {}, ends |-> {}, revokes |-> {}, out |-> {}]

(* The row of user u is locked by a request other than q. *)
Writing == {"revoke", "endLinks", "select", "signOut"}
ForUpdate(q, u) == \E p \in Requests \ {q} : tx[p].who = u /\ tx[p].pc \in Writing /\ tx[p].op \in Transitions
UserLocked(q, u) == ForUpdate(q, u) \/ \E p \in Requests \ {q} : tx[p].who = u /\ tx[p].pc \in Writing /\ tx[p].op = "role"

LinkLocked(q, l) == \E p \in Requests \ {q} : l \in tx[p].ends
SessionLocked(q, s) == \E p \in Requests \ {q} : s \in tx[p].revokes

(* What a commit changed, for the requests in the middle of a transaction.   *)
Noted(q, changed) == since' = [p \in Requests |->
    IF p # q /\ tx[p].pc \in Writing THEN since[p] \cup changed ELSE {}]

(* ROLLBACK: a deadlock's victim, a lost connection, a crash. *)
Abort(q) ==
    /\ tx[q].pc # "idle"
    /\ tx' = [tx EXCEPT ![q] = Idle]
    /\ Noted(q, {})
    /\ UNCHANGED tables

----------------------------------------------------------------------------
(* deactivate_user, reactivate_user and the first part of delete_user *)

Allowed == [deactivate |-> {"active"}, reactivate |-> {"deactivated"}, delete |-> {"active", "deactivated"}]
Target == [deactivate |-> "deactivated", reactivate |-> "active", delete |-> "deleted"]

(* Mutant: a plain SELECT instead of FOR UPDATE. *)
LockUser_NoLock(q, u, op) ==
    /\ tx[q] = Idle
    /\ status[u] \in Allowed[op]
    /\ tx' = [tx EXCEPT ![q] = [Idle EXCEPT !.pc = IF op = "reactivate" THEN "signOut" ELSE "revoke", !.op = op, !.who = u,
                 !.from = status[u], !.to = Target[op], !.tas = IF op = "reactivate" THEN {} ELSE TeamOf(u)]]
    /\ UNCHANGED <<tables, since>>

(* The locked read decides; a refused transition changes nothing. *)
LockUser(q, u, op) ==
    /\ tx[q] = Idle
    /\ ~UserLocked(q, u)
    /\ status[u] \in Allowed[op]
    /\ tx' = [tx EXCEPT ![q] = [Idle EXCEPT !.pc = IF op = "reactivate" THEN "signOut" ELSE "revoke", !.op = op, !.who = u,
                 !.from = status[u], !.to = Target[op], !.tas = IF op = "reactivate" THEN {} ELSE TeamOf(u)]]
    /\ UNCHANGED <<tables, since>>

(* Mutant: only a delete revokes the user's own sessions. *)
RevokeOwn_OnDelete(q) ==
    LET mine == IF tx[q].op = "delete" THEN LiveSessions(tx[q].who) ELSE {} IN
    /\ tx[q].pc = "revoke"
    /\ \A s \in mine : ~SessionLocked(q, s)
    /\ tx' = [tx EXCEPT ![q].revokes = mine, ![q].pc = IF tx[q].op = "delete" THEN "endLinks" ELSE "select"]
    /\ UNCHANGED <<tables, since>>

(* _revoke_sessions *)
RevokeOwn(q) ==
    LET mine == LiveSessions(tx[q].who) IN
    /\ tx[q].pc = "revoke"
    /\ \A s \in mine : ~SessionLocked(q, s)
    /\ tx' = [tx EXCEPT ![q].revokes = mine, ![q].pc = IF tx[q].op = "delete" THEN "endLinks" ELSE "select"]
    /\ UNCHANGED <<tables, since>>

(* _end_links, on a delete and on a change of role *)
EndLinks(q) ==
    LET mine == {l \in ActiveLinks : tx[q].who \in {link[l].ta, link[l].instructor}} IN
    /\ tx[q].pc = "endLinks"
    /\ \A l \in mine : ~LinkLocked(q, l)
    /\ tx' = [tx EXCEPT ![q].ends = mine, ![q].pc = "select"]
    /\ UNCHANGED <<tables, since>>

(* _sign_out_unsupervised: what its subquery sees is the committed rows and  *)
(* the transaction's own link ends and status change.                        *)
StillSupervised_AnyStatus(q, t) ==  \* mutant: the instructor's status is not joined
    \E l \in ActiveLinks \ tx[q].ends : link[l].ta = t

StillSupervised(q, t) ==
    \E l \in ActiveLinks \ tx[q].ends :
        /\ link[l].ta = t
        /\ IF tx[q].op \in Transitions /\ link[l].instructor = tx[q].who
           THEN tx[q].to = "active" ELSE Active(link[l].instructor)

(* Mutant: everybody on the team is signed out. *)
SelectOut_Everybody(q) ==
    /\ tx[q].pc = "select"
    /\ tx' = [tx EXCEPT ![q].pc = "signOut",
                        ![q].out = UNION {LiveSessions(t) : t \in tx[q].tas}]
    /\ UNCHANGED <<tables, since>>

SelectOut(q) ==
    /\ tx[q].pc = "select"
    /\ tx' = [tx EXCEPT ![q].pc = "signOut",
                        ![q].out = UNION {LiveSessions(t) : t \in {u \in tx[q].tas : ~StillSupervised(q, u)}}]
    /\ UNCHANGED <<tables, since>>

(* The assistants whose supervisors the step changes.                        *)
Resupervised == {t \in Users : SupervisorsOf(t)' # SupervisorsOf(t)}

(* The sign-out's UPDATE gets its row locks; then the event, and COMMIT. *)
Commit(q) ==
    LET t == tx[q] IN
    /\ t.pc = "signOut"
    /\ \A s \in t.out : ~SessionLocked(q, s)
    /\ status' = IF t.op \in Transitions THEN [status EXCEPT ![t.who] = t.to] ELSE status
    /\ role' = IF t.op = "role" THEN [role EXCEPT ![t.who] = t.to] ELSE role
    /\ audit' = IF t.op \in Transitions THEN [audit EXCEPT ![t.who] = [from |-> t.from, to |-> t.to]] ELSE audit
    /\ link' = [l \in Links |-> IF l \in t.ends THEN [link[l] EXCEPT !.state = "ended"] ELSE link[l]]
    /\ session' = [s \in Sessions |-> IF s \in t.revokes \cup t.out THEN [session[s] EXCEPT !.state = "revoked"] ELSE session[s]]
    /\ tx' = [tx EXCEPT ![q] = Idle]
    /\ Noted(q, Resupervised)

----------------------------------------------------------------------------
(* change_user_role *)

ReadRole(q, u, r) ==
    /\ tx[q] = Idle
    /\ role[u] # r
    /\ tx' = [tx EXCEPT ![q] = [Idle EXCEPT !.pc = "role", !.op = "role", !.who = u, !.to = r]]
    /\ UNCHANGED <<tables, since>>

(* Mutant: the links are ended before the team is read. *)
WriteRole_ReadsLate(q) ==
    /\ tx[q].pc = "role"
    /\ ~UserLocked(q, tx[q].who)
    /\ tx' = [tx EXCEPT ![q].pc = "endLinks"]
    /\ UNCHANGED <<tables, since>>

(* The autoflush of the next SELECT sends the UPDATE; the role is not read   *)
(* again.                                                                    *)
WriteRole(q) ==
    /\ tx[q].pc = "role"
    /\ ~UserLocked(q, tx[q].who)
    /\ tx' = [tx EXCEPT ![q].pc = "endLinks", ![q].tas = TeamOf(tx[q].who)]
    /\ UNCHANGED <<tables, since>>

----------------------------------------------------------------------------
(* link_supervisor and add_teaching_assistant *)

MayBeTa(t) == Active(t) /\ role[t] = "ta"
MayBeInstructor(i) == Active(i) /\ role[i] = "instructor"

(* root_admin's request loads the assistant, then the supervisor ... *)
LoadTa(q, t, i) ==
    /\ tx[q] = Idle
    /\ MayBeTa(t)
    /\ tx' = [tx EXCEPT ![q] = [Idle EXCEPT !.pc = "loadInstructor", !.op = "link", !.who = t, !.other = i]]
    /\ UNCHANGED <<tables, since>>

LoadInstructor(q) ==
    /\ tx[q].pc = "loadInstructor"
    /\ tx' = [tx EXCEPT ![q] = IF MayBeInstructor(@.other) THEN [@ EXCEPT !.pc = "insertLink"] ELSE Idle]
    /\ UNCHANGED <<tables, since>>

(* ... an instructor's own request is authenticated, then loads the assistant. *)
LoadActor(q, t, i) ==
    /\ tx[q] = Idle
    /\ MayBeInstructor(i)
    /\ tx' = [tx EXCEPT ![q] = [Idle EXCEPT !.pc = "loadTa", !.op = "link", !.who = t, !.other = i]]
    /\ UNCHANGED <<tables, since>>

LoadOwnTa(q) ==
    /\ tx[q].pc = "loadTa"
    /\ tx' = [tx EXCEPT ![q] = IF MayBeTa(@.who) THEN [@ EXCEPT !.pc = "insertLink"] ELSE Idle]
    /\ UNCHANGED <<tables, since>>

(* _link: one active row per pair (the partial unique index); the foreign    *)
(* keys wait for a FOR UPDATE on either user, and for nothing else.          *)
InsertLink(q) ==
    /\ tx[q].pc = "insertLink"
    /\ tx' = [tx EXCEPT ![q] = Idle]
    /\ UNCHANGED <<status, role, session, audit>>
    /\ \/ /\ \E l \in ActiveLinks : link[l].ta = tx[q].who /\ link[l].instructor = tx[q].other
          /\ UNCHANGED link
       \/ /\ ~\E l \in ActiveLinks : link[l].ta = tx[q].who /\ link[l].instructor = tx[q].other
          /\ ~ForUpdate(q, tx[q].who) /\ ~ForUpdate(q, tx[q].other)
          /\ \E l \in Links :
                /\ link[l].state = "unused"
                /\ link' = [link EXCEPT ![l] = [ta |-> tx[q].who, instructor |-> tx[q].other, state |-> "active"]]
    /\ Noted(q, Resupervised)

(* end_supervision *)
ReadLink(q, l) ==
    /\ tx[q] = Idle
    /\ l \in ActiveLinks
    /\ tx' = [tx EXCEPT ![q] = [Idle EXCEPT !.pc = "endOne", !.op = "end", !.row = {l}, !.tas = {link[l].ta}]]
    /\ UNCHANGED <<tables, since>>

(* The flush of _sign_out_unsupervised sends the UPDATE, by the row's id.    *)
EndOne(q) ==
    /\ tx[q].pc = "endOne"
    /\ \A l \in tx[q].row : ~LinkLocked(q, l)
    /\ tx' = [tx EXCEPT ![q].ends = tx[q].row, ![q].pc = "select"]
    /\ UNCHANGED <<tables, since>>

----------------------------------------------------------------------------
(* The OAuth callback and logout *)

(* resolve_user *)
ResolveUser(q, u) ==
    /\ tx[q] = Idle
    /\ Active(u)
    /\ tx' = [tx EXCEPT ![q] = [Idle EXCEPT !.pc = "insertSession", !.op = "login", !.who = u]]
    /\ UNCHANGED <<tables, since>>

(* create_session: only the foreign key looks at the user again. *)
CreateSession(q, s) ==
    /\ tx[q].pc = "insertSession"
    /\ ~ForUpdate(q, tx[q].who)
    /\ session[s].state = "unused"
    /\ session' = [session EXCEPT ![s] = [user |-> tx[q].who, state |-> "live"]]
    /\ Noted(q, {s})
    /\ tx' = [tx EXCEPT ![q] = Idle]
    /\ UNCHANGED <<status, role, link, audit>>

(* sign_out_everywhere, from one of the user's live sessions *)
ReadSession(q, s) ==
    /\ tx[q] = Idle
    /\ session[s].state = "live"
    /\ tx' = [tx EXCEPT ![q] = [Idle EXCEPT !.pc = "logout", !.op = "logout", !.who = session[s].user]]
    /\ UNCHANGED <<tables, since>>

RevokeAll(q) ==
    LET mine == LiveSessions(tx[q].who) IN
    /\ tx[q].pc = "logout"
    /\ \A s \in mine : ~SessionLocked(q, s)
    /\ session' = [s \in Sessions |-> IF s \in mine THEN [session[s] EXCEPT !.state = "revoked"] ELSE session[s]]
    /\ tx' = [tx EXCEPT ![q] = Idle]
    /\ Noted(q, {})
    /\ UNCHANGED <<status, role, link, audit>>
----------------------------------------------------------------------------
Init ==
    /\ status = [u \in Users |-> "active"]
    /\ role = FirstRole
    /\ link = [l \in Links |-> [ta |-> NoUser, instructor |-> NoUser, state |-> "unused"]]
    /\ session = [s \in Sessions |-> [user |-> NoUser, state |-> "unused"]]
    /\ audit = [u \in Users |-> [from |-> "none", to |-> "active"]]
    /\ tx = [q \in Requests |-> Idle]
    /\ since = [q \in Requests |-> {}]

(* How the requests of an instance begin ... *)
Begin(q) ==
    \/ \E u \in Users, op \in Transitions \cap Operations : LockUser(q, u, op)
    \/ "role" \in Operations /\ \E u \in Users, r \in {"instructor", "ta"} : ReadRole(q, u, r)
    \/ "link" \in Operations /\ \E t, i \in Users : LoadTa(q, t, i) \/ LoadActor(q, t, i)
    \/ "end" \in Operations /\ \E l \in Links : ReadLink(q, l)
    \/ "login" \in Operations /\ \E u \in Users : ResolveUser(q, u)
    \/ "logout" \in Operations /\ \E s \in Sessions : ReadSession(q, s)

(* ... and go on. *)
Continue(q) ==
    \/ RevokeOwn(q) \/ WriteRole(q) \/ EndOne(q) \/ EndLinks(q) \/ SelectOut(q) \/ Commit(q)
    \/ LoadInstructor(q) \/ LoadOwnTa(q) \/ InsertLink(q)
    \/ (\E s \in Sessions : CreateSession(q, s)) \/ RevokeAll(q)
    \/ Abort(q)

Next == \E q \in Requests : Begin(q) \/ Continue(q)

Spec == Init /\ [][Next]_vars

----------------------------------------------------------------------------
(* Properties *)

Statuses == {"active", "deactivated", "deleted"}
Roles == {"instructor", "ta"}
Pcs == Writing \cup {"idle", "role", "endOne", "loadInstructor", "loadTa", "insertLink", "insertSession", "logout"}

TypeOK ==
    /\ status \in [Users -> Statuses]
    /\ role \in [Users -> Roles]
    /\ link \in [Links -> [ta : Users \cup {NoUser}, instructor : Users \cup {NoUser}, state : {"unused", "active", "ended"}]]
    /\ session \in [Sessions -> [user : Users \cup {NoUser}, state : {"unused", "live", "revoked"}]]
    /\ audit \in [Users -> [from : Statuses \cup {"none"}, to : Statuses]]
    /\ tx \in [Requests -> [pc : Pcs, op : Transitions \cup {"none", "role", "link", "end", "login", "logout"},
                            who : Users \cup {NoUser}, other : Users \cup {NoUser},
                            from : Statuses \cup {"none"}, to : Statuses \cup Roles \cup {"none"},
                            row : SUBSET Links, tas : SUBSET (Users \cup {NoUser}), ends : SUBSET Links,
                            revokes : SUBSET Sessions, out : SUBSET Sessions]]
    /\ since \in [Requests -> SUBSET (Users \cup Sessions)]

(* "A deleted TA has no supervisors; a deleted instructor supervises no one" *)
(* (docs/openapi.yaml, DELETE /api/users/{id}).                              *)
NoLinksOfDeleted ==
    \A l \in ActiveLinks : status[link[l].ta] # "deleted" /\ status[link[l].instructor] # "deleted"

(* "A link means instructor-supervises-TA; neither end survives a role       *)
(* swap." (users_service.py, change_user_role).                              *)
LinksJoinRoles ==
    \A l \in ActiveLinks : role[link[l].ta] = "ta" /\ role[link[l].instructor] = "instructor"

(* After a reactivation "old sessions stay revoked" (docs/openapi.yaml): no  *)
(* session waits for the account to come back.                               *)
OldSessionsStayRevoked ==
    [][\A u \in Users : ~Active(u) /\ Active(u)' => LiveSessions(u)' = {}]_vars

(* However requests race, a user's status changes only along                 *)
(* _ALLOWED_TRANSITIONS, and each change writes one event that says what the *)
(* status was and what it became.                                            *)
LifecycleAudited ==
    [][\A u \in Users : status'[u] # status[u] \/ audit'[u] # audit[u] =>
          /\ \E op \in Transitions : status[u] \in Allowed[op] /\ status'[u] = Target[op]
          /\ audit'[u] = [from |-> status[u], to |-> status'[u]]]_vars

(* The commit that ends an account's activity ends all of its sessions, one  *)
(* created while the transaction ran included.                               *)
ExitSignsOut ==
    [][\A u \in Users : Active(u) /\ ~Active(u)' => LiveSessions(u)' = {}]_vars

(* A commit of request q that takes assistant t's last active supervisor     *)
(* signs t out.  What survives is a session created, or the session of an    *)
(* assistant whose supervisors another request changed, while the            *)
(* transaction ran: both races are accepted in DECISION LOG [0.22.0].        *)
RemovalSignsOut(q, t) ==
    /\ tx[q].pc = "signOut" /\ tx'[q].pc = "idle"
    /\ SupervisorsOf(t) # {} /\ SupervisorsOf(t)' = {} /\ role'[t] = "ta"
    /\ t \notin since[q]
    => LiveSessions(t)' \subseteq since[q]

(* Deactivating, deleting or moving an instructor and ending a link sign out *)
(* the assistants they leave without an active supervisor.                   *)
SignsOutUnsupervised ==
    [][\A q \in Requests : \A t \in Users \ {tx[q].who} : RemovalSignsOut(q, t)]_vars

(* "Whenever a write can remove a TA's last active supervisor ... that TA's  *)
(* live sessions are revoked in the same commit" ([0.22.0]): the user whose  *)
(* own role is being written included.                                       *)
RoleWriteSignsOut ==
    [][\A q \in Requests : \A t \in {tx[q].who} \ {NoUser} : RemovalSignsOut(q, t)]_vars

(* The same commit signs nobody out who still has an active supervisor,      *)
(* unless another request changed the supervisors while it ran.              *)
SparesSupervised ==
    [][\A q \in Requests, t \in Users :
          /\ tx[q].pc = "signOut" /\ tx'[q].pc = "idle"
          /\ Active(t)' /\ SupervisorsOf(t)' # {} /\ t \notin since[q]
          => LiveSessions(t) \subseteq LiveSessions(t)']_vars
=============================================================================
