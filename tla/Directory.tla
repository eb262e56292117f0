------------------------------ MODULE Directory ------------------------------
(* apps/api, users_service behind users_routes: who may read and change whom. *)
(* A request reads its person's row and team when it is authenticated and     *)
(* acts later, on rows that others may have changed meanwhile.  What it does  *)
(* to the table is one step here; its transaction is Teams' subject and the   *)
(* two stores of an invitation are Provisioning's.                            *)
EXTENDS Integers, FiniteSets

CONSTANTS
    Users,       \* the rows of the table, one for each address
    NoUser,
    FirstRole,   \* FirstRole[u]: role at the start, "none" where nobody has the address
    FirstLinks,  \* <<assistant, instructor>>
    Callers,     \* requests that can be open at a time
    Asks,        \* bound: what people ask for: [op, actor, target, role, with]
    MaxRequests  \* bound: how often

VARIABLES
    users,       \* u -> its row; name and login say whose they are, holder counts the people who had the address
    links,       \* the active supervisions
    request,     \* c -> an open request with what it read when it was authenticated
    clock,       \* advances whenever a row is stamped to be re-used
    asked,       \* requests so far
    together     \* history: two root admins' deactivations of root admins have overlapped
directoryVars == <<users, links, request, clock, asked, together>>

Roles == {"teaching_assistant", "instructor", "root_admin"}

(* Nobody becomes a root admin through the API, and there is one to begin     *)
(* with.                                                                      *)
ASSUME DirectoryAssumption ==
    /\ NoUser \notin Users
    /\ FirstRole \in [Users -> Roles \cup {"none"}]
    /\ \E u \in Users : FirstRole[u] = "root_admin"
    /\ \A ask \in Asks :
        /\ ask.actor \in Users /\ ask.target \in Users \cup {NoUser}
        /\ ask.op \notin {"check", "batch", "cancel"} => ask.target \in Users
        /\ ask.op \in {"create", "role"} => ask.role \in Roles \ {"root_admin"}

Late == -1      \* mark of what arrived when its account was deleted, had changed hands or was about to

NoAsk == [op |-> "none", actor |-> NoUser, target |-> NoUser, role |-> "none", with |-> NoUser]
FirstRow(role) ==
    [role |-> role, status |-> IF role = "none" THEN "absent" ELSE "active", since |-> 0, login |-> 0, name |-> 0,
     holder |-> IF role = "none" THEN 0 ELSE 1]
NoRequest == [at |-> "none", ask |-> NoAsk, self |-> FirstRow("none"), team |-> {}, on |-> 0, stamp |-> 0]

DirectoryInit ==
    /\ users = [u \in Users |-> FirstRow(FirstRole[u])] /\ links = FirstLinks
    /\ request = [c \in Callers |-> NoRequest] /\ clock = 0 /\ asked = 0 /\ together = FALSE

(* User.supervisors: active links to active instructors.                      *)
Team(u) == {i \in Users : <<u, i>> \in links /\ users[i].status = "active"}

RoleOrder == [teaching_assistant |-> 0, instructor |-> 1, root_admin |-> 2]
Minimum(op) ==
    CASE op \in {"create", "role", "link", "deactivate", "reactivate", "delete"} -> 2
      [] op \in {"add", "end"} -> 1
      [] OTHER -> 0
(* require_screening_access: an assistant nobody supervises submits nothing.  *)
Screens(u) == users[u].role = "teaching_assistant" => Team(u) # {}

Actor(c) == request[c].ask.actor
Target(c) == request[c].ask.target
Self(c) == request[c].self
Is(c, op) == request[c].at = "open" /\ request[c].ask.op = op

RemovesAdmin(ask) == ask.op = "deactivate" /\ users[ask.target].role = "root_admin"

(* get_current_session and the route's role gate; the sign-in callback reads  *)
(* the row in resolve_user.                                                   *)
Authenticate(c, ask) ==
    /\ request[c].at = "none" /\ asked < MaxRequests
    /\ users[ask.actor].status = "active"
    /\ RoleOrder[users[ask.actor].role] >= Minimum(ask.op)
    /\ ask.op \in {"check", "batch"} => Screens(ask.actor)
    /\ request' = [request EXCEPT ![c] = [at |-> "open", ask |-> ask, self |-> users[ask.actor], team |-> Team(ask.actor),
                       on |-> IF ask.target = NoUser THEN 0 ELSE users[ask.target].holder, stamp |-> 0]]
    /\ asked' = asked + 1
    /\ together' = \/ together
                   \/ RemovesAdmin(ask) /\ \E o \in Callers : Is(o, "deactivate") /\ RemovesAdmin(request[o].ask) /\ Actor(o) # ask.actor
    /\ UNCHANGED <<users, links, clock>>

(* A request ends: with its effect, or refused without one.                   *)
Ended(c) == request' = [request EXCEPT ![c] = NoRequest] /\ UNCHANGED <<clock, asked, together>>
Answer(c, allowed, rows, team) ==
    /\ users' = IF allowed THEN rows ELSE users
    /\ links' = IF allowed THEN team ELSE links
    /\ Ended(c)

(* _load_manageable: the row, which for oneself is the one the session read.  *)
Found(u) == users[u].status # "absent"
Row(c, u) == IF u = Actor(c) THEN Self(c) ELSE users[u]

Supervises(c, u) == Row(c, u).role = "teaching_assistant" /\ Actor(c) \in Team(u)
MayManage(c, u) ==
    \/ Self(c).role = "root_admin"
    \/ Self(c).role = "instructor" /\ Supervises(c, u)
AssertMayManage_Slip(c, u) == MayManage(c, u)       \* one's own account too
AssertMayManage(c, u) == u # Actor(c) /\ MayManage(c, u)

(* _transition decides on the row as it is under the lock.                    *)
Allowed == [active |-> {"deactivated", "deleted"}, deactivated |-> {"active", "deleted"}, deleted |-> {}]
MayMove(u, to) == to \in Allowed[users[u].status]
Moved(u, to) == [users EXCEPT ![u].status = to]
Without(u) == {l \in links : u \notin {l[1], l[2]}}

Deactivate(c) ==
    LET u == Target(c)
    IN  /\ Is(c, "deactivate")
        /\ Answer(c, Found(u) /\ AssertMayManage(c, u) /\ MayMove(u, "deactivated"), Moved(u, "deactivated"), links)
Reactivate(c) ==
    LET u == Target(c)
    IN  /\ Is(c, "reactivate")
        /\ Answer(c, Found(u) /\ AssertMayManage(c, u) /\ MayMove(u, "active"), Moved(u, "active"), links)
MayDelete(c) == Found(Target(c)) /\ Row(c, Target(c)).role # "root_admin" /\ MayMove(Target(c), "deleted")
Delete(c) ==
    /\ Is(c, "delete")
    /\ Answer(c, MayDelete(c), Moved(Target(c), "deleted"), Without(Target(c)))

ChangeUserRole(c) ==
    LET u == Target(c)  to == request[c].ask.role  from == Row(c, u).role
    IN  /\ Is(c, "role")
        /\ Answer(c, Found(u) /\ from # "root_admin", [users EXCEPT ![u].role = to], IF from = to THEN links ELSE Without(u))

(* Whose a value is that is written to a row and meant for its holder h: late *)
(* too between the stamp and the commit of an invitation that races another.  *)
Holds(u, h) == users[u].holder = h /\ users[u].status # "deleted"
Stamped(u) == \E c \in Callers : request[c].at = "committing" /\ Target(c) = u
Mark(u, h) == IF Holds(u, h) /\ ~Stamped(u) THEN h ELSE Late
UpdateDisplayName(c) ==
    LET u == Target(c)
    IN  /\ Is(c, "rename")
        /\ Answer(c, /\ Self(c).role = "root_admin" \/ u = Actor(c)
                     /\ Found(u) /\ Row(c, u).status # "deleted",
                  [users EXCEPT ![u].name = Mark(u, request[c].on)], links)

(* mark_first_login: once, judged by the row resolve_user has read.           *)
MarkFirstLogin(c) ==
    LET u == Actor(c)
    IN  /\ Is(c, "login")
        /\ Answer(c, Self(c).login = 0, [users EXCEPT ![u].login = Mark(u, Self(c).holder)], links)

SupervisorAvailable(i) == Found(i) /\ users[i].role = "instructor" /\ users[i].status = "active"
LinkSupervisor(c) ==
    LET u == Target(c)  i == request[c].ask.with
    IN  /\ Is(c, "link")
        /\ Answer(c, /\ Found(u) /\ Row(c, u).role = "teaching_assistant" /\ Row(c, u).status = "active"
                     /\ SupervisorAvailable(i),
                  users, links \cup {<<u, i>>})
EndSupervision(c) ==
    LET u == Target(c)  i == request[c].ask.with
    IN  /\ Is(c, "end")
        /\ Answer(c, /\ Self(c).role = "root_admin" \/ Actor(c) = i
                     /\ <<u, i>> \in links,
                  users, links \ {<<u, i>>})

(* create_user and add_teaching_assistant: what is validated before Auth0.    *)
MayInvite(c) ==
    LET ask == request[c].ask  row == users[ask.target]
    IN  \/ /\ ask.op = "create" /\ row.status \in {"absent", "deleted"}
           /\ ask.with # NoUser => ask.role = "teaching_assistant" /\ SupervisorAvailable(ask.with)
        \/ ask.op = "add" /\ Self(c).role = "instructor" /\ row.status = "absent"
(* A live assistant is linked to the instructor who adds it.                  *)
MayJoin(c) ==
    LET row == users[Target(c)]
    IN  request[c].ask.op = "add" /\ Self(c).role = "instructor" /\ row.status = "active" /\ row.role = "teaching_assistant"
Invite(c) ==
    /\ Is(c, "create") \/ Is(c, "add")
    /\ IF MayInvite(c)
       THEN /\ request' = [request EXCEPT ![c].at = IF Found(Target(c)) THEN "inviting" ELSE "committing"]
            /\ UNCHANGED <<users, links, clock, asked, together>>
       ELSE Answer(c, MayJoin(c), users, links \cup {<<Target(c), Actor(c)>>})

(* Auth0 has answered: reprovisioned_at is now, in memory.                    *)
Stamp(c) ==
    /\ request[c].at = "inviting"
    /\ clock' = clock + 1
    /\ request' = [request EXCEPT ![c].at = "committing", ![c].stamp = clock']
    /\ UNCHANGED <<users, links, asked, together>>

(* The commit of _provision: a deleted row is re-used, and nothing of its     *)
(* earlier holder stays but the id.  An address invited twice at once has one *)
(* holder.                                                                    *)
NextHolder(u) == IF users[u].status \in {"active", "deactivated"} THEN users[u].holder ELSE users[u].holder + 1
Provisioned(c) ==
    [role |-> IF request[c].ask.op = "add" THEN "teaching_assistant" ELSE request[c].ask.role, status |-> "active",
     since |-> request[c].stamp, login |-> 0, name |-> 0, holder |-> NextHolder(Target(c))]
Provision(c) ==
    LET u == Target(c)  i == IF request[c].ask.op = "add" THEN Actor(c) ELSE request[c].ask.with
    IN  /\ request[c].at = "committing"
        /\ Answer(c, request[c].stamp > 0 \/ ~Found(u), [users EXCEPT ![u] = Provisioned(c)],
                  IF i = NoUser THEN links ELSE links \cup {<<u, i>>})

(* ------------------------------- what is read ----------------------------- *)
CanViewUser_Slip(c, u) ==   \* an instructor reads any assistant and any instructor
    \/ Self(c).role = "root_admin" \/ u = Actor(c)
    \/ users[u].role # "root_admin" /\ (Self(c).role = "instructor" \/ u \in request[c].team)
CanViewUser(c, u) ==
    \/ Self(c).role = "root_admin" \/ u = Actor(c)
    \/ /\ users[u].role # "root_admin"
       /\ \/ Self(c).role = "instructor" /\ Supervises(c, u)
          \/ Self(c).role = "teaching_assistant" /\ u \in request[c].team
GetUserById(c, u) ==
    Found(u) /\ (users[u].status # "active" => MayManage(c, u)) /\ CanViewUser(c, u)
ListUsers(c, statuses) ==
    {u \in Users : users[u].status \in statuses /\
        \/ Self(c).role = "root_admin"
        \/ Self(c).role = "instructor" /\ users[u].role = "teaching_assistant" /\ <<u, Actor(c)>> \in links}

UserStep(c) ==
    \/ Deactivate(c) \/ Reactivate(c) \/ ChangeUserRole(c) \/ UpdateDisplayName(c) \/ MarkFirstLogin(c)
    \/ LinkSupervisor(c) \/ EndSupervision(c) \/ Invite(c) \/ Stamp(c) \/ Provision(c)

(* ------------------------------- properties ------------------------------- *)
(* The system is left without an active root admin only where two root admins *)
(* deactivate root admins at the same time; one after the other, somebody     *)
(* always remains who can let the others in again.                            *)
AdminsRunOutOnlyTogether ==
    together \/ \E u \in Users : users[u].role = "root_admin" /\ users[u].status = "active"

(* "Can I read this user?" has one answer, by id or through the listing, for  *)
(* everybody who may list at all and is still active; oneself apart.          *)
ReadsAgree ==
    \A c \in Callers :
        (request[c].at = "open" /\ Self(c).role # "teaching_assistant" /\ users[Actor(c)].status = "active") =>
            {u \in Users : GetUserById(c, u)} \ {Actor(c)}
                = ListUsers(c, {"active", "deactivated", "deleted"}) \ {Actor(c)}
=============================================================================
