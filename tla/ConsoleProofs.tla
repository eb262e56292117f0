---------------------------- MODULE ConsoleProofs ----------------------------
(* For any people, requests and files: the system keeps an active root admin *)
(* unless two deactivate each other, reading and listing agree, and nobody   *)
(* finds what an earlier holder of the address left behind.                  *)
EXTENDS Console, FiniteSetTheorems, TLAPS

-----------------------------------------------------------------------------
(* Types. *)
Statuses == {"absent", "active", "deactivated", "deleted"}
UserRow == [role : Roles \cup {"none"}, status : Statuses, since : Nat, login : Int, name : Int, holder : Nat]
Request == [at : {"none", "open", "inviting", "committing"}, ask : Asks \cup {NoAsk}, self : UserRow,
            team : SUBSET Users, on : Nat, stamp : Nat]

DirectoryTypeOK ==
    /\ users \in [Users -> UserRow]
    /\ request \in [Callers -> Request]
    /\ \A c \in Callers : request[c].at # "none" => request[c].ask \in Asks
    /\ clock \in Nat /\ together \in BOOLEAN

(* A row has a role as soon as it is there, and being a root admin is for life. *)
RolesOK == \A u \in Users :
    /\ users[u].status = "absent" <=> users[u].role = "none"
    /\ users[u].role = "root_admin" <=> FirstRole[u] = "root_admin"
    /\ users[u].role = "root_admin" => users[u].status \in {"active", "deactivated"}

(* A request's person has an account and was active when the row was read;   *)
(* what a root admin may ask for, a root admin has asked for.                *)
SelfOK == \A c \in Callers : request[c].at # "none" =>
    /\ Self(c).role \in Roles /\ Self(c).status = "active"
    /\ Self(c).role = "root_admin" <=> FirstRole[Actor(c)] = "root_admin"
    /\ users[Actor(c)].status # "absent"
    /\ request[c].ask.op = "deactivate" => Self(c).role = "root_admin"

(* No invitation is under way for the address of a root admin.               *)
InvitesOK == \A c \in Callers : request[c].at \in {"inviting", "committing"} =>
    /\ request[c].ask.op \in {"create", "add"}
    /\ FirstRole[Target(c)] # "root_admin"

(* An open request to deactivate a root admin. *)
Removes(c) == Is(c, "deactivate") /\ FirstRole[Target(c)] = "root_admin"

(* Unless two people are at it, whoever is about to deactivate a root admin  *)
(* is one who is still active.                                               *)
RemoversOK == ~together =>
    /\ \A c, o \in Callers : Removes(c) /\ Removes(o) => Actor(c) = Actor(o)
    /\ \A c \in Callers : Removes(c) => users[Actor(c)].status = "active"

AdminInv == DirectoryTypeOK /\ RolesOK /\ SelfOK /\ InvitesOK /\ RemoversOK /\ AdminsRunOutOnlyTogether

-----------------------------------------------------------------------------
(* What an open request looks like. *)
LEMMA OpenRequest ==
    ASSUME DirectoryTypeOK, NEW c \in Callers, request[c].at # "none"
    PROVE  /\ request[c].ask \in Asks /\ Actor(c) \in Users /\ Target(c) \in Users \cup {NoUser}
           /\ request[c].ask.op \notin {"check", "batch", "cancel"} => Target(c) \in Users
           /\ request[c].ask.op \in {"create", "role"} => request[c].ask.role \in Roles \ {"root_admin"}
           /\ Self(c) \in UserRow
BY DirectoryAssumption DEF DirectoryTypeOK, Request, Actor, Target, Self

LEMMA EmptyRequest == DirectoryTypeOK => NoRequest \in Request /\ NoRequest.at = "none"
BY DEF NoRequest, Request, FirstRow, UserRow, Statuses

(* What a step does to the requests. *)
RequestFrame ==
    \/ UNCHANGED <<request, together, clock>>
    \/ \E c \in Callers, ask \in Asks : Authenticate(c, ask)
    \/ \E c \in Callers : Ended(c)
    \/ \E c \in Callers : Stamp(c)
    \/ \E c \in Callers :
        /\ Is(c, "create") \/ Is(c, "add")
        /\ MayInvite(c)
        /\ request' = [request EXCEPT ![c].at = IF Found(Target(c)) THEN "inviting" ELSE "committing"]
        /\ UNCHANGED <<users, links, clock, asked, together>>

(* What a step does to the accounts. *)
UserFrame ==
    \/ users' = users
    \/ \E c \in Callers : Is(c, "deactivate") /\ Found(Target(c)) /\ AssertMayManage(c, Target(c)) /\ MayMove(Target(c), "deactivated")
                            /\ users' = Moved(Target(c), "deactivated")
    \/ \E c \in Callers : Is(c, "reactivate") /\ Found(Target(c)) /\ MayMove(Target(c), "active") /\ users' = Moved(Target(c), "active")
    \/ \E c \in Callers : DeleteUser(c) /\ Is(c, "delete") /\ MayDelete(c) /\ users' = Moved(Target(c), "deleted")
    \/ \E c \in Callers : Is(c, "role") /\ Found(Target(c)) /\ Row(c, Target(c)).role # "root_admin"
                            /\ users' = [users EXCEPT ![Target(c)].role = request[c].ask.role]
    \/ \E c \in Callers : Is(c, "rename") /\ users' = [users EXCEPT ![Target(c)].name = Mark(Target(c), request[c].on)]
    \/ \E c \in Callers : Is(c, "login") /\ users' = [users EXCEPT ![Actor(c)].login = Mark(Actor(c), Self(c).holder)]
    \/ \E c \in Callers : request[c].at = "committing" /\ (request[c].stamp > 0 \/ ~Found(Target(c)))
                            /\ users' = [users EXCEPT ![Target(c)] = Provisioned(c)]

LEMMA Frames ==
    ASSUME [Next]_vars
    PROVE  RequestFrame /\ UserFrame
<1> DEFINE G == RequestFrame /\ UserFrame
<1>1. ASSUME NEW c \in Callers, NEW ask \in Asks, Authenticate(c, ask) PROVE G
  BY <1>1 DEF Authenticate, RequestFrame, UserFrame
<1>2. ASSUME NEW c \in Callers, UserStep(c) PROVE G
  <2>1. CASE Deactivate(c) BY <2>1 DEF Deactivate, Answer, RequestFrame, UserFrame
  <2>2. CASE Reactivate(c) BY <2>2 DEF Reactivate, Answer, RequestFrame, UserFrame
  <2>3. CASE ChangeUserRole(c) BY <2>3 DEF ChangeUserRole, Answer, RequestFrame, UserFrame
  <2>4. CASE UpdateDisplayName(c) BY <2>4 DEF UpdateDisplayName, Answer, RequestFrame, UserFrame
  <2>5. CASE MarkFirstLogin(c) BY <2>5 DEF MarkFirstLogin, Answer, RequestFrame, UserFrame
  <2>6. CASE LinkSupervisor(c) BY <2>6 DEF LinkSupervisor, Answer, RequestFrame, UserFrame
  <2>7. CASE EndSupervision(c) BY <2>7 DEF EndSupervision, Answer, RequestFrame, UserFrame
  <2>8. CASE Invite(c) BY <2>8 DEF Invite, Answer, RequestFrame, UserFrame
  <2>9. CASE Stamp(c) BY <2>9 DEF Stamp, RequestFrame, UserFrame
  <2>10. CASE Provision(c) BY <2>10 DEF Provision, Answer, RequestFrame, UserFrame
  <2> QED BY <1>2, <2>1, <2>2, <2>3, <2>4, <2>5, <2>6, <2>7, <2>8, <2>9, <2>10 DEF UserStep
<1>3. ASSUME NEW c \in Callers, CreateCheck(c) PROVE G
  BY <1>3 DEF CreateCheck, RequestFrame, UserFrame
<1>4. ASSUME NEW c \in Callers, CancelBatch(c) PROVE G
  BY <1>4 DEF CancelBatch, RequestFrame, UserFrame
<1>5. ASSUME NEW c \in Callers, DeleteUser(c) PROVE G
  BY <1>5 DEF DeleteUser, Delete, Answer, RequestFrame, UserFrame
<1>6. ASSUME NEW c \in Callers, NEW b \in Batches, CreateBatch(c, b) PROVE G
  BY <1>6 DEF CreateBatch, RequestFrame, UserFrame
<1>7. ASSUME NEW b \in Batches, TakeRow(b) PROVE G
  BY <1>7 DEF TakeRow, directoryVars, RequestFrame, UserFrame
<1>8. ASSUME NEW dies \in BOOLEAN, StoreRow(dies) PROVE G
  BY <1>8 DEF StoreRow, directoryVars, RequestFrame, UserFrame
<1>9. CASE FailRow
  BY <1>9 DEF FailRow, directoryVars, RequestFrame, UserFrame
<1>10. CASE UNCHANGED vars
  BY <1>10 DEF vars, directoryVars, RequestFrame, UserFrame
<1> QED BY <1>1, <1>2, <1>3, <1>4, <1>5, <1>6, <1>7, <1>8, <1>9, <1>10 DEF Next

-----------------------------------------------------------------------------
(* Requests: types and what they hold, through every step.                   *)
LEMMA RequestTypes ==
    ASSUME DirectoryTypeOK, RolesOK, RequestFrame
    PROVE  /\ request' \in [Callers -> Request]
           /\ \A c \in Callers : request'[c].at # "none" => request'[c].ask \in Asks
           /\ clock' \in Nat /\ together' \in BOOLEAN
<1> DEFINE G == /\ request' \in [Callers -> Request]
                /\ \A c \in Callers : request'[c].at # "none" => request'[c].ask \in Asks
                /\ clock' \in Nat /\ together' \in BOOLEAN
<1>1. CASE UNCHANGED <<request, together, clock>> BY <1>1 DEF DirectoryTypeOK
<1>2. ASSUME NEW c \in Callers, NEW ask \in Asks, Authenticate(c, ask) PROVE G
  <2> DEFINE new == [at |-> "open", ask |-> ask, self |-> users[ask.actor], team |-> Team(ask.actor),
                     on |-> IF ask.target = NoUser THEN 0 ELSE users[ask.target].holder, stamp |-> 0]
  <2>1. ask.actor \in Users /\ ask.target \in Users \cup {NoUser} BY DirectoryAssumption
  <2>2. users[ask.actor] \in UserRow BY <2>1 DEF DirectoryTypeOK
  <2>3. (IF ask.target = NoUser THEN 0 ELSE users[ask.target].holder) \in Nat
    BY <2>1 DEF DirectoryTypeOK, UserRow
  <2>4. Team(ask.actor) \in SUBSET Users BY DEF Team
  <2>5. new \in Request BY <2>2, <2>3, <2>4 DEF Request
  <2>6. request' = [request EXCEPT ![c] = new] BY <1>2 DEF Authenticate
  <2> HIDE DEF new
  <2>7. request' \in [Callers -> Request] BY <2>5, <2>6 DEF DirectoryTypeOK
  <2>8. \A o \in Callers : request'[o].at # "none" => request'[o].ask \in Asks
    BY <2>6 DEF DirectoryTypeOK, new
  <2>9. clock' = clock /\ together' \in BOOLEAN BY <1>2 DEF Authenticate, DirectoryTypeOK
  <2> QED BY <2>7, <2>8, <2>9 DEF DirectoryTypeOK
<1>3. ASSUME NEW c \in Callers, Ended(c) PROVE G
  <2>1. request' = [request EXCEPT ![c] = NoRequest] /\ UNCHANGED <<clock, together>> BY <1>3 DEF Ended
  <2> QED BY <2>1, EmptyRequest DEF DirectoryTypeOK
<1>4. ASSUME NEW c \in Callers, Stamp(c) PROVE G
  <2>1. /\ request' = [request EXCEPT ![c].at = "committing", ![c].stamp = clock + 1]
        /\ clock' = clock + 1 /\ together' = together /\ request[c].at = "inviting"
    BY <1>4 DEF Stamp
  <2>2. request[c] \in Request /\ clock + 1 \in Nat BY DEF DirectoryTypeOK
  <2>3. [request[c] EXCEPT !.at = "committing", !.stamp = clock + 1] \in Request BY <2>2 DEF Request
  <2>4. request' \in [Callers -> Request] BY <2>1, <2>3 DEF DirectoryTypeOK
  <2>5. \A o \in Callers : request'[o].at # "none" => request'[o].ask \in Asks
    BY <2>1, <2>2 DEF DirectoryTypeOK, Request
  <2> QED BY <2>1, <2>4, <2>5 DEF DirectoryTypeOK
<1>5. ASSUME NEW c \in Callers, Is(c, "create") \/ Is(c, "add"), UNCHANGED <<clock, together>>,
             request' = [request EXCEPT ![c].at = IF Found(Target(c)) THEN "inviting" ELSE "committing"]
      PROVE  G
  <2>1. request[c] \in Request /\ request[c].at = "open" BY <1>5 DEF DirectoryTypeOK, Is
  <2>2. PICK at \in {"inviting", "committing"} : request' = [request EXCEPT ![c].at = at] BY <1>5
  <2>3. [request[c] EXCEPT !.at = at] \in Request BY <2>1 DEF Request
  <2>4. request' \in [Callers -> Request] BY <2>2, <2>3 DEF DirectoryTypeOK
  <2>5. \A o \in Callers : request'[o].at # "none" => request'[o].ask \in Asks
    BY <2>1, <2>2 DEF DirectoryTypeOK, Request
  <2> QED BY <1>5, <2>4, <2>5 DEF DirectoryTypeOK
<1> QED BY <1>1, <1>2, <1>3, <1>4, <1>5 DEF RequestFrame

(* A request keeps what it is and what it read, until it ends.               *)
LEMMA RequestSteps ==
    ASSUME DirectoryTypeOK, RequestFrame, NEW c \in Callers, request'[c].at # "none"
    PROVE  \/ \E ask \in Asks : Authenticate(c, ask)
           \/ /\ request[c].at # "none" /\ request'[c].ask = request[c].ask /\ request'[c].self = request[c].self
              /\ request'[c].at = "open" => request[c].at = "open"
              /\ \/ request'[c] = request[c]
                 \/ Stamp(c)
                 \/ (Is(c, "create") \/ Is(c, "add")) /\ MayInvite(c) /\ users' = users /\ request'[c].stamp = request[c].stamp
<1> DEFINE Kept == /\ request[c].at # "none" /\ request'[c].ask = request[c].ask /\ request'[c].self = request[c].self
                   /\ request'[c].at = "open" => request[c].at = "open"
                   /\ \/ request'[c] = request[c]
                      \/ Stamp(c)
                      \/ (Is(c, "create") \/ Is(c, "add")) /\ MayInvite(c) /\ users' = users /\ request'[c].stamp = request[c].stamp
<1>0. request[c] \in Request /\ request \in [Callers -> Request] BY DEF DirectoryTypeOK
<1>1. CASE request' = request BY <1>1
<1>2. ASSUME NEW o \in Callers, NEW ask \in Asks, Authenticate(o, ask), o # c PROVE Kept
  <2>1. request'[c] = request[c] BY <1>0, <1>2 DEF Authenticate
  <2> QED BY <2>1
<1>3. ASSUME NEW o \in Callers, Ended(o) PROVE Kept
  <2>1. request' = [request EXCEPT ![o] = NoRequest] BY <1>3 DEF Ended
  <2>2. o # c BY <1>0, <2>1, EmptyRequest
  <2>3. request'[c] = request[c] BY <1>0, <2>1, <2>2
  <2> QED BY <2>3
<1>4. ASSUME NEW o \in Callers, Stamp(o) PROVE Kept
  <2>1. request' = [request EXCEPT ![o].at = "committing", ![o].stamp = clock'] /\ request[o].at = "inviting"
    BY <1>4 DEF Stamp
  <2>2. CASE o # c
    <3>1. request'[c] = request[c] BY <1>0, <2>1, <2>2
    <3> QED BY <3>1
  <2>3. CASE o = c
    <3>1. request'[c] = [request[c] EXCEPT !.at = "committing", !.stamp = clock'] BY <1>0, <2>1, <2>3
    <3>2. request'[c].ask = request[c].ask /\ request'[c].self = request[c].self /\ request'[c].at = "committing"
      BY <1>0, <3>1 DEF Request
    <3> QED BY <1>4, <2>1, <2>3, <3>2
  <2> QED BY <2>2, <2>3
<1>5. ASSUME NEW o \in Callers, Is(o, "create") \/ Is(o, "add"), MayInvite(o), users' = users,
             request' = [request EXCEPT ![o].at = IF Found(Target(o)) THEN "inviting" ELSE "committing"]
      PROVE  Kept
  <2>1. PICK at \in {"inviting", "committing"} : request' = [request EXCEPT ![o].at = at] BY <1>5
  <2>2. CASE o # c
    <3>1. request'[c] = request[c] BY <1>0, <2>1, <2>2
    <3> QED BY <3>1
  <2>3. CASE o = c
    <3>1. request'[c] = [request[c] EXCEPT !.at = at] BY <1>0, <2>1, <2>3
    <3>2. /\ request'[c].ask = request[c].ask /\ request'[c].self = request[c].self
          /\ request'[c].at = at /\ request'[c].stamp = request[c].stamp
      BY <1>0, <3>1 DEF Request
    <3> QED BY <1>5, <2>3, <3>2 DEF Is
  <2> QED BY <2>2, <2>3
<1> QED BY <1>1, <1>2, <1>3, <1>4, <1>5 DEF RequestFrame

-----------------------------------------------------------------------------
(* Accounts: types, and root admins for life.                                *)
LEMMA UserSteps ==
    ASSUME DirectoryTypeOK, RolesOK, SelfOK, InvitesOK, UserFrame
    PROVE  /\ users' \in [Users -> UserRow]
           /\ RolesOK'
           /\ \A u \in Users : users[u].status # "absent" => users'[u].status # "absent"
<1> DEFINE G == /\ users' \in [Users -> UserRow]
                /\ RolesOK'
                /\ \A u \in Users : users[u].status # "absent" => users'[u].status # "absent"
<1> DEFINE Sound(u, r) == /\ r \in UserRow
                          /\ r.status = "absent" <=> r.role = "none"
                          /\ r.role = "root_admin" <=> FirstRole[u] = "root_admin"
                          /\ r.role = "root_admin" => r.status \in {"active", "deactivated"}
                          /\ users[u].status # "absent" => r.status # "absent"
<1>0. users \in [Users -> UserRow] /\ \A u \in Users : Sound(u, users[u])
  BY DEF DirectoryTypeOK, RolesOK
<1>1. ASSUME NEW u \in Users, NEW r, Sound(u, r), users' = [users EXCEPT ![u] = r] PROVE G
  <2>1. users' \in [Users -> UserRow] BY <1>0, <1>1
  <2>2. \A v \in Users : Sound(v, users'[v]) BY <1>0, <1>1
  <2> QED BY <2>1, <2>2 DEF RolesOK
<1>2. CASE users' = users BY <1>0, <1>2 DEF RolesOK
<1>3. ASSUME NEW u \in Users, NEW to \in {"active", "deactivated"}, Found(u), MayMove(u, to), users' = Moved(u, to) PROVE G
  <2>1. users[u].status \in {"active", "deactivated"}
    BY <1>0, <1>3 DEF Found, MayMove, Allowed, UserRow, Statuses
  <2>2. Sound(u, [users[u] EXCEPT !.status = to]) BY <1>0, <1>3, <2>1 DEF UserRow, Statuses
  <2> QED BY <1>1, <1>3, <2>2 DEF Moved
<1>4. ASSUME NEW c \in Callers, Is(c, "delete"), MayDelete(c), users' = Moved(Target(c), "deleted") PROVE G
  <2> DEFINE u == Target(c)
  <2>1. u \in Users /\ Actor(c) \in Users BY <1>4, OpenRequest DEF Is
  <2>2. users[u].role # "root_admin"
    BY <1>4, <2>1, <1>0 DEF MayDelete, Row, SelfOK, Is
  <2>3. users[u].status # "absent" BY <1>4 DEF MayDelete, Found
  <2> HIDE DEF u
  <2>4. Sound(u, [users[u] EXCEPT !.status = "deleted"]) BY <1>0, <2>1, <2>2, <2>3 DEF UserRow, Statuses
  <2> QED BY <1>1, <1>4, <2>1, <2>4 DEF Moved, u
<1>5. ASSUME NEW c \in Callers, Is(c, "role"), Found(Target(c)), Row(c, Target(c)).role # "root_admin",
             users' = [users EXCEPT ![Target(c)].role = request[c].ask.role]
      PROVE  G
  <2> DEFINE u == Target(c)  to == request[c].ask.role
  <2>1. u \in Users /\ Actor(c) \in Users /\ to \in Roles \ {"root_admin"} BY <1>5, OpenRequest DEF Is
  <2>2. users[u].role # "root_admin" BY <1>5, <2>1, <1>0 DEF Row, SelfOK, Is
  <2>3. users[u].status # "absent" BY <1>5 DEF Found
  <2>4. users' = [users EXCEPT ![u].role = to] BY <1>5
  <2> HIDE DEF u, to
  <2>5. Sound(u, [users[u] EXCEPT !.role = to]) BY <1>0, <2>1, <2>2, <2>3 DEF UserRow, Roles
  <2> QED BY <1>1, <2>1, <2>4, <2>5
<1>6. ASSUME NEW u \in Users, NEW h \in Int,
             users' = [users EXCEPT ![u].name = Mark(u, h)] \/ users' = [users EXCEPT ![u].login = Mark(u, h)]
      PROVE  G
  <2>1. Mark(u, h) \in Int BY <1>6 DEF Mark, Late
  <2>2. PICK m \in Int : users' = [users EXCEPT ![u].name = m] \/ users' = [users EXCEPT ![u].login = m] BY <1>6, <2>1
  <2>3. Sound(u, [users[u] EXCEPT !.name = m]) /\ Sound(u, [users[u] EXCEPT !.login = m]) BY <1>0, <2>2 DEF UserRow
  <2> QED BY <1>1, <2>2, <2>3
<1>7. ASSUME NEW c \in Callers, request[c].at = "committing", users' = [users EXCEPT ![Target(c)] = Provisioned(c)] PROVE G
  <2> DEFINE u == Target(c)
  <2>1. request[c].ask.op \in {"create", "add"} /\ FirstRole[u] # "root_admin" BY <1>7 DEF InvitesOK
  <2>2. u \in Users /\ (request[c].ask.op = "create" => request[c].ask.role \in Roles \ {"root_admin"})
    BY <1>7, <2>1, OpenRequest
  <2>3. request[c].stamp \in Nat BY DEF DirectoryTypeOK, Request
  <2>4. NextHolder(u) \in Nat BY <1>0, <2>2 DEF NextHolder, UserRow
  <2> HIDE DEF u
  <2>5. /\ Provisioned(c) \in UserRow /\ Provisioned(c).role \in Roles \ {"root_admin"}
        /\ Provisioned(c).status = "active"
    BY <2>1, <2>2, <2>3, <2>4 DEF Provisioned, UserRow, Roles, Statuses, u
  <2>6. Sound(u, Provisioned(c)) BY <2>1, <2>5 DEF Roles
  <2> QED BY <1>1, <1>7, <2>2, <2>6 DEF u
<1>8. ASSUME NEW c \in Callers, Is(c, "rename") \/ Is(c, "login") PROVE /\ Target(c) \in Users /\ Actor(c) \in Users
                                                                     /\ request[c].on \in Int /\ Self(c).holder \in Int
  BY <1>8, OpenRequest DEF Is, DirectoryTypeOK, Request, UserRow
<1>9. ASSUME NEW c \in Callers, Is(c, "deactivate") \/ Is(c, "reactivate") PROVE Target(c) \in Users
  BY <1>9, OpenRequest DEF Is
<1> QED BY <1>2, <1>3, <1>4, <1>5, <1>6, <1>7, <1>8, <1>9 DEF UserFrame

(* What is known of requests stays known.                                    *)
LEMMA SelfStep ==
    ASSUME DirectoryTypeOK, RolesOK, SelfOK, InvitesOK, RequestFrame, UserFrame
    PROVE  SelfOK' /\ InvitesOK'
<1> SUFFICES ASSUME NEW c \in Callers, request'[c].at # "none"
             PROVE  /\ Self(c)'.role \in Roles /\ Self(c)'.status = "active"
                    /\ Self(c)'.role = "root_admin" <=> FirstRole[Actor(c)'] = "root_admin"
                    /\ users'[Actor(c)'].status # "absent"
                    /\ request'[c].ask.op = "deactivate" => Self(c)'.role = "root_admin"
                    /\ request'[c].at \in {"inviting", "committing"} =>
                          request'[c].ask.op \in {"create", "add"} /\ FirstRole[Target(c)'] # "root_admin"
  BY DEF SelfOK, InvitesOK
<1> USE DEF Self, Actor, Target
<1>0. request \in [Callers -> Request] /\ users \in [Users -> UserRow] BY DEF DirectoryTypeOK
<1>1. ASSUME NEW ask \in Asks, Authenticate(c, ask)
      PROVE  /\ users' = users /\ request'[c].at = "open"
             /\ request'[c].ask = ask /\ request'[c].self = users[ask.actor]
             /\ users[ask.actor].status = "active" /\ RoleOrder[users[ask.actor].role] >= Minimum(ask.op)
  BY <1>0, <1>1 DEF Authenticate
<1>2. ASSUME NEW ask \in Asks, Authenticate(c, ask)
      PROVE  /\ users[ask.actor].role \in Roles
             /\ users[ask.actor].role = "root_admin" <=> FirstRole[ask.actor] = "root_admin"
             /\ ask.op = "deactivate" => users[ask.actor].role = "root_admin"
  <2>1. ask.actor \in Users /\ users[ask.actor].status = "active" BY <1>1, <1>2, DirectoryAssumption
  <2>2. users[ask.actor].role \in Roles BY <1>0, <2>1 DEF RolesOK, UserRow
  <2>3. CASE ask.op = "deactivate"
    <3>1. RoleOrder[users[ask.actor].role] >= 2 BY <1>1, <1>2, <2>3 DEF Minimum
    <3> QED BY <2>1, <2>2, <3>1 DEF RolesOK, Roles, RoleOrder
  <2> QED BY <2>1, <2>2, <2>3 DEF RolesOK
<1>3. CASE \E ask \in Asks : Authenticate(c, ask)
  BY <1>1, <1>2, <1>3
<1>4. ASSUME request[c].at # "none", request'[c].ask = request[c].ask, request'[c].self = request[c].self
      PROVE  /\ Self(c)'.role \in Roles /\ Self(c)'.status = "active"
             /\ Self(c)'.role = "root_admin" <=> FirstRole[Actor(c)'] = "root_admin"
             /\ users'[Actor(c)'].status # "absent"
             /\ request'[c].ask.op = "deactivate" => Self(c)'.role = "root_admin"
  <2>1. Actor(c) \in Users BY <1>4, OpenRequest
  <2>2. \A u \in Users : users[u].status # "absent" => users'[u].status # "absent" BY UserSteps
  <2> QED BY <1>4, <2>1, <2>2 DEF SelfOK
<1>5. ASSUME Is(c, "create") \/ Is(c, "add"), MayInvite(c) PROVE FirstRole[Target(c)] # "root_admin"
  <2>1. Target(c) \in Users BY <1>5, OpenRequest DEF Is
  <2>2. users[Target(c)].status \in {"absent", "deleted"} BY <1>5 DEF MayInvite
  <2> QED BY <2>1, <2>2 DEF RolesOK
<1>6. ASSUME Stamp(c) PROVE request[c].at = "inviting" BY <1>6 DEF Stamp
<1>7. ASSUME request[c].at # "none", request'[c].ask = request[c].ask,
             request'[c] = request[c] \/ Stamp(c) \/ ((Is(c, "create") \/ Is(c, "add")) /\ MayInvite(c))
      PROVE  request'[c].at \in {"inviting", "committing"} =>
                request'[c].ask.op \in {"create", "add"} /\ FirstRole[Target(c)'] # "root_admin"
  BY <1>5, <1>6, <1>7 DEF InvitesOK, Is
<1> QED BY <1>3, <1>4, <1>7, RequestSteps

-----------------------------------------------------------------------------
(* Root admins.  A deactivation of one takes effect while its author, who is *)
(* another one, is active: a request that could have changed that would have *)
(* been open at the same time.                                               *)
LEMMA AdminStep ==
    ASSUME AdminInv, [Next]_vars, DirectoryTypeOK', RolesOK', SelfOK'
    PROVE  RemoversOK' /\ AdminsRunOutOnlyTogether'
<1> SUFFICES ASSUME ~together' PROVE RemoversOK' /\ AdminsRunOutOnlyTogether'
  BY DEF RemoversOK, AdminsRunOutOnlyTogether
<1> USE DEF AdminInv
<1>0. users \in [Users -> UserRow] /\ RequestFrame /\ UserFrame BY Frames DEF DirectoryTypeOK
<1>1. ~together
  <2>1. together \in BOOLEAN BY DEF DirectoryTypeOK
  <2> QED BY <1>0, <2>1 DEF RequestFrame, Authenticate, Ended, Stamp
<1>2. ASSUME NEW c \in Callers, Removes(c)
      PROVE  /\ Target(c) \in Users /\ Actor(c) \in Users /\ FirstRole[Target(c)] = "root_admin"
             /\ FirstRole[Actor(c)] = "root_admin" /\ Self(c).role = "root_admin" /\ users[Actor(c)].status = "active"
  <2>1. request[c].at # "none" /\ request[c].ask.op = "deactivate" BY <1>2 DEF Removes, Is
  <2>2. users[Actor(c)].status = "active" BY <1>1, <1>2 DEF RemoversOK
  <2> QED BY <1>2, <2>1, <2>2, OpenRequest DEF Removes, SelfOK
<1>3. ASSUME NEW c \in Callers, Removes(c)' PROVE Removes(c) \/ \E ask \in Asks : Authenticate(c, ask)
  <2>1. request'[c].at = "open" BY <1>3 DEF Removes, Is
  <2> QED BY <1>0, <1>3, <2>1, RequestSteps DEF Removes, Is, Target
(* Who becomes a remover finds no other one. *)
<1>4. ASSUME NEW c \in Callers, NEW ask \in Asks, Authenticate(c, ask), Removes(c)'
      PROVE  /\ users' = users /\ Actor(c)' = ask.actor /\ users[ask.actor].status = "active"
             /\ \A o \in Callers : Removes(o) => Actor(o) = ask.actor
             /\ \A o \in Callers : Removes(o)' /\ o # c => Removes(o) /\ Actor(o)' = Actor(o)
  <2>0. request \in [Callers -> Request] BY DEF DirectoryTypeOK
  <2>1. /\ request'[c].ask = ask /\ \A o \in Callers : o # c => request'[o] = request[o]
        /\ users' = users /\ users[ask.actor].status = "active"
    BY <1>4, <2>0 DEF Authenticate
  <2>2. ask.op = "deactivate" /\ FirstRole[ask.target] = "root_admin" /\ ask.target \in Users
    BY <1>4, <2>1, DirectoryAssumption DEF Removes, Is, Target
  <2>3. RemovesAdmin(ask) BY <2>2 DEF RemovesAdmin, RolesOK
  <2>4. ASSUME NEW o \in Callers, Removes(o) PROVE Actor(o) = ask.actor
    <3>1. Is(o, "deactivate") /\ RemovesAdmin(request[o].ask)
      BY <1>2, <2>4 DEF Removes, Is, Target, RemovesAdmin, RolesOK
    <3> QED BY <1>4, <2>3, <3>1 DEF Authenticate
  <2> QED BY <2>1, <2>4 DEF Removes, Is, Actor, Target
<1>5. \A c \in Callers : (Removes(c) /\ Removes(c)' /\ request'[c].ask = request[c].ask) => Actor(c)' = Actor(c)
  BY DEF Actor
(* Who loses the status of an active root admin loses it to a remover.       *)
<1>6. ASSUME NEW u \in Users, FirstRole[u] = "root_admin", users[u].status = "active", users'[u].status # "active"
      PROVE  \E c \in Callers : Removes(c) /\ Target(c) = u /\ Actor(c) # u /\ users' = Moved(u, "deactivated")
                                /\ ~\E o \in Callers, ask \in Asks : Authenticate(o, ask)
  <2>0. users[u].role = "root_admin" /\ users'[u].role = "root_admin" BY <1>6 DEF RolesOK
  <2>a. ~\E o \in Callers, ask \in Asks : Authenticate(o, ask) BY <1>6 DEF Authenticate
  <2>1. ASSUME NEW c \in Callers, Is(c, "deactivate"), AssertMayManage(c, Target(c)), users' = Moved(Target(c), "deactivated")
        PROVE  Removes(c) /\ Target(c) = u /\ Actor(c) # u /\ users' = Moved(u, "deactivated")
    <3>1. Target(c) = u BY <1>0, <1>6, <2>1 DEF Moved
    <3> QED BY <1>6, <2>1, <3>1 DEF Removes, AssertMayManage
  <2>2. ASSUME NEW c \in Callers, Is(c, "reactivate"), users' = Moved(Target(c), "active") PROVE FALSE
    BY <1>0, <1>6, <2>2 DEF Moved, UserRow
  <2>3. ASSUME NEW c \in Callers, Is(c, "delete"), MayDelete(c), users' = Moved(Target(c), "deleted") PROVE FALSE
    <3>1. Target(c) = u BY <1>0, <1>6, <2>3 DEF Moved
    <3> QED BY <2>0, <2>3, <3>1, <1>6 DEF MayDelete, Row, SelfOK, Is
  <2>4. ASSUME NEW c \in Callers, users' = [users EXCEPT ![Target(c)].role = request[c].ask.role] PROVE FALSE
    BY <1>0, <1>6, <2>4 DEF UserRow
  <2>5. ASSUME NEW v, NEW m, users' = [users EXCEPT ![v].name = m] \/ users' = [users EXCEPT ![v].login = m] PROVE FALSE
    BY <1>0, <1>6, <2>5 DEF UserRow
  <2>6. ASSUME NEW c \in Callers, users' = [users EXCEPT ![Target(c)] = Provisioned(c)] PROVE FALSE
    BY <1>0, <1>6, <2>6 DEF Provisioned
  <2> QED BY <1>0, <1>6, <2>a, <2>1, <2>2, <2>3, <2>4, <2>5, <2>6 DEF UserFrame
<1>7. CASE \E c \in Callers, ask \in Asks : Authenticate(c, ask)
  <2>1. users' = users BY <1>7 DEF Authenticate
  <2>2. AdminsRunOutOnlyTogether' BY <1>1, <2>1 DEF AdminsRunOutOnlyTogether
  <2>3. RemoversOK'
    <3>1. PICK c \in Callers, ask \in Asks : Authenticate(c, ask) BY <1>7
    <3>2. \A o \in Callers : o # c => request'[o] = request[o] BY <3>1 DEF Authenticate, DirectoryTypeOK
    <3>3. \A o \in Callers : o # c /\ Removes(o)' => Removes(o) /\ Actor(o)' = Actor(o)
      BY <3>2 DEF Removes, Is, Actor, Target
    <3>4. CASE ~Removes(c)' BY <1>1, <2>1, <3>3, <3>4 DEF RemoversOK
    <3>5. CASE Removes(c)' BY <1>1, <1>4, <2>1, <3>1, <3>3, <3>5 DEF RemoversOK
    <3> QED BY <3>4, <3>5
  <2> QED BY <2>2, <2>3
<1>8. CASE ~\E c \in Callers, ask \in Asks : Authenticate(c, ask)
  <2>1. \A c \in Callers : Removes(c)' => Removes(c) /\ Actor(c)' = Actor(c)
    <3>1. ASSUME NEW c \in Callers, Removes(c)' PROVE Removes(c) /\ request'[c].ask = request[c].ask
      <4>1. request'[c].at # "none" BY <3>1 DEF Removes, Is
      <4> QED BY <1>0, <1>3, <1>8, <3>1, <4>1, RequestSteps
    <3> QED BY <3>1 DEF Actor
  <2>2. \A c, o \in Callers : Removes(c)' /\ Removes(o)' => Actor(c)' = Actor(o)'
    BY <1>1, <2>1 DEF RemoversOK
  <2>3. ASSUME NEW c \in Callers, Removes(c)' PROVE users'[Actor(c)'].status = "active"
    <3>1. Removes(c) /\ Actor(c)' = Actor(c) /\ Actor(c) \in Users /\ FirstRole[Actor(c)] = "root_admin"
          /\ users[Actor(c)].status = "active"
      BY <1>2, <2>1, <2>3
    <3>2. SUFFICES ASSUME users'[Actor(c)].status # "active" PROVE FALSE BY <3>1
    <3>3. PICK o \in Callers : Removes(o) /\ Actor(o) # Actor(c) BY <1>6, <3>1, <3>2
    <3> QED BY <1>1, <3>1, <3>3 DEF RemoversOK
  <2>4. AdminsRunOutOnlyTogether'
    <3>1. PICK u \in Users : users[u].role = "root_admin" /\ users[u].status = "active"
      BY <1>1 DEF AdminsRunOutOnlyTogether
    <3>2. FirstRole[u] = "root_admin" BY <3>1 DEF RolesOK
    <3>3. CASE users'[u].status = "active" BY <3>2, <3>3 DEF AdminsRunOutOnlyTogether, RolesOK
    <3>4. CASE users'[u].status # "active"
      <4>1. PICK c \in Callers : Removes(c) /\ Actor(c) # u /\ users' = Moved(u, "deactivated")
        BY <1>6, <3>1, <3>2, <3>4
      <4>2. Actor(c) \in Users /\ FirstRole[Actor(c)] = "root_admin" /\ users[Actor(c)].status = "active"
        BY <1>2, <4>1
      <4>3. users'[Actor(c)] = users[Actor(c)] BY <1>0, <4>1, <4>2 DEF Moved
      <4> QED BY <4>2, <4>3 DEF AdminsRunOutOnlyTogether, RolesOK
    <3> QED BY <3>3, <3>4
  <2> QED BY <2>2, <2>3, <2>4 DEF RemoversOK
<1> QED BY <1>7, <1>8

LEMMA AdminInit == Init => AdminInv
<1> SUFFICES ASSUME Init PROVE AdminInv OBVIOUS
<1> USE DirectoryAssumption DEF Init, DirectoryInit
<1>1. \A c \in Callers : request[c] = NoRequest OBVIOUS
<1>2. \A u \in Users : FirstRow(FirstRole[u]) \in UserRow
  BY DEF FirstRow, UserRow, Roles, Statuses
<1>3. NoRequest \in Request /\ NoRequest.at = "none"
  BY DEF NoRequest, Request, FirstRow, UserRow, Statuses
<1>4. DirectoryTypeOK BY <1>1, <1>2, <1>3 DEF DirectoryTypeOK
<1>5. RolesOK BY DEF RolesOK, FirstRow
<1>6. SelfOK /\ InvitesOK /\ RemoversOK BY <1>1, <1>3 DEF SelfOK, InvitesOK, RemoversOK, Removes, Is
<1>7. AdminsRunOutOnlyTogether BY DEF AdminsRunOutOnlyTogether, FirstRow
<1> QED BY <1>4, <1>5, <1>6, <1>7 DEF AdminInv

LEMMA AdminNext == AdminInv /\ [Next]_vars => AdminInv'
<1> SUFFICES ASSUME AdminInv, [Next]_vars PROVE AdminInv' OBVIOUS
<1>1. RequestFrame /\ UserFrame BY Frames
<1>2. DirectoryTypeOK' BY <1>1, RequestTypes, UserSteps DEF AdminInv, DirectoryTypeOK
<1>3. RolesOK' /\ SelfOK' /\ InvitesOK' BY <1>1, UserSteps, SelfStep DEF AdminInv
<1> QED BY <1>2, <1>3, AdminStep DEF AdminInv

LEMMA AdminInvariance == Spec => []AdminInv
BY AdminInit, AdminNext, PTL DEF Spec

(* The system is left without an active root admin only where two root       *)
(* admins deactivate root admins at the same time.                           *)
THEOREM SomebodyAdministers == Spec => []AdminsRunOutOnlyTogether
<1>1. AdminInv => AdminsRunOutOnlyTogether BY DEF AdminInv
<1> QED BY <1>1, AdminInvariance, PTL

(* Reading a user by id and finding it in the listing are one rule.          *)
THEOREM OneAnswer == Spec => []ReadsAgree
<1>1. ASSUME AdminInv, NEW c \in Callers, request[c].at = "open", Self(c).role # "teaching_assistant",
             users[Actor(c)].status = "active", NEW u \in Users, u # Actor(c)
      PROVE  GetUserById(c, u) <=> u \in ListUsers(c, {"active", "deactivated", "deleted"})
  <2>1. Self(c).role \in {"instructor", "root_admin"} /\ Actor(c) \in Users /\ Row(c, u) = users[u]
    BY <1>1, OpenRequest DEF AdminInv, SelfOK, Roles, Row
  <2>2. Found(u) <=> users[u].status \in {"active", "deactivated", "deleted"}
    BY <1>1 DEF AdminInv, DirectoryTypeOK, UserRow, Statuses, Found
  <2>3. CASE Self(c).role = "root_admin"
    BY <2>2, <2>3 DEF GetUserById, ListUsers, MayManage, CanViewUser
  <2>4. CASE Self(c).role = "instructor"
    <3>1. Supervises(c, u) <=> users[u].role = "teaching_assistant" /\ <<u, Actor(c)>> \in links
      BY <1>1, <2>1 DEF Supervises, Team
    <3>2. CanViewUser(c, u) <=> Supervises(c, u) BY <1>1, <2>4, <3>1 DEF CanViewUser
    <3>3. MayManage(c, u) <=> Supervises(c, u) BY <2>4 DEF MayManage
    <3> QED BY <2>2, <2>4, <3>1, <3>2, <3>3 DEF GetUserById, ListUsers
  <2> QED BY <2>1, <2>3, <2>4
<1>2. ASSUME AdminInv PROVE ReadsAgree
  <2> SUFFICES ASSUME NEW c \in Callers, request[c].at = "open", Self(c).role # "teaching_assistant", users[Actor(c)].status = "active"
               PROVE  {u \in Users : GetUserById(c, u)} \ {Actor(c)}
                        = ListUsers(c, {"active", "deactivated", "deleted"}) \ {Actor(c)}
    BY DEF ReadsAgree
  <2>1. \A u \in Users : u # Actor(c) => (GetUserById(c, u) <=> u \in ListUsers(c, {"active", "deactivated", "deleted"}))
    BY <1>1, <1>2
  <2>2. ListUsers(c, {"active", "deactivated", "deleted"}) \subseteq Users BY DEF ListUsers
  <2> HIDE DEF ListUsers
  <2> QED BY <2>1, <2>2
<1> QED BY <1>2, AdminInvariance, PTL

-----------------------------------------------------------------------------
(* What an account finds.  A value that names its holder was written while   *)
(* that holder had the account, and every later holder's stamp is later.     *)
Check == [actor : Users, created : Nat, by : Int]
BatchRow == [live : BOOLEAN, actor : Users \cup {NoUser}, by : Int, created : Nat, total : Int, queued : Int,
             done : Int, failed : Int, cancelled : BOOLEAN]

ScreeningTypeOK ==
    /\ checks \subseteq Check
    /\ batch \in [Batches -> BatchRow]
    /\ worker # Idle => worker.of \in Batches /\ worker.by \in Int

(* A value by holder h, created at t, of account u: it is late, or of the    *)
(* present holder, or older than the account's stamp; and no stamp that is   *)
(* still to be committed is older than it.                                   *)
Told(u, h, t) ==
    /\ users[u].status # "absent" /\ t <= clock
    /\ h \in {Late, users[u].holder} \/ t < users[u].since
    /\ h = Late \/ \A c \in Callers :
            (request[c].at = "committing" /\ Target(c) = u /\ request[c].stamp > 0) => t < request[c].stamp

NamesOK == \A u \in Users :
    users[u].name \in {0, Late, users[u].holder} /\ users[u].login \in {0, Late, users[u].holder}
ChecksOK == \A r \in checks : Told(r.actor, r.by, r.created)
BatchesOK == \A b \in Batches : batch[b].live =>
    batch[b].actor \in Users /\ Told(batch[b].actor, batch[b].by, batch[b].created)

(* Unless a crash has spoilt its counts, a batch with rows in the queue is   *)
(* the present holder's or cancelled.                                        *)
CountsOK == \A b \in Batches :
    /\ batch[b].queued > 0 => batch[b].live
    /\ (batch[b].live /\ batch[b].by # Late) =>
        /\ batch[b].total = batch[b].done + batch[b].failed + batch[b].queued
        /\ batch[b].queued > 0 /\ ~batch[b].cancelled => Holds(batch[b].actor, batch[b].by)

(* The row in hand is in the queue until it is done with, and taken for the  *)
(* present holder.                                                           *)
WorkerOK == worker # Idle =>
    /\ batch[worker.of].queued > 0
    /\ worker.by = Late => batch[worker.of].by = Late

(* A stamp is taken as the last thing before the commit. *)
StampsOK == \A c \in Callers : request[c].at \in {"open", "inviting"} => request[c].stamp = 0

CarryInv == AdminInv /\ ScreeningTypeOK /\ NamesOK /\ ChecksOK /\ BatchesOK /\ CountsOK /\ WorkerOK /\ StampsOK

LEMMA MarkTells ==
    ASSUME DirectoryTypeOK, NEW u \in Users, users[u].status # "absent", NEW h \in Int
    PROVE  Told(u, Mark(u, h), clock) /\ Mark(u, h) \in {Late, users[u].holder} /\ Mark(u, h) \in Int
           /\ (Mark(u, h) # Late => Mark(u, h) = h /\ Holds(u, h))
BY DEF Told, Mark, Holds, Stamped, Late, DirectoryTypeOK

(* What has been told stays told, whatever happens to the accounts.          *)
LEMMA ToldStep ==
    ASSUME AdminInv, StampsOK, [Next]_vars, NEW u \in Users, NEW h \in Int, NEW t \in Nat, Told(u, h, t)
    PROVE  Told(u, h, t)'
<1> USE DEF AdminInv
<1>0. RequestFrame /\ UserFrame /\ users \in [Users -> UserRow] /\ request \in [Callers -> Request] /\ clock \in Nat
  BY Frames DEF DirectoryTypeOK
<1>1. users'[u].status # "absent" BY <1>0, UserSteps DEF Told
<1>2. clock' \in Nat /\ clock' >= clock
  <2>1. clock' = clock \/ clock' = clock + 1 BY <1>0 DEF RequestFrame, Authenticate, Ended, Stamp
  <2> QED BY <1>0, <2>1
<1>3. h \in {Late, users'[u].holder} \/ t < users'[u].since
  <2>1. CASE users'[u].holder = users[u].holder /\ users'[u].since = users[u].since BY <2>1 DEF Told
  <2>2. CASE h = Late BY <2>2
  <2>3. ASSUME NEW c \in Callers, request[c].at = "committing", request[c].stamp > 0 \/ ~Found(Target(c)), Target(c) = u,
               users' = [users EXCEPT ![Target(c)] = Provisioned(c)], h # Late
        PROVE  t < users'[u].since
    <3>1. request[c].stamp > 0 BY <2>3 DEF Told, Found
    <3>2. t < request[c].stamp BY <2>3, <3>1 DEF Told
    <3> QED BY <1>0, <2>3, <3>2 DEF Provisioned
  <2>4. ASSUME NEW v, NEW x, \/ users' = [users EXCEPT ![v].status = x] \/ users' = [users EXCEPT ![v].role = x]
                             \/ users' = [users EXCEPT ![v].name = x] \/ users' = [users EXCEPT ![v].login = x]
        PROVE  users'[u].holder = users[u].holder /\ users'[u].since = users[u].since
    BY <1>0, <2>4 DEF UserRow
  <2>5. \A v, to : users' = Moved(v, to) => users'[u].holder = users[u].holder /\ users'[u].since = users[u].since
    BY <2>4 DEF Moved
  <2>6. ASSUME NEW c \in Callers, users' = [users EXCEPT ![Target(c)] = Provisioned(c)], Target(c) # u PROVE users'[u] = users[u]
    BY <1>0, <2>6
  <2> QED BY <1>0, <2>1, <2>2, <2>3, <2>4, <2>5, <2>6 DEF UserFrame
<1>4. ASSUME h # Late, NEW c \in Callers, request'[c].at = "committing", Target(c)' = u, request'[c].stamp > 0
      PROVE  t < request'[c].stamp
  <2>1. request'[c].at # "none" BY <1>4
  <2>2. ASSUME NEW ask \in Asks, Authenticate(c, ask) PROVE FALSE
    <3>1. request'[c].at = "open" BY <1>0, <2>2 DEF Authenticate
    <3> QED BY <1>4, <3>1
  <2>3. CASE request'[c] = request[c] BY <1>4, <2>3 DEF Told, Target
  <2>4. CASE Stamp(c)
    <3>1. request'[c].stamp = clock + 1 BY <1>0, <2>4 DEF Stamp, Request
    <3> QED BY <1>0, <3>1 DEF Told
  <2>5. CASE (Is(c, "create") \/ Is(c, "add")) /\ request'[c].stamp = request[c].stamp
    BY <1>4, <2>5 DEF StampsOK, Is
  <2> QED BY <1>0, <2>1, <2>2, <2>3, <2>4, <2>5, RequestSteps
<1> QED BY <1>0, <1>1, <1>2, <1>3, <1>4 DEF Told

LEMMA StampsStep == ASSUME AdminInv, StampsOK, [Next]_vars PROVE StampsOK'
<1> USE DEF AdminInv
<1>0. RequestFrame /\ request \in [Callers -> Request] BY Frames DEF DirectoryTypeOK
<1> SUFFICES ASSUME NEW c \in Callers, request'[c].at \in {"open", "inviting"} PROVE request'[c].stamp = 0
  BY DEF StampsOK
<1>1. ASSUME NEW ask \in Asks, Authenticate(c, ask) PROVE request'[c].stamp = 0 BY <1>0, <1>1 DEF Authenticate
<1>2. CASE request'[c] = request[c] BY <1>2 DEF StampsOK
<1>3. CASE Stamp(c)
  <2>1. request'[c].at = "committing" BY <1>0, <1>3 DEF Stamp, Request
  <2> QED BY <2>1
<1>4. CASE (Is(c, "create") \/ Is(c, "add")) /\ request'[c].stamp = request[c].stamp BY <1>4 DEF StampsOK, Is
<1>5. request'[c].at # "none" OBVIOUS
<1> QED BY <1>0, <1>1, <1>2, <1>3, <1>4, <1>5, RequestSteps

LEMMA NamesStep == ASSUME AdminInv, NamesOK, [Next]_vars PROVE NamesOK'
<1> USE DEF AdminInv
<1>0. UserFrame /\ users \in [Users -> UserRow] BY Frames DEF DirectoryTypeOK
<1> SUFFICES ASSUME NEW u \in Users
             PROVE  users'[u].name \in {0, Late, users'[u].holder} /\ users'[u].login \in {0, Late, users'[u].holder}
  BY DEF NamesOK
<1>1. users[u].name \in {0, Late, users[u].holder} /\ users[u].login \in {0, Late, users[u].holder} BY DEF NamesOK
<1>2. ASSUME NEW v, NEW x, users' = [users EXCEPT ![v].status = x] \/ users' = [users EXCEPT ![v].role = x]
      PROVE  users'[u].name = users[u].name /\ users'[u].login = users[u].login /\ users'[u].holder = users[u].holder
  BY <1>0, <1>2 DEF UserRow
<1>3. \A v, to : users' = Moved(v, to) =>
        users'[u].name = users[u].name /\ users'[u].login = users[u].login /\ users'[u].holder = users[u].holder
  BY <1>2 DEF Moved
<1>4. \A h : Mark(u, h) \in {Late, users[u].holder} BY DEF Mark, Holds
<1>5. ASSUME NEW v, NEW h, users' = [users EXCEPT ![v].name = Mark(v, h)] \/ users' = [users EXCEPT ![v].login = Mark(v, h)]
      PROVE  /\ users'[u].name \in {users[u].name, Mark(u, h)} /\ users'[u].login \in {users[u].login, Mark(u, h)}
             /\ users'[u].holder = users[u].holder
  BY <1>0, <1>5 DEF UserRow
<1>6. ASSUME NEW c \in Callers, users' = [users EXCEPT ![Target(c)] = Provisioned(c)]
      PROVE  users'[u] = users[u] \/ (users'[u].name = 0 /\ users'[u].login = 0)
  BY <1>0, <1>6 DEF Provisioned
<1> QED BY <1>0, <1>1, <1>2, <1>3, <1>4, <1>5, <1>6 DEF UserFrame

(* What a step does to checks, batches and the Worker.                       *)
LEMMA ScreeningFrame ==
    ASSUME [Next]_vars
    PROVE  \/ UNCHANGED screeningVars
           \/ \E c \in Callers : CreateCheck(c) \/ CancelBatch(c) \/ DeleteUser(c) \/ \E b \in Batches : CreateBatch(c, b)
           \/ (\E b \in Batches : TakeRow(b)) \/ (\E dies \in BOOLEAN : StoreRow(dies)) \/ FailRow
BY DEF Next, vars

(* Only the deletion of an account ends its holder's hold on it.             *)
LEMMA HoldsStep ==
    ASSUME AdminInv, [Next]_vars, NEW u \in Users, NEW h \in Int, users[u].status # "absent", Holds(u, h)
    PROVE  Holds(u, h)' \/ \E c \in Callers : DeleteUser(c) /\ MayDelete(c) /\ Target(c) = u
<1> USE DEF AdminInv
<1>0. UserFrame /\ users \in [Users -> UserRow] BY Frames DEF DirectoryTypeOK
<1>1. users[u].holder = h /\ users[u].status \in {"active", "deactivated"}
  BY <1>0 DEF Holds, UserRow, Statuses
<1>2. ASSUME NEW v, NEW x, \/ users' = [users EXCEPT ![v].role = x] \/ users' = [users EXCEPT ![v].name = x]
                           \/ users' = [users EXCEPT ![v].login = x] \/ (users' = Moved(v, x) /\ (x # "deleted" \/ v # u))
      PROVE  users'[u].holder = h /\ users'[u].status # "deleted"
  BY <1>0, <1>1, <1>2 DEF UserRow, Moved
<1>3. ASSUME NEW c \in Callers, users' = [users EXCEPT ![Target(c)] = Provisioned(c)]
      PROVE  users'[u].holder = h /\ users'[u].status # "deleted"
  <2>1. Target(c) # u => users'[u] = users[u] BY <1>0, <1>3
  <2>2. Target(c) = u => users'[u].holder = NextHolder(u) /\ users'[u].status = "active" BY <1>0, <1>3 DEF Provisioned
  <2> QED BY <1>1, <2>1, <2>2 DEF NextHolder
<1> SUFFICES ASSUME ~\E c \in Callers : DeleteUser(c) /\ MayDelete(c) /\ Target(c) = u
             PROVE  users'[u].holder = h /\ users'[u].status # "deleted"
  BY DEF Holds
<1>4. CASE users' = users BY <1>1, <1>4
<1> QED BY <1>0, <1>2, <1>3, <1>4 DEF UserFrame

(* How many rows of a file are queued and refused. *)
LEMMA Parsed ==
    ASSUME NEW f \in DOMAIN Files
    PROVE  ParseAndValidate(Files[f]).rows \in Nat /\ ParseAndValidate(Files[f]).failures \in Int
<1> DEFINE lines == Files[f].lines
           good == {k \in DOMAIN lines : k <= MaxRows /\ ValidRow(lines[k])}
<1>1. Len(lines) \in Nat /\ DOMAIN lines = 1..Len(lines) BY ConsoleAssumption
<1>2. IsFiniteSet(DOMAIN lines) BY <1>1, FS_Interval
<1>3. good \subseteq DOMAIN lines OBVIOUS
<1>4. Cardinality(good) \in Nat BY <1>2, <1>3, FS_Subset, FS_CardinalityType
<1> QED BY <1>1, <1>4 DEF ParseAndValidate

-----------------------------------------------------------------------------
(* A batch as it has to be. *)
BatchSound(r) ==
    /\ r \in BatchRow
    /\ r.live => r.actor \in Users /\ Told(r.actor, r.by, r.created)
    /\ r.queued > 0 => r.live
    /\ (r.live /\ r.by # Late) =>
        /\ r.total = r.done + r.failed + r.queued
        /\ r.queued > 0 /\ ~r.cancelled => Holds(r.actor, r.by)

LEMMA BatchesSound == CarryInv => \A b \in Batches : BatchSound(batch[b])
BY DEF CarryInv, ScreeningTypeOK, BatchesOK, CountsOK, BatchSound

LEMMA SoundBatches ==
    ASSUME batch \in [Batches -> BatchRow], \A b \in Batches : BatchSound(batch[b])
    PROVE  BatchesOK /\ CountsOK
BY DEF BatchesOK, CountsOK, BatchSound

(* A row is done with, or counted as done and left in the queue by a crash.  *)
LEMMA RowWorked ==
    ASSUME CarryInv, NEW r, BatchSound(r), r.queued > 0, NEW q \in BatchRow,
           q.live = r.live, q.actor = r.actor, q.created = r.created, q.cancelled = r.cancelled, q.total = r.total,
           \/ q.by = r.by /\ q.queued = r.queued - 1 /\ q.done + q.failed = r.done + r.failed + 1
           \/ q.by = Late /\ q.queued = r.queued
    PROVE  BatchSound(q)
<1>1. r \in BatchRow /\ r.live /\ r.actor \in Users /\ Told(r.actor, r.by, r.created) BY DEF BatchSound
<1>2. q.live /\ q.actor \in Users BY <1>1
<1>3. CASE q.by = r.by /\ q.queued = r.queued - 1 /\ q.done + q.failed = r.done + r.failed + 1
  <2>1. Told(q.actor, q.by, q.created) BY <1>1, <1>3
  <2>2. ASSUME q.by # Late
        PROVE  q.total = q.done + q.failed + q.queued /\ (q.queued > 0 /\ ~q.cancelled => Holds(q.actor, q.by))
    <3>1. r.total = r.done + r.failed + r.queued /\ (~r.cancelled => Holds(r.actor, r.by))
      BY <1>1, <1>3, <2>2 DEF BatchSound
    <3>2. q.total = q.done + q.failed + q.queued BY <1>1, <1>3, <3>1 DEF BatchRow
    <3> QED BY <1>3, <3>1, <3>2
  <2> QED BY <1>2, <2>1, <2>2 DEF BatchSound
<1>4. CASE q.by = Late /\ q.queued = r.queued
  <2>1. Told(q.actor, q.by, q.created) BY <1>1, <1>4 DEF Told
  <2> QED BY <1>2, <1>4, <2>1 DEF BatchSound
<1> QED BY <1>3, <1>4

LEMMA RowDone ==
    ASSUME CarryInv, NEW r, BatchSound(r), r.queued > 0
    PROVE  /\ BatchSound([r EXCEPT !.queued = @ - 1, !.failed = @ + 1])
           /\ BatchSound([r EXCEPT !.failed = @ + 1, !.queued = @ - 1])
           /\ \A dies \in BOOLEAN :
                BatchSound([r EXCEPT !.done = @ + 1, !.queued = IF dies THEN @ ELSE @ - 1, !.by = IF dies THEN Late ELSE @])
<1>0. r \in BatchRow BY DEF BatchSound
<1>a. r.failed + 1 \in Int /\ r.done + 1 \in Int /\ r.queued - 1 \in Int /\ Late \in Int BY <1>0 DEF BatchRow, Late
<1>1. ASSUME NEW q, q = [r EXCEPT !.failed = r.failed + 1, !.queued = r.queued - 1] PROVE BatchSound(q)
  <2>1. q \in BatchRow BY <1>0, <1>a, <1>1 DEF BatchRow
  <2>2. /\ q.live = r.live /\ q.actor = r.actor /\ q.created = r.created /\ q.cancelled = r.cancelled /\ q.total = r.total
        /\ q.by = r.by /\ q.queued = r.queued - 1 /\ q.done = r.done /\ q.failed = r.failed + 1
    BY <1>0, <1>1 DEF BatchRow
  <2>3. q.done + q.failed = r.done + r.failed + 1 BY <1>0, <2>2 DEF BatchRow
  <2> QED BY <2>1, <2>2, <2>3, RowWorked
<1>2. ASSUME NEW q, q = [r EXCEPT !.done = r.done + 1, !.queued = r.queued - 1] PROVE BatchSound(q)
  <2>1. q \in BatchRow BY <1>0, <1>a, <1>2 DEF BatchRow
  <2>2. /\ q.live = r.live /\ q.actor = r.actor /\ q.created = r.created /\ q.cancelled = r.cancelled /\ q.total = r.total
        /\ q.by = r.by /\ q.queued = r.queued - 1 /\ q.failed = r.failed /\ q.done = r.done + 1
    BY <1>0, <1>2 DEF BatchRow
  <2>3. q.done + q.failed = r.done + r.failed + 1 BY <1>0, <2>2 DEF BatchRow
  <2> QED BY <2>1, <2>2, <2>3, RowWorked
<1>3. ASSUME NEW q, q = [r EXCEPT !.done = r.done + 1, !.by = Late] PROVE BatchSound(q)
  <2>1. q \in BatchRow BY <1>0, <1>a, <1>3 DEF BatchRow
  <2>2. /\ q.live = r.live /\ q.actor = r.actor /\ q.created = r.created /\ q.cancelled = r.cancelled /\ q.total = r.total
        /\ q.by = Late /\ q.queued = r.queued
    BY <1>0, <1>3 DEF BatchRow
  <2> QED BY <2>1, <2>2, RowWorked
<1>4. [r EXCEPT !.queued = @ - 1, !.failed = @ + 1] = [r EXCEPT !.failed = r.failed + 1, !.queued = r.queued - 1]
  BY <1>0 DEF BatchRow
<1>5. [r EXCEPT !.done = @ + 1, !.queued = IF TRUE THEN @ ELSE @ - 1, !.by = IF TRUE THEN Late ELSE @]
        = [r EXCEPT !.done = r.done + 1, !.by = Late]
  BY <1>0 DEF BatchRow
<1>6. [r EXCEPT !.done = @ + 1, !.queued = IF FALSE THEN @ ELSE @ - 1, !.by = IF FALSE THEN Late ELSE @]
        = [r EXCEPT !.done = r.done + 1, !.queued = r.queued - 1]
  BY <1>0 DEF BatchRow
<1> QED BY <1>1, <1>2, <1>3, <1>4, <1>5, <1>6

LEMMA Cancelled ==
    ASSUME CarryInv, NEW r, BatchSound(r), NEW x \in BOOLEAN, r.cancelled => x
    PROVE  BatchSound([r EXCEPT !.cancelled = x])
BY DEF BatchSound, BatchRow

(* The row in the Worker's hand. *)
LEMMA InHand ==
    ASSUME CarryInv, worker # Idle
    PROVE  /\ worker.of \in Batches /\ worker.by \in Int /\ batch[worker.of].queued > 0 /\ BatchSound(batch[worker.of])
           /\ batch[worker.of].live /\ batch[worker.of].actor \in Users /\ users[batch[worker.of].actor].status # "absent"
<1>1. worker.of \in Batches /\ worker.by \in Int /\ batch[worker.of].queued > 0
  BY DEF CarryInv, ScreeningTypeOK, WorkerOK
<1>2. BatchSound(batch[worker.of]) BY <1>1, BatchesSound
<1> QED BY <1>1, <1>2 DEF BatchSound, Told

(* The rows of the batches, looked at with the accounts as they were.        *)
LEMMA BatchStep ==
    ASSUME CarryInv, [Next]_vars
    PROVE  batch' \in [Batches -> BatchRow] /\ \A b \in Batches : BatchSound(batch'[b])
<1> DEFINE G == batch' \in [Batches -> BatchRow] /\ \A b \in Batches : BatchSound(batch'[b])
<1>0. batch \in [Batches -> BatchRow] /\ \A b \in Batches : BatchSound(batch[b])
  BY BatchesSound DEF CarryInv, ScreeningTypeOK
<1>1. ASSUME NEW b \in Batches, NEW r, BatchSound(r), batch' = [batch EXCEPT ![b] = r] PROVE G
  <2>1. r \in BatchRow BY <1>1 DEF BatchSound
  <2> QED BY <1>0, <1>1, <2>1
<1>2. CASE batch' = batch BY <1>0, <1>2
<1>3. ASSUME NEW c \in Callers, NEW b \in Batches, CreateBatch(c, b) PROVE G
  <2> DEFINE parsed == ParseAndValidate(Files[request[c].ask.with])
             by == Mark(Actor(c), Self(c).holder)
             r == [live |-> TRUE, actor |-> Actor(c), by |-> by, created |-> clock,
                   total |-> parsed.rows + parsed.failures, queued |-> parsed.rows, done |-> 0, failed |-> parsed.failures,
                   cancelled |-> FALSE]
  <2>1. request[c].at # "none" /\ request[c].ask.op = "batch" BY <1>3 DEF CreateBatch, Is
  <2>2. Actor(c) \in Users /\ Self(c).holder \in Nat /\ request[c].ask \in Asks
    BY <2>1, OpenRequest DEF CarryInv, AdminInv, UserRow
  <2>3. users[Actor(c)].status # "absent" BY <2>1 DEF CarryInv, AdminInv, SelfOK
  <2>4. parsed.rows \in Nat /\ parsed.failures \in Int BY <2>1, <2>2, ConsoleAssumption, Parsed
  <2>5. Told(Actor(c), by, clock) /\ by \in Int /\ (by # Late => Holds(Actor(c), by))
    BY <2>2, <2>3, MarkTells DEF CarryInv, AdminInv
  <2>6. batch' = [batch EXCEPT ![b] = r] BY <1>3 DEF CreateBatch
  <2> HIDE DEF parsed, by
  <2>7. r \in BatchRow BY <2>2, <2>4, <2>5 DEF BatchRow, CarryInv, AdminInv, DirectoryTypeOK
  <2>8. r.total = r.done + r.failed + r.queued BY <2>4
  <2>9. BatchSound(r) BY <2>2, <2>5, <2>7, <2>8 DEF BatchSound
  <2> HIDE DEF r
  <2> QED BY <1>1, <2>6, <2>9
<1>4. ASSUME NEW c \in Callers, CancelBatch(c) PROVE G
  <2> DEFINE b == request[c].ask.with
  <2>1. batch' = batch \/ batch' = [batch EXCEPT ![b].cancelled = TRUE] BY <1>4 DEF CancelBatch
  <2>2. CASE batch' = [batch EXCEPT ![b].cancelled = TRUE] /\ b \in Batches
    <3>1. batch' = [batch EXCEPT ![b] = [batch[b] EXCEPT !.cancelled = TRUE]] BY <2>2
    <3>2. BatchSound([batch[b] EXCEPT !.cancelled = TRUE]) BY <1>0, <2>2, Cancelled
    <3> QED BY <1>1, <2>2, <3>1, <3>2
  <2>3. CASE batch' = [batch EXCEPT ![b].cancelled = TRUE] /\ b \notin Batches BY <1>0, <1>2, <2>3
  <2> QED BY <1>2, <2>1, <2>2, <2>3
<1>5. ASSUME NEW c \in Callers, DeleteUser(c) PROVE G
  <2>1. CASE MayDelete(c)
    <3> DEFINE x(b) == batch[b].cancelled \/ (batch[b].actor = Target(c) /\ Unfinished(b))
    <3>1. batch' = [b \in Batches |-> [batch[b] EXCEPT !.cancelled = x(b)]] BY <1>5, <2>1 DEF DeleteUser
    <3>2. \A b \in Batches : x(b) \in BOOLEAN /\ (batch[b].cancelled => x(b)) OBVIOUS
    <3> HIDE DEF x
    <3>3. \A b \in Batches : BatchSound([batch[b] EXCEPT !.cancelled = x(b)]) BY <1>0, <3>2, Cancelled
    <3>4. \A b \in Batches : [batch[b] EXCEPT !.cancelled = x(b)] \in BatchRow BY <3>3 DEF BatchSound
    <3> QED BY <3>1, <3>3, <3>4
  <2>2. CASE ~MayDelete(c) BY <1>2, <1>5, <2>2 DEF DeleteUser
  <2> QED BY <2>1, <2>2
<1>6. ASSUME NEW b \in Batches, TakeRow(b) PROVE G
  <2>1. batch[b].queued > 0 /\ (batch' = batch \/ batch' = [batch EXCEPT ![b].queued = @ - 1, ![b].failed = @ + 1])
    BY <1>6 DEF TakeRow
  <2>2. CASE batch' = [batch EXCEPT ![b].queued = @ - 1, ![b].failed = @ + 1]
    <3>1. batch' = [batch EXCEPT ![b] = [batch[b] EXCEPT !.queued = @ - 1, !.failed = @ + 1]] BY <1>0, <2>2
    <3>2. BatchSound([batch[b] EXCEPT !.queued = @ - 1, !.failed = @ + 1]) BY <1>0, <2>1, RowDone
    <3> QED BY <1>1, <3>1, <3>2
  <2> QED BY <1>2, <2>1, <2>2
<1>7. ASSUME NEW dies \in BOOLEAN, StoreRow(dies) PROVE G
  <2> DEFINE b == worker.of
             r == [batch[b] EXCEPT !.done = @ + 1, !.queued = IF dies THEN @ ELSE @ - 1, !.by = IF dies THEN Late ELSE @]
  <2>1. worker # Idle BY <1>7 DEF StoreRow
  <2>2. b \in Batches /\ BatchSound(r) BY <2>1, InHand, RowDone
  <2>3. batch' = [batch EXCEPT ![b] = r] BY <1>0, <1>7, <2>2 DEF StoreRow
  <2> QED BY <1>1, <2>2, <2>3
<1>8. CASE FailRow
  <2> DEFINE b == worker.of
             r == [batch[b] EXCEPT !.failed = @ + 1, !.queued = @ - 1]
  <2>1. worker # Idle BY <1>8 DEF FailRow
  <2>2. b \in Batches /\ BatchSound(r) BY <2>1, InHand, RowDone
  <2>3. batch' = [batch EXCEPT ![b] = r] BY <1>0, <1>8, <2>2 DEF FailRow
  <2> QED BY <1>1, <2>2, <2>3
<1> QED BY <1>2, <1>3, <1>4, <1>5, <1>6, <1>7, <1>8, ScreeningFrame DEF screeningVars, CreateCheck

(* The checks, looked at with the accounts as they were.                     *)
LEMMA CheckStep ==
    ASSUME CarryInv, [Next]_vars
    PROVE  \A r \in checks' : r \in Check /\ Told(r.actor, r.by, r.created)
<1> SUFFICES ASSUME NEW r \in checks', r \notin checks PROVE r \in Check /\ Told(r.actor, r.by, r.created)
  BY DEF CarryInv, ScreeningTypeOK, ChecksOK
<1>0. clock \in Nat BY DEF CarryInv, AdminInv, DirectoryTypeOK
<1>1. ASSUME NEW c \in Callers, CreateCheck(c) PROVE r \in Check /\ Told(r.actor, r.by, r.created)
  <2>1. request[c].at # "none" BY <1>1 DEF CreateCheck, Is
  <2>2. Actor(c) \in Users /\ Self(c).holder \in Nat BY <1>1, <2>1, OpenRequest DEF CarryInv, AdminInv, UserRow
  <2>3. users[Actor(c)].status # "absent" BY <2>1 DEF CarryInv, AdminInv, SelfOK
  <2>4. r = [actor |-> Actor(c), created |-> clock, by |-> Mark(Actor(c), Self(c).holder)] BY <1>1 DEF CreateCheck
  <2>5. Told(Actor(c), Mark(Actor(c), Self(c).holder), clock) /\ Mark(Actor(c), Self(c).holder) \in Int
    BY <2>2, <2>3, MarkTells DEF CarryInv, AdminInv
  <2> QED BY <1>0, <2>2, <2>4, <2>5 DEF Check
<1>2. ASSUME NEW dies \in BOOLEAN, StoreRow(dies) PROVE r \in Check /\ Told(r.actor, r.by, r.created)
  <2> DEFINE u == batch[worker.of].actor
             by == IF worker.by = Late THEN batch[worker.of].by ELSE Mark(u, worker.by)
  <2>1. worker # Idle BY <1>2 DEF StoreRow
  <2>2. worker.by \in Int /\ u \in Users /\ users[u].status # "absent" BY <2>1, InHand
  <2>3. r = [actor |-> u, created |-> clock, by |-> by] BY <1>2 DEF StoreRow
  <2>4. CASE worker.by = Late
    <3>1. by = Late BY <2>1, <2>4 DEF CarryInv, WorkerOK
    <3>2. Told(u, Late, clock) BY <1>0, <2>2 DEF Told
    <3> QED BY <1>0, <2>2, <2>3, <3>1, <3>2 DEF Check, Late
  <2>5. CASE worker.by # Late
    <3>1. Told(u, by, clock) /\ by \in Int BY <2>2, <2>5, MarkTells DEF CarryInv, AdminInv
    <3> HIDE DEF by
    <3> QED BY <1>0, <2>2, <2>3, <3>1 DEF Check
  <2> QED BY <2>4, <2>5
<1> QED BY <1>1, <1>2, ScreeningFrame DEF screeningVars, CancelBatch, DeleteUser, CreateBatch, TakeRow, FailRow

LEMMA WorkerStep ==
    ASSUME CarryInv, [Next]_vars
    PROVE  (worker # Idle => worker.of \in Batches /\ worker.by \in Int)' /\ WorkerOK'
<1> DEFINE G == (worker # Idle => worker.of \in Batches /\ worker.by \in Int)' /\ WorkerOK'
<1>0. batch \in [Batches -> BatchRow] /\ \A b \in Batches : BatchSound(batch[b])
  BY BatchesSound DEF CarryInv, ScreeningTypeOK
<1>1. ASSUME worker' = worker,
             worker # Idle => /\ batch'[worker.of].queued = batch[worker.of].queued
                              /\ batch'[worker.of].by = batch[worker.of].by
      PROVE  G
  BY <1>1, InHand DEF CarryInv, WorkerOK
<1>2. CASE UNCHANGED <<batch, worker>> BY <1>1, <1>2
<1>3. ASSUME NEW c \in Callers, NEW b \in Batches, CreateBatch(c, b) PROVE G
  <2>1. worker' = worker /\ ~batch[b].live BY <1>3 DEF CreateBatch
  <2>2. worker # Idle => worker.of # b BY <2>1, InHand
  <2>3. worker # Idle => batch'[worker.of] = batch[worker.of] BY <1>0, <1>3, <2>2, InHand DEF CreateBatch
  <2> QED BY <1>1, <2>1, <2>3
<1>4. ASSUME NEW c \in Callers, CancelBatch(c) PROVE G
  <2>1. worker' = worker /\ (batch' = batch \/ batch' = [batch EXCEPT ![request[c].ask.with].cancelled = TRUE])
    BY <1>4 DEF CancelBatch
  <2>2. \A b \in Batches : batch'[b].queued = batch[b].queued /\ batch'[b].by = batch[b].by
    BY <1>0, <2>1 DEF BatchRow
  <2> QED BY <1>1, <2>1, <2>2, InHand
<1>5. ASSUME NEW c \in Callers, DeleteUser(c) PROVE G
  <2>1. worker' = worker BY <1>5 DEF DeleteUser
  <2>2. \A b \in Batches : batch'[b].queued = batch[b].queued /\ batch'[b].by = batch[b].by
    BY <1>0, <1>5 DEF BatchRow, DeleteUser
  <2> QED BY <1>1, <2>1, <2>2, InHand
<1>6. ASSUME NEW b \in Batches, TakeRow(b) PROVE G
  <2>1. CASE batch[b].cancelled
    <3>1. worker' = Idle BY <1>6, <2>1 DEF TakeRow
    <3> QED BY <3>1 DEF WorkerOK
  <2>2. CASE ~batch[b].cancelled
    <3> DEFINE held == Holds(batch[b].actor, batch[b].by)
    <3>1. /\ worker' = [of |-> b, by |-> IF held THEN batch[b].by ELSE Late]
          /\ batch' = batch /\ batch[b].queued > 0
      BY <1>6, <2>2 DEF TakeRow
    <3>2. batch[b].by # Late => held BY <1>0, <2>2, <3>1 DEF BatchSound
    <3> HIDE DEF held
    <3>3. worker'.of = b /\ (worker'.by = batch[b].by \/ (worker'.by = Late /\ batch[b].by = Late))
      BY <3>1, <3>2
    <3>4. batch[b].by \in Int /\ Late \in Int BY <1>0 DEF BatchRow, Late
    <3> QED BY <3>1, <3>3, <3>4 DEF WorkerOK
  <2> QED BY <2>1, <2>2
<1>7. CASE worker' = Idle BY <1>7 DEF WorkerOK
<1> QED BY <1>2, <1>3, <1>4, <1>5, <1>6, <1>7, ScreeningFrame DEF screeningVars, CreateCheck, StoreRow, FailRow

-----------------------------------------------------------------------------
LEMMA CarryInit == Init => CarryInv
<1> SUFFICES ASSUME Init PROVE CarryInv OBVIOUS
<1>1. AdminInv BY AdminInit
<1>2. NoBatch \in BatchRow /\ ~NoBatch.live /\ NoBatch.queued = 0 BY DEF NoBatch, BatchRow
<1>3. \A b \in Batches : batch[b] = NoBatch BY DEF Init
<1>4. ScreeningTypeOK BY <1>2 DEF Init, ScreeningTypeOK
<1>5. ChecksOK /\ BatchesOK /\ CountsOK BY <1>2, <1>3 DEF Init, ChecksOK, BatchesOK, CountsOK
<1>6. WorkerOK BY DEF Init, WorkerOK
<1>7. NamesOK BY DEF Init, DirectoryInit, NamesOK, FirstRow
<1>8. StampsOK BY DEF Init, DirectoryInit, StampsOK, NoRequest
<1> QED BY <1>1, <1>4, <1>5, <1>6, <1>7, <1>8 DEF CarryInv

LEMMA CarryNext == CarryInv /\ [Next]_vars => CarryInv'
<1> SUFFICES ASSUME CarryInv, [Next]_vars PROVE CarryInv' OBVIOUS
<1> USE DEF CarryInv
<1>1. AdminInv' BY AdminNext
<1>2. StampsOK' /\ NamesOK' BY StampsStep, NamesStep
<1>3. (worker # Idle => worker.of \in Batches /\ worker.by \in Int)' /\ WorkerOK' BY WorkerStep
<1>4. batch' \in [Batches -> BatchRow] /\ \A b \in Batches : BatchSound(batch'[b]) BY BatchStep
<1>5. checks' \subseteq Check /\ ChecksOK'
  <2>1. \A r \in checks' : r \in Check /\ Told(r.actor, r.by, r.created) BY CheckStep
  <2>2. ASSUME NEW r \in checks' PROVE Told(r.actor, r.by, r.created)'
    <3>1. r.actor \in Users /\ r.by \in Int /\ r.created \in Nat /\ Told(r.actor, r.by, r.created)
      BY <2>1 DEF Check
    <3> QED BY <3>1, ToldStep
  <2> QED BY <2>1, <2>2 DEF ChecksOK
<1>6. \A b \in Batches : batch'[b].live =>
        /\ batch'[b].actor \in Users /\ batch'[b].by \in Int /\ batch'[b].created \in Nat
        /\ Told(batch'[b].actor, batch'[b].by, batch'[b].created)
  BY <1>4 DEF BatchSound, BatchRow
<1>7. BatchesOK'
  <2>1. \A u \in Users, h \in Int, t \in Nat : Told(u, h, t) => Told(u, h, t)' BY ToldStep
  <2> QED BY <1>6, <2>1 DEF BatchesOK
<1>8. ASSUME NEW b \in Batches, batch'[b].live, batch'[b].by # Late, batch'[b].queued > 0, ~batch'[b].cancelled
      PROVE  users'[batch'[b].actor].holder = batch'[b].by /\ users'[batch'[b].actor].status # "deleted"
  <2>1. /\ batch'[b].actor \in Users /\ batch'[b].by \in Int /\ users[batch'[b].actor].status # "absent"
        /\ Holds(batch'[b].actor, batch'[b].by)
    BY <1>4, <1>6, <1>8 DEF BatchSound, Told
  <2>2. ASSUME NEW c \in Callers, DeleteUser(c), MayDelete(c), Target(c) = batch'[b].actor PROVE FALSE
    <3>0. batch \in [Batches -> BatchRow] BY DEF ScreeningTypeOK
    <3>1. batch'[b] = [batch[b] EXCEPT !.cancelled = @ \/ (batch[b].actor = Target(c) /\ Unfinished(b))]
      BY <2>2 DEF DeleteUser
    <3>2. batch'[b].actor = batch[b].actor /\ ~Unfinished(b) BY <1>8, <2>2, <3>0, <3>1 DEF BatchRow
    <3>3. batch[b].live /\ batch[b].by # Late /\ batch[b].queued > 0 BY <1>8, <3>0, <3>1 DEF BatchRow
    <3>4. batch[b].total = batch[b].done + batch[b].failed + batch[b].queued BY <3>3 DEF CountsOK
    <3> QED BY <3>0, <3>2, <3>3, <3>4 DEF Unfinished, BatchRow
  <2>3. \A v \in Users, h \in Int : (users[v].status # "absent" /\ Holds(v, h)) =>
            (users'[v].holder = h /\ users'[v].status # "deleted") \/ \E c \in Callers : DeleteUser(c) /\ MayDelete(c) /\ Target(c) = v
    BY HoldsStep DEF Holds
  <2> QED BY <2>1, <2>2, <2>3
<1>9. CountsOK' BY <1>4, <1>8 DEF CountsOK, BatchSound, Holds
<1>10. ScreeningTypeOK' BY <1>3, <1>4, <1>5 DEF ScreeningTypeOK
<1> QED BY <1>1, <1>2, <1>3, <1>5, <1>7, <1>9, <1>10

(* Whoever gets an account whose address somebody else had finds nothing of  *)
(* that person, apart from what was under way when it changed hands.         *)
THEOREM AddressInheritsNothing == Spec => []NothingCarriesOver
<1>1. ASSUME CarryInv PROVE NothingCarriesOver
  <2> SUFFICES ASSUME NEW u \in Users, users[u].status = "active"
               PROVE  /\ users[u].name \in {0, Late, users[u].holder} /\ users[u].login \in {0, Late, users[u].holder}
                      /\ \A r \in checks : Owns(u, users[u], r.actor, r.created) => r.by \in {0, Late, users[u].holder}
                      /\ \A b \in Batches : (batch[b].live /\ Owns(u, users[u], batch[b].actor, batch[b].created))
                            => batch[b].by \in {0, Late, users[u].holder}
    BY DEF NothingCarriesOver
  <2> USE <1>1 DEF CarryInv
  <2>1. users[u].since \in Nat BY DEF AdminInv, DirectoryTypeOK, UserRow
  <2>2. \A h \in Int, t \in Nat : Told(u, h, t) /\ t >= users[u].since => h \in {Late, users[u].holder}
    BY <2>1 DEF Told
  <2>3. ASSUME NEW r \in checks, Owns(u, users[u], r.actor, r.created) PROVE r.by \in {Late, users[u].holder}
    BY <2>2, <2>3 DEF Owns, ChecksOK, ScreeningTypeOK, Check
  <2>4. ASSUME NEW b \in Batches, batch[b].live, Owns(u, users[u], batch[b].actor, batch[b].created)
        PROVE  batch[b].by \in {Late, users[u].holder}
    BY <2>2, <2>4 DEF Owns, BatchesOK, ScreeningTypeOK, BatchRow
  <2> QED BY <2>3, <2>4 DEF NamesOK
<1> QED BY <1>1, CarryInit, CarryNext, PTL DEF Spec

=============================================================================
