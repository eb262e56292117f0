----------------------------- MODULE TeamsProofs -----------------------------
(* Proofs about Teams, for any number of users, requests, links and sessions *)
(* and any mix of operations.  The argument is the row lock of _transition:  *)
(* while a transition runs nobody else writes its user's status, and nobody  *)
(* can add a session for the user.                                           *)
EXTENDS Teams, TLAPS

Transits(q) == tx[q].pc \in Writing /\ tx[q].op \in Transitions

(* What the row lock was taken on is still so when the transition commits.   *)
DecisionStands == \A q \in Requests : Transits(q) =>
    /\ tx[q].who \in Users
    /\ tx[q].from = status[tx[q].who]
    /\ tx[q].from \in Allowed[tx[q].op]
    /\ tx[q].to = Target[tx[q].op]

(* SELECT ... FOR UPDATE: one transition of a user at a time. *)
OneTransition == \A p, q \in Requests :
    Transits(p) /\ Transits(q) /\ tx[p].who = tx[q].who => p = q

(* A transition out of active writes all of the user's live sessions. *)
Exits(q) == Transits(q) /\ tx[q].op # "reactivate"
RevokesAll == \A q \in Requests : Exits(q) /\ tx[q].pc # "revoke" =>
    LiveSessions(tx[q].who) \subseteq tx[q].revokes

(* A request that is not in a transaction holds no lock. *)
OpsFit == \A q \in Requests :
    /\ tx[q].pc = "idle" => tx[q] = Idle
    /\ tx[q].pc \in {"role", "endOne", "logout", "loadInstructor", "loadTa", "insertLink", "insertSession"} => tx[q].op \notin Transitions
    /\ tx[q].pc = "revoke" => Exits(q)
    /\ tx[q].pc = "endOne" => tx[q].op = "end"
    /\ tx[q].op = "role" => tx[q].who \in Users /\ tx[q].to \in Roles
    /\ tx[q].pc = "role" => tx[q].op = "role"
    /\ tx[q].op = "reactivate" => tx[q].pc = "signOut"

IInv == TypeOK /\ DecisionStands /\ OneTransition /\ RevokesAll /\ OpsFit

----------------------------------------------------------------------------
(* Type correctness *)

LEMMA InitTyped == Init => TypeOK
BY TeamsAssumption DEF Init, TypeOK, Idle, Pcs, Writing, Statuses, Roles, Transitions

(* What a request's record may hold. *)
Record == [pc : Pcs, op : Transitions \cup {"none", "role", "link", "end", "login", "logout"},
           who : Users \cup {NoUser}, other : Users \cup {NoUser},
           from : Statuses \cup {"none"}, to : Statuses \cup Roles \cup {"none"},
           row : SUBSET Links, tas : SUBSET (Users \cup {NoUser}), ends : SUBSET Links,
           revokes : SUBSET Sessions, out : SUBSET Sessions]

(* A step inside a transaction is typed when the request's record is. *)
LEMMA InsideTyped ==
    ASSUME TypeOK, NEW q \in Requests, NEW r \in Record, tx' = [tx EXCEPT ![q] = r], UNCHANGED <<tables, since>>
    PROVE  TypeOK'
BY DEF TypeOK, Record, tables

(* Updates of a record keep it typed. *)
LEMMA RecordUpdates ==
    ASSUME NEW r \in Record, NEW pc \in Pcs
    PROVE  /\ \A S \in SUBSET Sessions : [r EXCEPT !.revokes = S, !.pc = pc] \in Record
           /\ \A S \in SUBSET (Users \cup {NoUser}) : [r EXCEPT !.tas = S, !.pc = pc] \in Record
           /\ \A S \in SUBSET Links : [r EXCEPT !.ends = S, !.pc = pc] \in Record
           /\ \A S \in SUBSET Sessions : [r EXCEPT !.out = S, !.pc = pc] \in Record
BY ZenonT(60) DEF Record

(* The history stays typed. *)
LEMMA NotedTyped ==
    ASSUME TypeOK, NEW q, NEW C \in SUBSET (Users \cup Sessions), Noted(q, C)
    PROVE  since' \in [Requests -> SUBSET (Users \cup Sessions)]
BY DEF TypeOK, Noted

(* One step of a request keeps the types. *)
LEMMA StepTyped ==
    ASSUME TypeOK, DecisionStands, OpsFit, NEW q \in Requests, Begin(q) \/ Continue(q)
    PROVE  TypeOK'
<1> USE TeamsAssumption
<1> USE DEF Record, Idle, Pcs, Writing, Statuses, Roles, Transitions
<1>0. Idle \in Record /\ tx[q] \in Record
  BY DEF TypeOK
<1>1. ASSUME NEW u \in Users, NEW op \in Transitions, LockUser(q, u, op) PROVE TypeOK'
  <2> DEFINE r == [Idle EXCEPT !.pc = IF op = "reactivate" THEN "signOut" ELSE "revoke", !.op = op, !.who = u,
                 !.from = status[u], !.to = Target[op], !.tas = IF op = "reactivate" THEN {} ELSE TeamOf(u)]
  <2>1. Target[op] \in Statuses /\ TeamOf(u) \subseteq Users /\ status[u] \in Statuses
    BY DEF Target, TeamOf, TypeOK
  <2>2. r \in Record
    BY <2>1
  <2>3. tx' = [tx EXCEPT ![q] = r] /\ UNCHANGED <<tables, since>>
    BY <1>1 DEF LockUser
  <2> HIDE DEF r, Record
  <2>4. QED
    BY <2>2, <2>3, InsideTyped
<1>2. ASSUME NEW u \in Users, NEW r \in Roles, ReadRole(q, u, r) PROVE TypeOK'
  <2>1. [Idle EXCEPT !.pc = "role", !.op = "role", !.who = u, !.to = r] \in Record
    OBVIOUS
  <2>2. QED
    BY <2>1, <1>2, InsideTyped DEF ReadRole
<1>3. ASSUME NEW t \in Users, NEW i \in Users, LoadTa(q, t, i) \/ LoadActor(q, t, i) PROVE TypeOK'
  <2> DEFINE r(first) == [Idle EXCEPT !.pc = first, !.op = "link", !.who = t, !.other = i]
  <2>1. r("loadInstructor") \in Record /\ r("loadTa") \in Record
    OBVIOUS
  <2>2. \/ tx' = [tx EXCEPT ![q] = r("loadInstructor")]
        \/ tx' = [tx EXCEPT ![q] = r("loadTa")]
    BY <1>3 DEF LoadTa, LoadActor
  <2>3. UNCHANGED <<tables, since>>
    BY <1>3 DEF LoadTa, LoadActor
  <2> HIDE DEF r, Record
  <2>4. QED
    BY <2>1, <2>2, <2>3, InsideTyped
<1>4. ASSUME NEW l \in Links, ReadLink(q, l) PROVE TypeOK'
  <2>1. link[l].ta \in Users \cup {NoUser} /\ link[l].state = "active"
    BY <1>4 DEF TypeOK, ReadLink, ActiveLinks
  <2>2. [Idle EXCEPT !.pc = "endOne", !.op = "end", !.row = {l}, !.tas = {link[l].ta}] \in Record
    BY <2>1
  <2>3. QED
    BY <2>2, <1>4, InsideTyped DEF ReadLink
<1>5. ASSUME NEW u \in Users, ResolveUser(q, u) PROVE TypeOK'
  <2>1. [Idle EXCEPT !.pc = "insertSession", !.op = "login", !.who = u] \in Record
    OBVIOUS
  <2>2. QED
    BY <2>1, <1>5, InsideTyped DEF ResolveUser
<1>6. ASSUME NEW s \in Sessions, ReadSession(q, s) PROVE TypeOK'
  <2>1. session[s].user \in Users \cup {NoUser}
    BY DEF TypeOK
  <2>2. [Idle EXCEPT !.pc = "logout", !.op = "logout", !.who = session[s].user] \in Record
    BY <2>1
  <2>3. QED
    BY <2>2, <1>6, InsideTyped DEF ReadSession
<1>7. ASSUME RevokeOwn(q) PROVE TypeOK'
  <2> DEFINE S == LiveSessions(tx[q].who)
             next == IF tx[q].op = "delete" THEN "endLinks" ELSE "select"
             r == [tx[q] EXCEPT !.revokes = S, !.pc = next]
  <2>1. S \in SUBSET Sessions
    BY <1>0 DEF LiveSessions
  <2> HIDE DEF S, Record
  <2>2. r \in Record
    BY <2>1, <1>0, RecordUpdates
  <2>3. tx' = [tx EXCEPT ![q] = r]
    BY <1>7 DEF RevokeOwn, TypeOK, S
  <2>4. UNCHANGED <<tables, since>>
    BY <1>7 DEF RevokeOwn
  <2> HIDE DEF r
  <2>5. QED
    BY <2>2, <2>3, <2>4, InsideTyped
<1>8. ASSUME WriteRole(q) PROVE TypeOK'
  <2> DEFINE S == TeamOf(tx[q].who)
             r == [tx[q] EXCEPT !.tas = S, !.pc = "endLinks"]
  <2>1. S \in SUBSET (Users \cup {NoUser})
    BY <1>0 DEF TeamOf
  <2> HIDE DEF S, Record
  <2>2. r \in Record
    BY <2>1, <1>0, RecordUpdates
  <2>3. tx' = [tx EXCEPT ![q] = r]
    BY <1>8, ZenonT(60) DEF WriteRole, TypeOK, S
  <2>4. UNCHANGED <<tables, since>>
    BY <1>8 DEF WriteRole
  <2> HIDE DEF r
  <2>5. QED
    BY <2>2, <2>3, <2>4, InsideTyped
<1>9. ASSUME EndOne(q) PROVE TypeOK'
  BY <1>9 DEF EndOne, TypeOK, tables
<1>10. ASSUME EndLinks(q) PROVE TypeOK'
  <2> DEFINE S == {l \in ActiveLinks : tx[q].who \in {link[l].ta, link[l].instructor}}
             r == [tx[q] EXCEPT !.ends = S, !.pc = "select"]
  <2>1. S \in SUBSET Links
    BY <1>0 DEF ActiveLinks
  <2> HIDE DEF S, Record
  <2>2. r \in Record
    BY <2>1, <1>0, RecordUpdates
  <2>3. tx' = [tx EXCEPT ![q] = r]
    BY <1>10 DEF EndLinks, TypeOK, S
  <2>4. UNCHANGED <<tables, since>>
    BY <1>10 DEF EndLinks
  <2> HIDE DEF r
  <2>5. QED
    BY <2>2, <2>3, <2>4, InsideTyped
<1>11. ASSUME SelectOut(q) PROVE TypeOK'
  <2> DEFINE S == UNION {LiveSessions(t) : t \in {u \in tx[q].tas : ~StillSupervised(q, u)}}
             r == [tx[q] EXCEPT !.out = S, !.pc = "signOut"]
  <2>1. S \in SUBSET Sessions
    BY <1>0 DEF LiveSessions
  <2> HIDE DEF S, Record
  <2>2. r \in Record
    BY <2>1, <1>0, RecordUpdates
  <2>3. tx' = [tx EXCEPT ![q] = r]
    BY <1>11, ZenonT(60) DEF SelectOut, TypeOK, S
  <2>4. UNCHANGED <<tables, since>>
    BY <1>11 DEF SelectOut
  <2> HIDE DEF r
  <2>5. QED
    BY <2>2, <2>3, <2>4, InsideTyped
<1>12. ASSUME Commit(q) PROVE TypeOK'
  <2>1. tx[q].pc \in Writing
    BY <1>12 DEF Commit
  <2>2. tx' \in [Requests -> Record]
    BY <1>0, <1>12 DEF Commit, TypeOK
  <2>3. /\ link' \in [Links -> [ta : Users \cup {NoUser}, instructor : Users \cup {NoUser}, state : {"unused", "active", "ended"}]]
        /\ session' \in [Sessions -> [user : Users \cup {NoUser}, state : {"unused", "live", "revoked"}]]
    <3>1. \A l \in Links : [link[l] EXCEPT !.state = "ended"] \in [ta : Users \cup {NoUser}, instructor : Users \cup {NoUser}, state : {"unused", "active", "ended"}]
      <4> TAKE l \in Links
      <4>1. link[l] \in [ta : Users \cup {NoUser}, instructor : Users \cup {NoUser}, state : {"unused", "active", "ended"}]
        BY DEF TypeOK
      <4>2. QED
        BY <4>1
    <3>2. \A s \in Sessions : [session[s] EXCEPT !.state = "revoked"] \in [user : Users \cup {NoUser}, state : {"unused", "live", "revoked"}]
      BY DEF TypeOK
    <3>3. link' = [l \in Links |-> IF l \in tx[q].ends THEN [link[l] EXCEPT !.state = "ended"] ELSE link[l]]
      BY <1>12 DEF Commit
    <3>4. session' = [s \in Sessions |-> IF s \in tx[q].revokes \cup tx[q].out THEN [session[s] EXCEPT !.state = "revoked"] ELSE session[s]]
      BY <1>12 DEF Commit
    <3>5. QED
      BY <3>1, <3>2, <3>3, <3>4 DEF TypeOK
  <2>4. since' \in [Requests -> SUBSET (Users \cup Sessions)]
    <3>1. Resupervised \in SUBSET (Users \cup Sessions)
      BY DEF Resupervised
    <3>2. QED
      BY <3>1, <1>12, NotedTyped DEF Commit
  <2>5. CASE tx[q].op \in Transitions
    <3>1. tx[q].who \in Users /\ tx[q].from \in Statuses /\ tx[q].to \in Statuses
      BY <2>1, <2>5 DEF DecisionStands, Transits, Target, TypeOK
    <3>2. tx[q].op # "role"
      BY <2>5
    <3>3. status' \in [Users -> Statuses]
      BY <3>1, <2>5, <1>12 DEF Commit, TypeOK
    <3>4. audit' \in [Users -> [from : Statuses \cup {"none"}, to : Statuses]]
      BY <3>1, <2>5, <1>12 DEF Commit, TypeOK
    <3>5. role' \in [Users -> Roles]
      BY <3>2, <1>12 DEF Commit, TypeOK
    <3>6. QED
      BY <3>3, <3>4, <3>5, <2>2, <2>3, <2>4 DEF TypeOK
  <2>6. CASE tx[q].op \notin Transitions
    <3>1. UNCHANGED <<status, audit>>
      BY <2>6, <1>12 DEF Commit
    <3>2. role' \in [Users -> Roles]
      BY <1>12 DEF Commit, TypeOK, OpsFit
    <3>3. QED
      BY <3>1, <3>2, <2>2, <2>3, <2>4 DEF TypeOK
  <2>7. QED
    BY <2>5, <2>6
<1>13. ASSUME LoadInstructor(q) \/ LoadOwnTa(q) PROVE TypeOK'
  <2>1. /\ [tx[q] EXCEPT !.pc = "insertLink"] \in Record
    BY <1>0
  <2>2. QED
    BY <2>1, <1>0, <1>13, InsideTyped DEF LoadInstructor, LoadOwnTa
<1>14. ASSUME InsertLink(q) PROVE TypeOK'
  <2>1. since' \in [Requests -> SUBSET (Users \cup Sessions)]
    <3>1. Resupervised \in SUBSET (Users \cup Sessions)
      BY DEF Resupervised
    <3>2. QED
      BY <3>1, <1>14, NotedTyped DEF InsertLink
  <2>2. tx' \in [Requests -> Record] /\ UNCHANGED <<status, role, session, audit>>
    BY <1>0, <1>14 DEF InsertLink, TypeOK
  <2>3. link' \in [Links -> [ta : Users \cup {NoUser}, instructor : Users \cup {NoUser}, state : {"unused", "active", "ended"}]]
    <3>1. CASE UNCHANGED link
      BY <3>1 DEF TypeOK
    <3>2. [ta |-> tx[q].who, instructor |-> tx[q].other, state |-> "active"] \in [ta : Users \cup {NoUser}, instructor : Users \cup {NoUser}, state : {"unused", "active", "ended"}]
      BY <1>0
    <3>3. CASE \E l \in Links : link' = [link EXCEPT ![l] = [ta |-> tx[q].who, instructor |-> tx[q].other, state |-> "active"]]
      BY <3>2, <3>3 DEF TypeOK
    <3>4. QED
      BY <1>14, <3>1, <3>3 DEF InsertLink
  <2>4. QED
    BY <2>1, <2>2, <2>3 DEF TypeOK
<1>15. ASSUME NEW s \in Sessions, CreateSession(q, s) PROVE TypeOK'
  BY <1>15 DEF CreateSession, Noted, TypeOK
<1>16. ASSUME RevokeAll(q) PROVE TypeOK'
  BY <1>16 DEF RevokeAll, Noted, TypeOK
<1>17. ASSUME Abort(q) PROVE TypeOK'
  BY <1>17 DEF Abort, Noted, TypeOK, tables
<1>18. QED
  BY <1>1, <1>2, <1>3, <1>4, <1>5, <1>6, <1>7, <1>8, <1>9, <1>10, <1>11, <1>12, <1>13, <1>14, <1>15, <1>16, <1>17
  DEF Begin, Continue

----------------------------------------------------------------------------
(* The lock is kept *)

LEMMA InitInv == Init => IInv
<1> SUFFICES ASSUME Init PROVE IInv
  OBVIOUS
<1>1. \A q \in Requests : tx[q] = Idle
  BY DEF Init
<1>2. QED
  BY <1>1, InitTyped DEF IInv, DecisionStands, OneTransition, RevokesAll, OpsFit, Exits, Transits, Idle, Writing, Transitions

(* A step after which request q holds no lock of a transition, that leaves   *)
(* the users and the sessions locked by others alone.                        *)
LEMMA QuietStep ==
    ASSUME IInv, NEW q \in Requests,
           \A p \in Requests \ {q} : tx'[p] = tx[p],
           ~Transits(q)',
           \A p \in Requests \ {q} : Transits(p) => status'[tx[p].who] = status[tx[p].who],
           \A p \in Requests \ {q} : Exits(p) => \A s \in Sessions :
               session'[s].state = "live" /\ session'[s].user = tx[p].who => s \in LiveSessions(tx[p].who)
    PROVE  DecisionStands' /\ OneTransition' /\ RevokesAll'
<1>1. \A p \in Requests : Transits(p)' => p # q /\ tx'[p] = tx[p] /\ Transits(p)
  BY DEF Transits
<1>2. \A p \in Requests : Exits(p)' => p # q /\ tx'[p] = tx[p] /\ Exits(p)
  BY <1>1 DEF Exits
<1>3. DecisionStands'
  BY <1>1 DEF DecisionStands, IInv
<1>4. OneTransition'
  BY <1>1 DEF OneTransition, IInv
<1>5. RevokesAll'
  BY <1>2 DEF RevokesAll, IInv, LiveSessions
<1>6. QED
  BY <1>3, <1>4, <1>5

(* A step between two writes of q's transaction. *)
LEMMA WritingStep ==
    ASSUME IInv, NEW q \in Requests,
           \A p \in Requests \ {q} : tx'[p] = tx[p],
           UNCHANGED <<status, session>>,
           tx[q].pc \in Writing, tx'[q].pc \in Writing,
           tx'[q].op = tx[q].op, tx'[q].who = tx[q].who, tx'[q].from = tx[q].from, tx'[q].to = tx[q].to,
           Exits(q) => LiveSessions(tx[q].who) \subseteq tx'[q].revokes
    PROVE  DecisionStands' /\ OneTransition' /\ RevokesAll'
<1>1. \A p \in Requests : /\ Transits(p)' <=> Transits(p)
                          /\ Exits(p)' <=> Exits(p)
                          /\ tx'[p].op = tx[p].op /\ tx'[p].who = tx[p].who
                          /\ tx'[p].from = tx[p].from /\ tx'[p].to = tx[p].to
  BY DEF Transits, Exits
<1>2. DecisionStands'
  BY <1>1 DEF DecisionStands, IInv
<1>3. OneTransition'
  BY <1>1 DEF OneTransition, IInv
<1>4. \A u : LiveSessions(u)' = LiveSessions(u)
  BY DEF LiveSessions
<1>5. RevokesAll'
  <2> SUFFICES ASSUME NEW p \in Requests, Exits(p)', tx'[p].pc # "revoke"
               PROVE  LiveSessions(tx[p].who) \subseteq tx'[p].revokes
    BY <1>1, <1>4 DEF RevokesAll
  <2>1. CASE p = q
    BY <2>1, <1>1
  <2>2. CASE p # q
    BY <2>2, <1>1 DEF RevokesAll, IInv
  <2>3. QED
    BY <2>1, <2>2
<1>6. QED
  BY <1>2, <1>3, <1>5

(* The records of the requests that do not step. *)
LEMMA OneSteps ==
    ASSUME TypeOK, NEW q \in Requests, Begin(q) \/ Continue(q)
    PROVE  \A p \in Requests \ {q} : tx'[p] = tx[p]
BY DEF TypeOK, Begin, Continue, LockUser, ReadRole, LoadTa, LoadActor, ReadLink, ResolveUser, ReadSession,
       RevokeOwn, WriteRole, EndOne, EndLinks, SelectOut, Commit, LoadInstructor, LoadOwnTa, InsertLink,
       CreateSession, RevokeAll, Abort

LEMMA StepKeepsLock ==
    ASSUME IInv, NEW q \in Requests, Begin(q) \/ Continue(q)
    PROVE  DecisionStands' /\ OneTransition' /\ RevokesAll'
<1> DEFINE Goal == DecisionStands' /\ OneTransition' /\ RevokesAll'
<1>t. TypeOK
  BY DEF IInv
<1>d. q \in DOMAIN tx
  BY <1>t DEF TypeOK
<1>0. \A p \in Requests \ {q} : tx'[p] = tx[p]
  BY <1>t, OneSteps
<1>1. ASSUME NEW u \in Users, NEW op \in Transitions, LockUser(q, u, op) PROVE Goal
  <2>1. UNCHANGED <<status, session>>
    BY <1>1 DEF LockUser, tables
  <2>2. /\ tx'[q].who = u /\ tx'[q].op = op /\ tx'[q].from = status[u] /\ tx'[q].to = Target[op]
        /\ tx'[q].pc = IF op = "reactivate" THEN "signOut" ELSE "revoke"
    BY <1>1, <1>d DEF LockUser, Idle
  <2>3. status[u] \in Allowed[op]
    BY <1>1 DEF LockUser
  <2>4. \A p \in Requests \ {q} : Transits(p) => tx[p].who # u
    BY <1>1 DEF LockUser, UserLocked, ForUpdate, Transits
  <2>5. \A p \in Requests \ {q} : (Transits(p)' <=> Transits(p)) /\ (Exits(p)' <=> Exits(p))
    BY <1>0 DEF Transits, Exits
  <2>6. DecisionStands'
    <3>1. \A p \in Requests \ {q} : Transits(p)' =>
             /\ tx'[p].who \in Users /\ tx'[p].from = status'[tx'[p].who]
             /\ tx'[p].from \in Allowed[tx'[p].op] /\ tx'[p].to = Target[tx'[p].op]
      BY <1>0, <2>1, <2>5 DEF DecisionStands, IInv
    <3>2. QED
      BY <3>1, <2>1, <2>2, <2>3 DEF DecisionStands
  <2>7. OneTransition'
    BY <1>0, <2>2, <2>4, <2>5 DEF OneTransition, IInv
  <2>8. RevokesAll'
    <3>1. \A v : LiveSessions(v)' = LiveSessions(v)
      BY <2>1 DEF LiveSessions
    <3>2. Exits(q)' => tx'[q].pc = "revoke"
      BY <2>2 DEF Exits
    <3>3. QED
      BY <1>0, <2>5, <3>1, <3>2 DEF RevokesAll, IInv
  <2>9. QED
    BY <2>6, <2>7, <2>8
<1>2. ASSUME UNCHANGED <<status, session>>, ~Transits(q)' PROVE Goal
  BY <1>0, <1>2, QuietStep DEF LiveSessions
<1>3. ASSUME NEW u \in Users, NEW r \in Roles, ReadRole(q, u, r) PROVE Goal
  BY <1>2, <1>3, <1>d DEF ReadRole, Transits, Transitions, Idle, tables
<1>4. ASSUME NEW t \in Users, NEW i \in Users, LoadTa(q, t, i) \/ LoadActor(q, t, i) PROVE Goal
  <2>1. tx'[q].op = "link" /\ UNCHANGED <<status, session>>
    BY <1>4, <1>d DEF LoadTa, LoadActor, Idle, tables
  <2>2. QED
    BY <2>1, <1>2 DEF Transits, Transitions
<1>5. ASSUME NEW l \in Links, ReadLink(q, l) PROVE Goal
  BY <1>2, <1>5, <1>d DEF ReadLink, Transits, Transitions, Idle, tables
<1>6. ASSUME NEW u \in Users, ResolveUser(q, u) PROVE Goal
  BY <1>2, <1>6, <1>d DEF ResolveUser, Transits, Transitions, Idle, tables
<1>7. ASSUME NEW s \in Sessions, ReadSession(q, s) PROVE Goal
  BY <1>2, <1>7, <1>d DEF ReadSession, Transits, Transitions, Idle, tables
<1>8. ASSUME WriteRole(q) PROVE Goal
  <2>1. tx'[q].op = "role"
    BY <1>8, <1>t DEF WriteRole, TypeOK, OpsFit, IInv
  <2>2. QED
    BY <1>2, <1>8, <2>1 DEF WriteRole, Transits, Transitions, tables
<1>9. ASSUME EndOne(q) PROVE Goal
  <2>1. tx'[q].op = "end"
    BY <1>9, <1>t DEF EndOne, TypeOK, OpsFit, IInv
  <2>2. QED
    BY <1>2, <1>9, <2>1 DEF EndOne, Transits, Transitions, tables
<1>10. ASSUME LoadInstructor(q) \/ LoadOwnTa(q) PROVE Goal
  <2>1. tx'[q].pc \in {"insertLink", "idle"}
    BY <1>10, <1>t DEF LoadInstructor, LoadOwnTa, TypeOK, Idle
  <2>2. QED
    BY <1>2, <1>10, <2>1 DEF LoadInstructor, LoadOwnTa, Transits, Writing, tables
<1>11. ASSUME RevokeOwn(q) PROVE Goal
  <2>1. /\ tx'[q].pc \in Writing /\ tx[q].pc \in Writing
        /\ tx'[q].op = tx[q].op /\ tx'[q].who = tx[q].who /\ tx'[q].from = tx[q].from /\ tx'[q].to = tx[q].to
        /\ tx'[q].revokes = LiveSessions(tx[q].who)
    BY <1>11, <1>t DEF RevokeOwn, TypeOK, Writing
  <2>2. UNCHANGED <<status, session>>
    BY <1>11 DEF RevokeOwn, tables
  <2>3. QED
    BY <1>0, <2>1, <2>2, WritingStep
<1>12. ASSUME EndLinks(q) \/ SelectOut(q) PROVE Goal
  <2>1. /\ tx'[q].pc \in Writing /\ tx[q].pc \in Writing /\ tx[q].pc # "revoke"
        /\ tx'[q].op = tx[q].op /\ tx'[q].who = tx[q].who /\ tx'[q].from = tx[q].from /\ tx'[q].to = tx[q].to
        /\ tx'[q].revokes = tx[q].revokes
    BY <1>12, <1>t DEF EndLinks, SelectOut, TypeOK, Writing
  <2>2. UNCHANGED <<status, session>>
    BY <1>12 DEF EndLinks, SelectOut, tables
  <2>3. Exits(q) => LiveSessions(tx[q].who) \subseteq tx'[q].revokes
    BY <2>1 DEF RevokesAll, IInv
  <2>4. QED
    BY <1>0, <2>1, <2>2, <2>3, WritingStep
<1>13. ASSUME Commit(q) \/ InsertLink(q) \/ RevokeAll(q) \/ Abort(q)
       PROVE  ~Transits(q)' /\ \A s \in Sessions : session'[s].user = session[s].user /\ (session'[s].state = "live" => session[s].state = "live")
  <2>1. tx'[q] = Idle
    BY <1>13, <1>t DEF Commit, InsertLink, RevokeAll, Abort, TypeOK
  <2>2. UNCHANGED session \/ \E R : session' = [s \in Sessions |-> IF s \in R THEN [session[s] EXCEPT !.state = "revoked"] ELSE session[s]]
    BY <1>13 DEF Commit, InsertLink, RevokeAll, Abort, tables
  <2>3. \A s \in Sessions : session[s] \in [user : Users \cup {NoUser}, state : {"unused", "live", "revoked"}]
    BY <1>t DEF TypeOK
  <2>4. QED
    BY <2>1, <2>2, <2>3 DEF Transits, Idle, Writing
<1>14. ASSUME Commit(q) PROVE Goal
  <2>1. \A p \in Requests \ {q} : Transits(p) => status'[tx[p].who] = status[tx[p].who]
    <3> SUFFICES ASSUME NEW p \in Requests \ {q}, Transits(p) PROVE status'[tx[p].who] = status[tx[p].who]
      OBVIOUS
    <3>1. CASE tx[q].op \in Transitions
      <4>1. Transits(q)
        BY <3>1, <1>14 DEF Transits, Commit, Writing
      <4>2. tx[p].who # tx[q].who
        BY <4>1 DEF OneTransition, IInv
      <4>3. status' = [status EXCEPT ![tx[q].who] = tx[q].to]
        BY <3>1, <1>14 DEF Commit
      <4>4. QED
        BY <4>2, <4>3, <1>t DEF DecisionStands, IInv, TypeOK
    <3>2. CASE tx[q].op \notin Transitions
      BY <3>2, <1>14 DEF Commit
    <3>3. QED
      BY <3>1, <3>2
  <2>2. QED
    BY <1>0, <1>13, <1>14, <2>1, QuietStep DEF LiveSessions
<1>15. ASSUME InsertLink(q) \/ RevokeAll(q) \/ Abort(q) PROVE Goal
  <2>1. UNCHANGED status
    BY <1>15 DEF InsertLink, RevokeAll, Abort, tables
  <2>2. QED
    BY <1>0, <1>13, <1>15, <2>1, QuietStep DEF LiveSessions
<1>16. ASSUME NEW s \in Sessions, CreateSession(q, s) PROVE Goal
  <2>1. UNCHANGED status /\ ~Transits(q)'
    BY <1>16, <1>t DEF CreateSession, TypeOK, Transits, Idle, Writing
  <2>2. \A p \in Requests \ {q} : Exits(p) => tx[p].who # tx[q].who
    BY <1>16 DEF CreateSession, ForUpdate, Exits, Transits
  <2>3. session' = [session EXCEPT ![s] = [user |-> tx[q].who, state |-> "live"]]
    BY <1>16 DEF CreateSession
  <2>4. \A p \in Requests \ {q} : Exits(p) => \A x \in Sessions :
               session'[x].state = "live" /\ session'[x].user = tx[p].who => x \in LiveSessions(tx[p].who)
    BY <2>2, <2>3, <1>t DEF TypeOK, LiveSessions
  <2>5. QED
    BY <1>0, <2>1, <2>4, QuietStep
<1>17. QED
  BY <1>1, <1>3, <1>4, <1>5, <1>6, <1>7, <1>8, <1>9, <1>10, <1>11, <1>12, <1>14, <1>15, <1>16
  DEF Begin, Continue, Roles

LEMMA StepFits ==
    ASSUME IInv, NEW q \in Requests, Begin(q) \/ Continue(q)
    PROVE  OpsFit'
<1> DEFINE Fits(r) ==
        /\ r.pc = "idle" => r = Idle
        /\ r.pc \in {"role", "endOne", "logout", "loadInstructor", "loadTa", "insertLink", "insertSession"} => r.op \notin Transitions
        /\ r.pc = "revoke" => r.pc \in Writing /\ r.op \in Transitions /\ r.op # "reactivate"
        /\ r.pc = "endOne" => r.op = "end"
        /\ r.op = "role" => r.who \in Users /\ r.to \in Roles
        /\ r.pc = "role" => r.op = "role"
        /\ r.op = "reactivate" => r.pc = "signOut"
<1>t. TypeOK
  BY DEF IInv
<1>d. q \in DOMAIN tx /\ tx[q] \in Record
  BY <1>t DEF TypeOK, Record
<1>0. \A p \in Requests \ {q} : tx'[p] = tx[p]
  BY <1>t, OneSteps
<1>f. Fits(tx[q])
  BY DEF OpsFit, IInv, Exits, Transits
<1>1. SUFFICES Fits(tx'[q])
  BY <1>0 DEF OpsFit, IInv, Exits, Transits
<1>2. CASE tx'[q] = Idle
  BY <1>2, TeamsAssumption DEF Idle, Writing, Transitions
<1>3. ASSUME NEW u \in Users, NEW op \in Transitions, LockUser(q, u, op) PROVE Fits(tx'[q])
  BY <1>3, <1>d DEF LockUser, Idle, Transitions, Writing
<1>4. ASSUME NEW u \in Users, NEW r \in Roles, ReadRole(q, u, r) PROVE Fits(tx'[q])
  BY <1>4, <1>d DEF ReadRole, Idle, Transitions, Writing
<1>5. ASSUME NEW t \in Users, NEW i \in Users, LoadTa(q, t, i) PROVE Fits(tx'[q])
  BY <1>5, <1>d DEF LoadTa, Idle, Transitions, Writing
<1>6. ASSUME NEW t \in Users, NEW i \in Users, LoadActor(q, t, i) PROVE Fits(tx'[q])
  BY <1>6, <1>d DEF LoadActor, Idle, Transitions, Writing
<1>7. ASSUME NEW l \in Links, ReadLink(q, l) PROVE Fits(tx'[q])
  BY <1>7, <1>d DEF ReadLink, Idle, Transitions, Writing
<1>8. ASSUME NEW u \in Users, ResolveUser(q, u) PROVE Fits(tx'[q])
  BY <1>8, <1>d DEF ResolveUser, Idle, Transitions, Writing
<1>9. ASSUME NEW s \in Sessions, ReadSession(q, s) PROVE Fits(tx'[q])
  BY <1>9, <1>d DEF ReadSession, Idle, Transitions, Writing
<1>10. ASSUME RevokeOwn(q) PROVE Fits(tx'[q])
  BY <1>10, <1>f, <1>d DEF RevokeOwn, Record, Writing, Transitions
<1>11. ASSUME WriteRole(q) PROVE Fits(tx'[q])
  BY <1>11, <1>f, <1>d DEF WriteRole, Record, Writing, Transitions
<1>12. ASSUME EndOne(q) PROVE Fits(tx'[q])
  BY <1>12, <1>f, <1>d DEF EndOne, Record, Writing, Transitions
<1>13. ASSUME EndLinks(q) PROVE Fits(tx'[q])
  BY <1>13, <1>f, <1>d DEF EndLinks, Record, Writing, Transitions
<1>14. ASSUME SelectOut(q) PROVE Fits(tx'[q])
  BY <1>14, <1>f, <1>d DEF SelectOut, Record, Writing, Transitions
<1>15. ASSUME LoadInstructor(q) \/ LoadOwnTa(q) PROVE Fits(tx'[q])
  <2>1. tx[q].pc \in {"loadInstructor", "loadTa"}
    BY <1>15 DEF LoadInstructor, LoadOwnTa
  <2>2. CASE tx'[q] = [tx[q] EXCEPT !.pc = "insertLink"]
    BY <2>1, <2>2, <1>f, <1>t DEF TypeOK
  <2>3. QED
    BY <1>15, <1>2, <2>2, <1>d DEF LoadInstructor, LoadOwnTa
<1>16. ASSUME Commit(q) \/ InsertLink(q) \/ RevokeAll(q) \/ Abort(q) \/ \E s \in Sessions : CreateSession(q, s) PROVE Fits(tx'[q])
  BY <1>16, <1>2, <1>d DEF Commit, InsertLink, RevokeAll, Abort, CreateSession
<1>17. QED
  BY <1>3, <1>4, <1>5, <1>6, <1>7, <1>8, <1>9, <1>10, <1>11, <1>12, <1>13, <1>14, <1>15, <1>16
  DEF Begin, Continue, Roles

LEMMA StutterInv == IInv /\ UNCHANGED vars => IInv'
BY DEF IInv, TypeOK, DecisionStands, OneTransition, RevokesAll, OpsFit, Exits, Transits, LiveSessions, vars, tables

LEMMA NextInv == IInv /\ [Next]_vars => IInv'
<1>1. ASSUME IInv, NEW q \in Requests, Begin(q) \/ Continue(q) PROVE IInv'
  BY <1>1, StepTyped, StepKeepsLock, StepFits DEF IInv
<1>2. QED
  BY <1>1, StutterInv DEF Next

LEMMA Locks == Spec => []IInv
BY InitInv, NextInv, PTL DEF Spec

(* Every row and record has its type, whatever requests overlap. *)
THEOREM TeamsTyped == Spec => []TypeOK
<1>1. IInv => TypeOK
  BY DEF IInv
<1>2. QED
  BY <1>1, Locks, PTL

----------------------------------------------------------------------------
(* Only a commit of a transition writes a status or an event.                *)
LEMMA OnlyCommits ==
    ASSUME IInv, NEW u \in Users, [Next]_vars, status'[u] # status[u] \/ audit'[u] # audit[u]
    PROVE  \E q \in Requests : Transits(q) /\ Commit(q) /\ tx[q].who = u /\ status'[u] = tx[q].to
                              /\ audit'[u] = [from |-> tx[q].from, to |-> tx[q].to]
<1>0. PICK q \in Requests : Begin(q) \/ Continue(q)
  BY DEF Next, vars, tables
<1>1. Commit(q)
  BY <1>0 DEF Begin, Continue, LockUser, ReadRole, LoadTa, LoadActor, ReadLink, ResolveUser, ReadSession,
       RevokeOwn, WriteRole, EndOne, EndLinks, SelectOut, LoadInstructor, LoadOwnTa, InsertLink,
       CreateSession, RevokeAll, Abort, tables
<1>2. tx[q].op \in Transitions
  BY <1>1 DEF Commit
<1>3. Transits(q)
  BY <1>1, <1>2 DEF Transits, Commit, Writing
<1>4. /\ status' = [status EXCEPT ![tx[q].who] = tx[q].to]
      /\ audit' = [audit EXCEPT ![tx[q].who] = [from |-> tx[q].from, to |-> tx[q].to]]
  BY <1>1, <1>2 DEF Commit
<1>5. tx[q].who = u
  BY <1>4 DEF IInv, TypeOK
<1>6. QED
  BY <1>1, <1>3, <1>4, <1>5 DEF IInv, TypeOK

(* However many requests race for an account, its status follows             *)
(* _ALLOWED_TRANSITIONS and every change leaves an event that tells it right. *)
THEOREM Audited == Spec => LifecycleAudited
<1> DEFINE Told == \A u \in Users : status'[u] # status[u] \/ audit'[u] # audit[u] =>
          /\ \E op \in Transitions : status[u] \in Allowed[op] /\ status'[u] = Target[op]
          /\ audit'[u] = [from |-> status[u], to |-> status'[u]]
<1>1. ASSUME IInv, [Next]_vars PROVE Told
  <2> SUFFICES ASSUME NEW u \in Users, status'[u] # status[u] \/ audit'[u] # audit[u]
               PROVE  /\ \E op \in Transitions : status[u] \in Allowed[op] /\ status'[u] = Target[op]
                      /\ audit'[u] = [from |-> status[u], to |-> status'[u]]
    OBVIOUS
  <2>1. PICK q \in Requests : /\ Transits(q) /\ tx[q].who = u /\ status'[u] = tx[q].to
                             /\ audit'[u] = [from |-> tx[q].from, to |-> tx[q].to]
    BY <1>1, OnlyCommits
  <2>2. tx[q].from = status[u] /\ status[u] \in Allowed[tx[q].op] /\ status'[u] = Target[tx[q].op]
    BY <1>1, <2>1 DEF DecisionStands, IInv
  <2>3. tx[q].op \in Transitions
    BY <2>1 DEF Transits
  <2>4. QED
    BY <2>1, <2>2, <2>3
<1>2. QED
  BY <1>1, Locks, PTL DEF Spec, LifecycleAudited

(* The commit that takes an account out of active leaves it no live session, *)
(* although sign-ins go on beside it.                                        *)
THEOREM ExitEndsSessions == Spec => ExitSignsOut
<1> DEFINE Out == \A u \in Users : Active(u) /\ ~Active(u)' => LiveSessions(u)' = {}
<1>1. ASSUME IInv, [Next]_vars PROVE Out
  <2> SUFFICES ASSUME NEW u \in Users, Active(u), ~Active(u)' PROVE LiveSessions(u)' = {}
    OBVIOUS
  <2>1. PICK q \in Requests : Transits(q) /\ Commit(q) /\ tx[q].who = u /\ status'[u] = tx[q].to
    BY <1>1, OnlyCommits DEF Active
  <2>2. Exits(q) /\ tx[q].pc = "signOut"
    BY <1>1, <2>1 DEF Exits, Commit, DecisionStands, IInv, Target, Active
  <2>3. LiveSessions(u) \subseteq tx[q].revokes
    BY <1>1, <2>1, <2>2 DEF RevokesAll, IInv
  <2>4. session' = [s \in Sessions |-> IF s \in tx[q].revokes \cup tx[q].out THEN [session[s] EXCEPT !.state = "revoked"] ELSE session[s]]
    BY <2>1 DEF Commit
  <2>5. \A s \in Sessions : session[s] \in [user : Users \cup {NoUser}, state : {"unused", "live", "revoked"}]
    BY <1>1 DEF IInv, TypeOK
  <2>6. QED
    BY <2>3, <2>4, <2>5 DEF LiveSessions
<1>2. QED
  BY <1>1, Locks, PTL DEF Spec, ExitSignsOut
-----------------------------------------------------------------------------
(* Who a transaction signs out besides its own user.  It reads the team,     *)
(* then who of the team remains supervised, and writes at its commit: as     *)
(* long as nobody else changes an assistant's supervisors, what it read of   *)
(* the assistant stays true until then.                                      *)
Leaving == {"deactivate", "delete", "role"}

(* A request that has written nothing yet has missed nothing. *)
FreshHistory == \A q \in Requests : tx[q].pc \notin Writing => since[q] = {}

(* The partial unique index. *)
OneLinkPerPair == \A l, m \in ActiveLinks :
    link[l].ta = link[m].ta /\ link[l].instructor = link[m].instructor => l = m

(* A link that was ever made joins two users. *)
LinksNamed ==
    /\ \A l \in Links : link[l].state # "unused" => link[l].ta \in Users /\ link[l].instructor \in Users
    /\ \A q \in Requests : tx[q].pc \in {"loadInstructor", "loadTa", "insertLink"} =>
          tx[q].who \in Users /\ tx[q].other \in Users

(* Which links request q ends. *)
EndsFit(q) ==
    /\ \A l \in tx[q].ends \cup tx[q].row : link[l].state # "unused"
    /\ tx[q].pc = "endLinks" => tx[q].op \in {"delete", "role"}
    /\ tx[q].op \in Leaving => \A l \in tx[q].ends : tx[q].who \in {link[l].ta, link[l].instructor}
    /\ tx[q].op = "end" => tx[q].ends \subseteq tx[q].row /\ \A l \in tx[q].row : link[l].ta \in tx[q].tas
    /\ tx[q].op \notin Leaving \cup {"end"} => tx[q].ends = {}

(* The team request q has read holds everybody its user supervises. *)
TeamKnown(q) == \A t \in Users \ {tx[q].who} :
    /\ tx[q].pc \in Writing /\ tx[q].op \in Leaving
    /\ tx[q].who \in SupervisorsOf(t) /\ t \notin since[q]
    => t \in tx[q].tas

(* Whoever the commit will leave unsupervised is to be signed out ... *)
OutKnown(q) == \A t \in Users \ {tx[q].who} :
    /\ tx[q].pc = "signOut" /\ tx[q].op # "reactivate"
    /\ SupervisorsOf(t) # {} /\ ~StillSupervised(q, t) /\ t \notin since[q]
    => LiveSessions(t) \subseteq tx[q].out \cup since[q]

(* ... and nobody else. *)
OutOnly(q) == \A s \in tx[q].out :
    /\ tx[q].pc = "signOut" /\ tx[q].op # "reactivate"
    /\ session[s].state # "unused"
    /\ \A t \in Users \ since[q] : session[s].user = t => ~StillSupervised(q, t)

RevokesOwn(q) == \A s \in tx[q].revokes :
    Exits(q) /\ session[s].state # "unused" /\ session[s].user = tx[q].who

Own(q) == EndsFit(q) /\ TeamKnown(q) /\ OutKnown(q) /\ OutOnly(q) /\ RevokesOwn(q)

SignOutInv == FreshHistory /\ OneLinkPerPair /\ LinksNamed /\ \A q \in Requests : Own(q)

LEMMA InitSignOut == Init => SignOutInv
<1> SUFFICES ASSUME Init PROVE SignOutInv
  OBVIOUS
<1>1. \A q \in Requests : tx[q] = Idle /\ since[q] = {}
  BY DEF Init
<1>2. \A l \in Links : link[l].state = "unused"
  BY DEF Init
<1>3. FreshHistory /\ OneLinkPerPair /\ LinksNamed
  BY <1>1, <1>2 DEF FreshHistory, OneLinkPerPair, LinksNamed, ActiveLinks, Idle
<1>4. ASSUME NEW q \in Requests PROVE Own(q)
  BY <1>1 DEF Own, EndsFit, TeamKnown, OutKnown, OutOnly, RevokesOwn, Idle, Writing, Leaving
<1>5. QED
  BY <1>3, <1>4 DEF SignOutInv

----------------------------------------------------------------------------
(* What one step does to the tables *)

Inside(q) ==
    \/ Begin(q)
    \/ RevokeOwn(q) \/ WriteRole(q) \/ EndOne(q) \/ EndLinks(q) \/ SelectOut(q) \/ LoadInstructor(q) \/ LoadOwnTa(q)

Outside(q) == Commit(q) \/ InsertLink(q) \/ (\E s \in Sessions : CreateSession(q, s)) \/ RevokeAll(q) \/ Abort(q)

LEMMA InsideOutside == \A q : Begin(q) \/ Continue(q) <=> Inside(q) \/ Outside(q)
BY DEF Inside, Outside, Continue

LEMMA InsideSteps ==
    ASSUME NEW q, Inside(q)
    PROVE  UNCHANGED <<tables, since>>
BY DEF Inside, Begin, LockUser, ReadRole, LoadTa, LoadActor, ReadLink, ResolveUser, ReadSession,
       RevokeOwn, WriteRole, EndOne, EndLinks, SelectOut, LoadInstructor, LoadOwnTa

LEMMA OutsideIdle ==
    ASSUME TypeOK, NEW q \in Requests, Outside(q)
    PROVE  tx'[q] = Idle
BY DEF Outside, Commit, InsertLink, CreateSession, RevokeAll, Abort, TypeOK

LinkRow == [ta : Users \cup {NoUser}, instructor : Users \cup {NoUser}, state : {"unused", "active", "ended"}]
SessionRow == [user : Users \cup {NoUser}, state : {"unused", "live", "revoked"}]

(* A row of supervisions is ended or made, and then its pair has no other.   *)
LEMMA LinksChange ==
    ASSUME TypeOK, NEW q \in Requests, Inside(q) \/ Outside(q), \A l \in tx[q].ends : link[l].state # "unused"
    PROVE  \/ \A l \in Links : /\ link'[l].ta = link[l].ta /\ link'[l].instructor = link[l].instructor
                               /\ link'[l].state = link[l].state \/ (link[l].state # "unused" /\ link'[l].state = "ended")
           \/ \E l \in Links :
                 /\ tx[q].pc = "insertLink" /\ link[l].state = "unused"
                 /\ link'[l] = [ta |-> tx[q].who, instructor |-> tx[q].other, state |-> "active"]
                 /\ \A m \in Links \ {l} : link'[m] = link[m]
                 /\ \A m \in ActiveLinks : ~(link[m].ta = tx[q].who /\ link[m].instructor = tx[q].other)
<1>t. \A l \in Links : link[l] \in LinkRow
  BY DEF TypeOK, LinkRow
<1>1. CASE UNCHANGED link
  BY <1>1
<1>2. CASE Commit(q)
  <2>1. link' = [l \in Links |-> IF l \in tx[q].ends THEN [link[l] EXCEPT !.state = "ended"] ELSE link[l]]
    BY <1>2 DEF Commit
  <2>2. \A l \in Links : l \in tx[q].ends => link'[l] = [link[l] EXCEPT !.state = "ended"] /\ link[l].state # "unused"
    BY <1>2, <2>1
  <2>3. \A l \in Links : l \notin tx[q].ends => link'[l] = link[l]
    BY <2>1
  <2>4. QED
    BY <1>t, <2>2, <2>3 DEF LinkRow
<1>3. CASE InsertLink(q)
  <2>1. CASE UNCHANGED link
    BY <2>1
  <2>2. CASE ~UNCHANGED link
    <3>1. /\ tx[q].pc = "insertLink"
          /\ ~\E l \in ActiveLinks : link[l].ta = tx[q].who /\ link[l].instructor = tx[q].other
          /\ \E l \in Links : link[l].state = "unused" /\ link' = [link EXCEPT ![l] = [ta |-> tx[q].who, instructor |-> tx[q].other, state |-> "active"]]
      BY <1>3, <2>2 DEF InsertLink
    <3>2. QED
      BY <3>1 DEF TypeOK
  <2>3. QED
    BY <2>1, <2>2
<1>4. QED
  BY <1>1, <1>2, <1>3, InsideSteps DEF Outside, CreateSession, RevokeAll, Abort, tables

LEMMA SessionsChange ==
    ASSUME TypeOK, NEW q \in Requests, Inside(q) \/ Outside(q), NEW s \in Sessions, session[s].state # "unused"
    PROVE  session'[s].state # "unused" /\ session'[s].user = session[s].user
           /\ (session'[s].state = "live" => session[s].state = "live")
<1>t. session[s] \in SessionRow
  BY DEF TypeOK, SessionRow
<1>1. CASE UNCHANGED session
  BY <1>1
<1>2. CASE Commit(q) \/ RevokeAll(q)
  <2>1. session'[s] \in {session[s], [session[s] EXCEPT !.state = "revoked"]}
    BY <1>2 DEF Commit, RevokeAll
  <2>2. QED
    BY <1>t, <2>1 DEF SessionRow
<1>3. CASE \E n \in Sessions : CreateSession(q, n)
  <2>1. session'[s] = session[s]
    BY <1>3 DEF CreateSession, TypeOK
  <2>2. QED
    BY <2>1
<1>4. QED
  BY <1>1, <1>2, <1>3, InsideSteps DEF Outside, InsertLink, Abort, tables

(* What the history notes for a transaction that another request's step      *)
(* overlaps: whose supervisors changed, and which session is new.            *)
LEMMA OthersNote ==
    ASSUME TypeOK, NEW p \in Requests, Inside(p) \/ Outside(p), NEW q \in Requests \ {p}, tx[q].pc \in Writing
    PROVE  /\ since[q] \subseteq since'[q]
           /\ \A t \in Users : t \notin since'[q] => SupervisorsOf(t)' = SupervisorsOf(t)
           /\ \A s \in Sessions : session'[s].state = "live" => session[s].state = "live" \/ s \in since'[q]
<1>1. CASE Inside(p)
  <2>1. UNCHANGED <<status, link, session, since>>
    BY <1>1, InsideSteps DEF tables
  <2>2. \A t : SupervisorsOf(t)' = SupervisorsOf(t)
    BY <2>1 DEF SupervisorsOf, Active, ActiveLinks
  <2>3. QED
    BY <2>1, <2>2
<1>n. \A C : Noted(p, C) => since'[q] = since[q] \cup C
  BY DEF Noted
<1>2. CASE Commit(p) \/ InsertLink(p)
  <2>1. since'[q] = since[q] \cup Resupervised
    BY <1>2, <1>n DEF Commit, InsertLink
  <2>2. \A t \in Users : t \notin since'[q] => SupervisorsOf(t)' = SupervisorsOf(t)
    BY <2>1 DEF Resupervised
  <2>3. \A s \in Sessions : session'[s].state = "live" => session[s].state = "live"
    <3>1. CASE Commit(p)
      <4>1. \A s \in Sessions : session[s] \in SessionRow /\ session'[s] \in {session[s], [session[s] EXCEPT !.state = "revoked"]}
        BY <3>1 DEF Commit, TypeOK, SessionRow
      <4>2. QED
        BY <4>1 DEF SessionRow
    <3>2. CASE InsertLink(p)
      BY <3>2 DEF InsertLink
    <3>3. QED
      BY <1>2, <3>1, <3>2
  <2>4. QED
    BY <2>1, <2>2, <2>3
<1>3. CASE RevokeAll(p) \/ Abort(p) \/ \E s \in Sessions : CreateSession(p, s)
  <2>1. UNCHANGED <<status, link>>
    BY <1>3 DEF RevokeAll, Abort, CreateSession, tables
  <2>2. \A t : SupervisorsOf(t)' = SupervisorsOf(t)
    BY <2>1 DEF SupervisorsOf, Active, ActiveLinks
  <2>3. \E C : since'[q] = since[q] \cup C /\ \A s \in Sessions : session'[s].state = "live" => session[s].state = "live" \/ s \in C
    <3>1. CASE RevokeAll(p)
      <4>1. since'[q] = since[q] \cup {}
        BY <3>1, <1>n DEF RevokeAll
      <4>2. \A s \in Sessions : session[s] \in SessionRow /\ session'[s] \in {session[s], [session[s] EXCEPT !.state = "revoked"]}
        BY <3>1 DEF RevokeAll, TypeOK, SessionRow
      <4>3. QED
        BY <4>1, <4>2 DEF SessionRow
    <3>2. CASE Abort(p)
      <4>1. since'[q] = since[q] \cup {} /\ UNCHANGED session
        BY <3>2, <1>n DEF Abort, tables
      <4>2. QED
        BY <4>1
    <3>3. CASE \E s \in Sessions : CreateSession(p, s)
      <4>1. PICK s \in Sessions : CreateSession(p, s)
        BY <3>3
      <4>2. since'[q] = since[q] \cup {s}
        BY <4>1, <1>n DEF CreateSession
      <4>3. \A x \in Sessions : x # s => session'[x] = session[x]
        BY <4>1 DEF CreateSession, TypeOK
      <4>4. QED
        BY <4>2, <4>3
    <3>4. QED
      BY <1>3, <3>1, <3>2, <3>3
  <2>4. QED
    BY <2>2, <2>3
<1>4. QED
  BY <1>1, <1>2, <1>3 DEF Outside

LEMMA FreshStep ==
    ASSUME TypeOK, FreshHistory, NEW p \in Requests, Inside(p) \/ Outside(p),
           \A q \in Requests \ {p} : tx'[q] = tx[q],
           Inside(p) /\ tx[p].pc \in Writing => tx'[p].pc \in Writing
    PROVE  FreshHistory'
<1>1. CASE Inside(p)
  <2>1. UNCHANGED since
    BY <1>1, InsideSteps
  <2>2. tx'[p].pc \notin Writing => since[p] = {}
    BY <1>1 DEF FreshHistory
  <2>3. QED
    BY <2>1, <2>2 DEF FreshHistory
<1>2. CASE Outside(p)
  <2>1. tx'[p] = Idle /\ \E C : Noted(p, C)
    BY <1>2, OutsideIdle DEF Outside, Commit, InsertLink, CreateSession, RevokeAll, Abort
  <2>2. \A q \in Requests : since'[q] = IF q # p /\ tx[q].pc \in Writing THEN since'[q] ELSE {}
    BY <2>1 DEF Noted
  <2>3. QED
    BY <2>1, <2>2 DEF FreshHistory, Idle, Writing
<1>3. QED
  BY <1>1, <1>2

----------------------------------------------------------------------------
(* What stays true of a transaction while others step *)

(* The link of a pair that supervises before and after is the same row.      *)
LEMMA SameLink ==
    ASSUME TypeOK, OneLinkPerPair, LinksNamed, NEW p \in Requests, Inside(p) \/ Outside(p),
           \A l \in tx[p].ends : link[l].state # "unused"
    PROVE  /\ OneLinkPerPair'
           /\ \A l \in ActiveLinks' \ ActiveLinks, m \in ActiveLinks :
                 ~(link[m].ta = link'[l].ta /\ link[m].instructor = link'[l].instructor)
           /\ \A l \in ActiveLinks' \cap ActiveLinks :
                 link'[l].ta = link[l].ta /\ link'[l].instructor = link[l].instructor
<1>1. CASE \A l \in Links : /\ link'[l].ta = link[l].ta /\ link'[l].instructor = link[l].instructor
                            /\ link'[l].state = link[l].state \/ (link[l].state # "unused" /\ link'[l].state = "ended")
  <2>1. ActiveLinks' \subseteq ActiveLinks
    BY <1>1 DEF ActiveLinks
  <2>2. QED
    BY <1>1, <2>1 DEF OneLinkPerPair, ActiveLinks
<1>2. CASE \E l \in Links :
                 /\ tx[p].pc = "insertLink" /\ link[l].state = "unused"
                 /\ link'[l] = [ta |-> tx[p].who, instructor |-> tx[p].other, state |-> "active"]
                 /\ \A m \in Links \ {l} : link'[m] = link[m]
                 /\ \A m \in ActiveLinks : ~(link[m].ta = tx[p].who /\ link[m].instructor = tx[p].other)
  <2>1. PICK n \in Links :
                 /\ link[n].state = "unused"
                 /\ link'[n].ta = tx[p].who /\ link'[n].instructor = tx[p].other /\ link'[n].state = "active"
                 /\ \A m \in Links \ {n} : link'[m] = link[m]
                 /\ \A m \in ActiveLinks : ~(link[m].ta = tx[p].who /\ link[m].instructor = tx[p].other)
    BY <1>2
  <2>2. ActiveLinks' = ActiveLinks \cup {n} /\ n \notin ActiveLinks
    BY <2>1 DEF ActiveLinks
  <2>3. \A l \in ActiveLinks : link'[l] = link[l]
    BY <2>1, <2>2 DEF ActiveLinks
  <2>4. OneLinkPerPair'
    BY <2>1, <2>2, <2>3 DEF OneLinkPerPair
  <2>5. QED
    BY <2>1, <2>2, <2>3, <2>4
<1>3. QED
  BY <1>1, <1>2, LinksChange

(* Links that exist go on joining the users they join.                       *)
LEMMA LinksLast ==
    ASSUME TypeOK, NEW p \in Requests, Inside(p) \/ Outside(p), \A l \in tx[p].ends : link[l].state # "unused",
           NEW l \in Links, link[l].state # "unused"
    PROVE  link'[l].state # "unused" /\ link'[l].ta = link[l].ta /\ link'[l].instructor = link[l].instructor
BY LinksChange

(* Whoever is still supervised has a supervisor, the own user of a leaving   *)
(* transaction left out.                                                     *)
LEMMA StillMeansSome ==
    ASSUME LinksNamed, NEW q \in Requests, tx[q].op \in Transitions => tx[q].to # "active",
           NEW t \in Users, NEW l \in ActiveLinks \ tx[q].ends, link[l].ta = t,
           IF tx[q].op \in Transitions /\ link[l].instructor = tx[q].who
           THEN tx[q].to = "active" ELSE Active(link[l].instructor)
    PROVE  /\ link[l].instructor \in SupervisorsOf(t)
           /\ ~(tx[q].op \in Transitions /\ link[l].instructor = tx[q].who)
BY DEF SupervisorsOf, LinksNamed, ActiveLinks

(* With its supervisors unchanged, an assistant remains supervised or not.   *)
LEMMA StillStands ==
    ASSUME TypeOK, OneLinkPerPair, LinksNamed, LinksNamed', NEW p \in Requests, Inside(p) \/ Outside(p),
           \A l \in tx[p].ends : link[l].state # "unused",
           NEW q \in Requests, tx'[q] = tx[q], tx[q].op \in Transitions => tx[q].to # "active",
           NEW t \in Users, SupervisorsOf(t)' = SupervisorsOf(t)
    PROVE  StillSupervised(q, t)' <=> StillSupervised(q, t)
<1>1. ASSUME StillSupervised(q, t) PROVE StillSupervised(q, t)'
  <2>1. PICK l \in ActiveLinks \ tx[q].ends :
          /\ link[l].ta = t
          /\ IF tx[q].op \in Transitions /\ link[l].instructor = tx[q].who
             THEN tx[q].to = "active" ELSE Active(link[l].instructor)
    BY <1>1 DEF StillSupervised
  <2>2. PICK i \in SupervisorsOf(t) : link[l].instructor = i /\ ~(tx[q].op \in Transitions /\ i = tx[q].who)
    BY <2>1, StillMeansSome
  <2>3. PICK m \in ActiveLinks' : link'[m].ta = t /\ link'[m].instructor = i /\ status'[i] = "active"
    BY <2>2 DEF SupervisorsOf, Active
  <2>4. m \in ActiveLinks
    BY <2>1, <2>2, <2>3, SameLink
  <2>5. m = l
    BY <2>1, <2>2, <2>3, <2>4, SameLink DEF OneLinkPerPair
  <2>6. QED
    BY <2>1, <2>2, <2>3, <2>5 DEF StillSupervised, Active
<1>2. ASSUME StillSupervised(q, t)' PROVE StillSupervised(q, t)
  <2>1. PICK l \in ActiveLinks' \ tx[q].ends :
          /\ link'[l].ta = t
          /\ IF tx[q].op \in Transitions /\ link'[l].instructor = tx[q].who
             THEN tx[q].to = "active" ELSE status'[link'[l].instructor] = "active"
    BY <1>2 DEF StillSupervised, Active
  <2>2. PICK i \in Users : link'[l].instructor = i
    BY <2>1 DEF LinksNamed, ActiveLinks
  <2>3. i \in SupervisorsOf(t)' /\ ~(tx[q].op \in Transitions /\ i = tx[q].who)
    BY <2>1, <2>2 DEF SupervisorsOf, Active
  <2>4. PICK m \in ActiveLinks : link[m].ta = t /\ link[m].instructor = i /\ status[i] = "active"
    BY <2>3 DEF SupervisorsOf, Active
  <2>5. l \in ActiveLinks
    BY <2>1, <2>2, <2>4, SameLink
  <2>6. m = l
    BY <2>1, <2>2, <2>4, <2>5, SameLink DEF OneLinkPerPair
  <2>7. QED
    BY <2>1, <2>2, <2>3, <2>4, <2>6 DEF StillSupervised, Active
<1>3. QED
  BY <1>1, <1>2

(* What the locked decision says of the status a transaction writes.         *)
LEMMA WritesStatus ==
    ASSUME IInv, NEW q \in Requests, tx[q].pc \in Writing, tx[q].op # "reactivate"
    PROVE  tx[q].op \in Transitions => tx[q].to # "active" /\ tx[q].op \in Leaving
BY DEF IInv, DecisionStands, Transits, Target, Transitions, Leaving

LEMMA OthersKeep ==
    ASSUME IInv, SignOutInv, LinksNamed', NEW p \in Requests, Inside(p) \/ Outside(p),
           NEW q \in Requests \ {p}, tx'[q] = tx[q]
    PROVE  Own(q)'
<1>t. TypeOK /\ Own(q) /\ OneLinkPerPair /\ LinksNamed
  BY DEF IInv, SignOutInv
<1>e. \A l \in tx[p].ends : link[l].state # "unused"
  BY DEF SignOutInv, Own, EndsFit
<1>l. \A l \in Links : link[l].state # "unused" =>
          link'[l].state # "unused" /\ link'[l].ta = link[l].ta /\ link'[l].instructor = link[l].instructor
  BY <1>t, <1>e, LinksLast
<1>s. \A s \in Sessions : session[s].state # "unused" =>
          session'[s].state # "unused" /\ session'[s].user = session[s].user
  BY <1>t, SessionsChange
<1>n. tx[q].pc \in Writing =>
          /\ since[q] \subseteq since'[q]
          /\ \A t \in Users : t \notin since'[q] => SupervisorsOf(t)' = SupervisorsOf(t)
          /\ \A s \in Sessions : session'[s].state = "live" => session[s].state = "live" \/ s \in since'[q]
  BY <1>t, OthersNote
<1>1. EndsFit(q)'
  <2>1. tx[q].ends \cup tx[q].row \subseteq Links
    BY <1>t DEF TypeOK
  <2>2. QED
    BY <1>t, <1>l, <2>1 DEF Own, EndsFit
<1>2. TeamKnown(q)'
  BY <1>t, <1>n DEF Own, TeamKnown
<1>3. RevokesOwn(q)'
  <2>1. tx[q].revokes \subseteq Sessions
    BY <1>t DEF TypeOK
  <2>2. QED
    BY <1>t, <1>s, <2>1 DEF Own, RevokesOwn, Exits, Transits
<1>w. tx[q].pc \in Writing /\ tx[q].op # "reactivate" => \A t \in Users : SupervisorsOf(t)' = SupervisorsOf(t) =>
         (StillSupervised(q, t)' <=> StillSupervised(q, t))
  BY <1>t, <1>e, WritesStatus, StillStands
<1>4. OutOnly(q)'
  <2> SUFFICES ASSUME NEW s \in tx[q].out
               PROVE  /\ tx[q].pc = "signOut" /\ tx[q].op # "reactivate"
                      /\ session'[s].state # "unused"
                      /\ \A t \in Users \ since'[q] : session'[s].user = t => ~StillSupervised(q, t)'
    BY DEF OutOnly
  <2>1. /\ s \in Sessions /\ tx[q].pc = "signOut" /\ tx[q].op # "reactivate" /\ session[s].state # "unused"
        /\ \A t \in Users \ since[q] : session[s].user = t => ~StillSupervised(q, t)
    BY <1>t DEF Own, OutOnly, TypeOK
  <2>2. session'[s].state # "unused" /\ session'[s].user = session[s].user
    BY <1>s, <2>1
  <2>3. ASSUME NEW t \in Users \ since'[q], session'[s].user = t PROVE ~StillSupervised(q, t)'
    <3>1. tx[q].pc \in Writing
      BY <2>1 DEF Writing
    <3>2. t \notin since[q] /\ SupervisorsOf(t)' = SupervisorsOf(t)
      BY <1>n, <3>1
    <3>3. ~StillSupervised(q, t)
      BY <2>1, <2>2, <2>3, <3>2
    <3>4. QED
      BY <1>w, <2>1, <3>1, <3>2, <3>3
  <2>4. QED
    BY <2>1, <2>2, <2>3
<1>5. OutKnown(q)'
  <2> SUFFICES ASSUME NEW t \in Users \ {tx[q].who}, tx[q].pc = "signOut", tx[q].op # "reactivate",
                      SupervisorsOf(t)' # {}, ~StillSupervised(q, t)', t \notin since'[q]
               PROVE  LiveSessions(t)' \subseteq tx[q].out \cup since'[q]
    BY DEF OutKnown
  <2>1. tx[q].pc \in Writing
    BY DEF Writing
  <2>2. SupervisorsOf(t)' = SupervisorsOf(t) /\ t \notin since[q]
    BY <1>n, <2>1
  <2>4. LiveSessions(t) \subseteq tx[q].out \cup since[q]
    BY <1>t, <1>w, <2>1, <2>2 DEF Own, OutKnown
  <2>5. LiveSessions(t)' \subseteq LiveSessions(t) \cup since'[q]
    BY <1>n, <1>s, <2>1 DEF LiveSessions
  <2>6. QED
    BY <1>n, <2>1, <2>4, <2>5
<1>6. QED
  BY <1>1, <1>2, <1>3, <1>4, <1>5 DEF Own

----------------------------------------------------------------------------
(* The transaction's own steps *)

(* A request that begins has written nothing. *)
LEMMA BeginOwn ==
    ASSUME IInv, SignOutInv, NEW q \in Requests, Begin(q)
    PROVE  Own(q)' /\ tx[q].pc \notin Writing
<1>d. q \in DOMAIN tx /\ TypeOK
  BY DEF IInv, TypeOK
<1>u. UNCHANGED <<status, link, session, since>> /\ tx[q] = Idle
  BY InsideSteps DEF Inside, Begin, LockUser, ReadRole, LoadTa, LoadActor, ReadLink, ResolveUser, ReadSession, tables
<1>0. tx[q].pc \notin Writing
  BY <1>u DEF Idle, Writing
<1>1. ASSUME tx'[q].ends = {}, tx'[q].row = {}, tx'[q].revokes = {}, tx'[q].out = {},
             tx'[q].pc # "endLinks", tx'[q].pc = "signOut" => tx'[q].op = "reactivate",
             tx'[q].pc \in Writing /\ tx'[q].op \in Leaving => tx'[q].tas = TeamOf(tx'[q].who)
      PROVE  Own(q)'
  <2>1. EndsFit(q)' /\ RevokesOwn(q)' /\ OutOnly(q)' /\ OutKnown(q)'
    BY <1>1 DEF EndsFit, RevokesOwn, OutOnly, OutKnown
  <2>2. TeamKnown(q)'
    BY <1>1, <1>u DEF TeamKnown, SupervisorsOf, TeamOf, ActiveLinks
  <2>3. QED
    BY <2>1, <2>2 DEF Own
<1>2. ASSUME NEW u \in Users, NEW op \in Transitions, LockUser(q, u, op) PROVE Own(q)'
  <2>1. tx'[q] = [Idle EXCEPT !.pc = IF op = "reactivate" THEN "signOut" ELSE "revoke", !.op = op, !.who = u,
                 !.from = status[u], !.to = Target[op], !.tas = IF op = "reactivate" THEN {} ELSE TeamOf(u)]
    BY <1>2, <1>d DEF LockUser
  <2>2. TeamOf(u)' = TeamOf(u)
    BY <1>u DEF TeamOf, ActiveLinks
  <2>3. /\ tx'[q].ends = {} /\ tx'[q].row = {} /\ tx'[q].revokes = {} /\ tx'[q].out = {} /\ tx'[q].op = op /\ tx'[q].who = u
        /\ tx'[q].pc = IF op = "reactivate" THEN "signOut" ELSE "revoke"
        /\ tx'[q].tas = IF op = "reactivate" THEN {} ELSE TeamOf(u)
    BY <2>1 DEF Idle
  <2>4. op \in Leaving => op # "reactivate"
    BY DEF Leaving
  <2>5. QED
    BY <1>1, <2>2, <2>3, <2>4
<1>3. ASSUME NEW l \in Links, ReadLink(q, l) PROVE Own(q)'
  <2>1. tx'[q] = [Idle EXCEPT !.pc = "endOne", !.op = "end", !.row = {l}, !.tas = {link[l].ta}] /\ link[l].state = "active"
    BY <1>3, <1>d DEF ReadLink, ActiveLinks
  <2>2. /\ tx'[q].pc = "endOne" /\ tx'[q].op = "end" /\ tx'[q].row = {l} /\ tx'[q].tas = {link[l].ta}
        /\ tx'[q].ends = {} /\ tx'[q].revokes = {} /\ tx'[q].out = {}
    BY <2>1 DEF Idle
  <2>3. QED
    BY <1>u, <2>1, <2>2 DEF Own, EndsFit, RevokesOwn, OutOnly, OutKnown, TeamKnown, Writing, Leaving
<1>4. ASSUME tx'[q].ends = {}, tx'[q].row = {}, tx'[q].revokes = {}, tx'[q].out = {},
             tx'[q].pc \notin Writing
      PROVE  Own(q)'
  BY <1>1, <1>4 DEF Writing
<1>5. ASSUME NEW u \in Users, NEW r \in Roles, ReadRole(q, u, r) PROVE Own(q)'
  BY <1>5, <1>4, <1>d DEF ReadRole, Idle, Writing
<1>6. ASSUME NEW t \in Users, NEW i \in Users, LoadTa(q, t, i) PROVE Own(q)'
  BY <1>6, <1>4, <1>d DEF LoadTa, Idle, Writing
<1>7. ASSUME NEW t \in Users, NEW i \in Users, LoadActor(q, t, i) PROVE Own(q)'
  BY <1>7, <1>4, <1>d DEF LoadActor, Idle, Writing
<1>8. ASSUME NEW u \in Users, ResolveUser(q, u) PROVE Own(q)'
  BY <1>8, <1>4, <1>d DEF ResolveUser, Idle, Writing
<1>9. ASSUME NEW s \in Sessions, ReadSession(q, s) PROVE Own(q)'
  BY <1>9, <1>4, <1>d DEF ReadSession, Idle, Writing
<1>10. QED
  BY <1>0, <1>2, <1>3, <1>5, <1>6, <1>7, <1>8, <1>9 DEF Begin, Roles

(* A step inside the transaction keeps what the others see. *)
LEMMA InsideOwn ==
    ASSUME IInv, SignOutInv, NEW q \in Requests, Inside(q), ~Begin(q)
    PROVE  Own(q)' /\ (tx[q].pc \in Writing => tx'[q].pc \in Writing)
<1>t. TypeOK /\ Own(q) /\ OpsFit /\ LinksNamed
  BY DEF IInv, SignOutInv
<1>d. q \in DOMAIN tx /\ tx[q] \in Record
  BY <1>t DEF TypeOK, Record
<1>u. UNCHANGED <<status, link, session, since>>
  BY InsideSteps DEF tables
<1>v. /\ \A t : SupervisorsOf(t)' = SupervisorsOf(t) /\ LiveSessions(t)' = LiveSessions(t) /\ TeamOf(t)' = TeamOf(t)
      /\ ActiveLinks' = ActiveLinks
  BY <1>u DEF SupervisorsOf, LiveSessions, TeamOf, ActiveLinks, Active
<1>1. CASE RevokeOwn(q)
  <2>1. /\ tx[q].pc = "revoke" /\ tx'[q].pc = IF tx[q].op = "delete" THEN "endLinks" ELSE "select"
        /\ tx'[q].revokes = LiveSessions(tx[q].who)
        /\ tx'[q].op = tx[q].op /\ tx'[q].who = tx[q].who /\ tx'[q].tas = tx[q].tas
        /\ tx'[q].row = tx[q].row /\ tx'[q].ends = tx[q].ends /\ tx'[q].out = tx[q].out
    BY <1>1, <1>d DEF RevokeOwn, Record
  <2>2. Exits(q)'
    BY <2>1, <1>t DEF OpsFit, Exits, Transits, Writing
  <2>3. RevokesOwn(q)'
    BY <2>1, <2>2, <1>u DEF RevokesOwn, LiveSessions
  <2>4. EndsFit(q)' /\ OutOnly(q)' /\ OutKnown(q)'
    BY <2>1, <1>u, <1>t DEF Own, EndsFit, OutOnly, OutKnown
  <2>5. TeamKnown(q)'
    BY <2>1, <1>u, <1>v, <1>t DEF Own, TeamKnown, Writing
  <2>6. QED
    BY <2>1, <2>3, <2>4, <2>5 DEF Own, Writing
<1>2. CASE WriteRole(q)
  <2>1. /\ tx[q].pc = "role" /\ tx'[q].pc = "endLinks" /\ tx'[q].tas = TeamOf(tx[q].who)
        /\ tx'[q].op = tx[q].op /\ tx'[q].who = tx[q].who /\ tx'[q].revokes = tx[q].revokes
        /\ tx'[q].row = tx[q].row /\ tx'[q].ends = tx[q].ends /\ tx'[q].out = tx[q].out
    BY <1>2, <1>d DEF WriteRole, Record
  <2>2. tx[q].op = "role" /\ tx[q].revokes = {} /\ tx[q].out = {}
    BY <2>1, <1>t DEF OpsFit, Own, RevokesOwn, Exits, Transits, Writing, OutOnly
  <2>3. EndsFit(q)' /\ OutOnly(q)' /\ OutKnown(q)' /\ RevokesOwn(q)'
    BY <2>1, <2>2, <1>u, <1>t DEF Own, EndsFit, OutOnly, OutKnown, RevokesOwn
  <2>4. TeamKnown(q)'
    BY <2>1, <1>v DEF TeamKnown, SupervisorsOf, TeamOf
  <2>5. QED
    BY <2>1, <2>3, <2>4 DEF Own, Writing
<1>3. CASE EndOne(q)
  <2>1. /\ tx[q].pc = "endOne" /\ tx'[q].pc = "select" /\ tx'[q].ends = tx[q].row
        /\ tx'[q].op = tx[q].op /\ tx'[q].who = tx[q].who /\ tx'[q].revokes = tx[q].revokes
        /\ tx'[q].row = tx[q].row /\ tx'[q].tas = tx[q].tas /\ tx'[q].out = tx[q].out
    BY <1>3, <1>d DEF EndOne, Record
  <2>2. tx[q].op = "end" /\ tx[q].revokes = {} /\ tx[q].out = {}
    BY <2>1, <1>t DEF OpsFit, Own, RevokesOwn, Exits, Transits, Writing, OutOnly
  <2>3. QED
    BY <2>1, <2>2, <1>u, <1>t DEF Own, EndsFit, OutOnly, OutKnown, RevokesOwn, TeamKnown, Leaving, Writing
<1>4. CASE EndLinks(q)
  <2>1. /\ tx[q].pc = "endLinks" /\ tx'[q].pc = "select"
        /\ tx'[q].ends = {l \in ActiveLinks : tx[q].who \in {link[l].ta, link[l].instructor}}
        /\ tx'[q].op = tx[q].op /\ tx'[q].who = tx[q].who /\ tx'[q].revokes = tx[q].revokes
        /\ tx'[q].row = tx[q].row /\ tx'[q].tas = tx[q].tas /\ tx'[q].out = tx[q].out
    BY <1>4, <1>d DEF EndLinks, Record
  <2>2. tx[q].op \in {"delete", "role"} /\ tx[q].out = {}
    BY <2>1, <1>t DEF Own, EndsFit, OutOnly
  <2>3. EndsFit(q)'
    BY <2>1, <2>2, <1>u, <1>t DEF Own, EndsFit, ActiveLinks, Leaving
  <2>4. OutOnly(q)' /\ OutKnown(q)'
    BY <2>1, <2>2 DEF OutOnly, OutKnown
  <2>5. RevokesOwn(q)' /\ TeamKnown(q)'
    BY <2>1, <1>u, <1>v, <1>t DEF Own, RevokesOwn, Exits, Transits, Writing, TeamKnown
  <2>6. QED
    BY <2>1, <2>3, <2>4, <2>5 DEF Own, Writing
<1>5. CASE LoadInstructor(q) \/ LoadOwnTa(q)
  <2>1. tx[q].pc \in {"loadInstructor", "loadTa"} /\ tx'[q] \in {Idle, [tx[q] EXCEPT !.pc = "insertLink"]}
    BY <1>5, <1>d DEF LoadInstructor, LoadOwnTa
  <2>2. tx[q].revokes = {} /\ tx[q].out = {}
    BY <2>1, <1>t DEF Own, RevokesOwn, Exits, Transits, Writing, OutOnly
  <2>3. CASE tx'[q] = Idle
    BY <2>1, <2>3 DEF Own, EndsFit, RevokesOwn, OutOnly, OutKnown, TeamKnown, Idle, Leaving, Writing
  <2>4. CASE tx'[q] = [tx[q] EXCEPT !.pc = "insertLink"]
    <3>1. /\ tx'[q].pc = "insertLink" /\ tx'[q].ends = tx[q].ends
          /\ tx'[q].op = tx[q].op /\ tx'[q].who = tx[q].who /\ tx'[q].revokes = {}
          /\ tx'[q].row = tx[q].row /\ tx'[q].tas = tx[q].tas /\ tx'[q].out = {}
      BY <2>2, <2>4, <1>d DEF Record
    <3>2. EndsFit(q)'
      BY <3>1, <1>u, <1>t DEF Own, EndsFit
    <3>3. QED
      BY <2>1, <3>1, <3>2 DEF Own, RevokesOwn, OutOnly, OutKnown, TeamKnown, Writing
  <2>5. QED
    BY <2>1, <2>3, <2>4
<1>6. CASE SelectOut(q)
  <2>1. /\ tx[q].pc = "select" /\ tx'[q].pc = "signOut"
        /\ tx'[q].out = UNION {LiveSessions(t) : t \in {u \in tx[q].tas : ~StillSupervised(q, u)}}
        /\ tx'[q].op = tx[q].op /\ tx'[q].who = tx[q].who /\ tx'[q].revokes = tx[q].revokes /\ tx'[q].to = tx[q].to
        /\ tx'[q].row = tx[q].row /\ tx'[q].tas = tx[q].tas /\ tx'[q].ends = tx[q].ends
    BY <1>6, <1>d DEF SelectOut, Record
  <2>2. tx[q].op # "reactivate"
    BY <2>1, <1>t DEF OpsFit
  <2>3. \A t : StillSupervised(q, t)' <=> StillSupervised(q, t)
    BY <2>1, <1>u, <1>v DEF StillSupervised, Active
  <2>4. EndsFit(q)'
    BY <2>1, <1>u, <1>t DEF Own, EndsFit
  <2>5. RevokesOwn(q)' /\ TeamKnown(q)'
    BY <2>1, <1>u, <1>v, <1>t DEF Own, RevokesOwn, Exits, Transits, Writing, TeamKnown
  <2>6. OutOnly(q)'
    <3> SUFFICES ASSUME NEW s \in tx'[q].out
                 PROVE  /\ session'[s].state # "unused"
                        /\ \A t \in Users \ since'[q] : session'[s].user = t => ~StillSupervised(q, t)'
      BY <2>1, <2>2 DEF OutOnly
    <3>1. PICK u \in tx[q].tas : ~StillSupervised(q, u) /\ s \in LiveSessions(u)
      BY <2>1
    <3>2. QED
      BY <3>1, <2>3, <1>u DEF LiveSessions
  <2>7. OutKnown(q)'
    <3> SUFFICES ASSUME NEW t \in Users \ {tx[q].who}, SupervisorsOf(t) # {}, ~StillSupervised(q, t), t \notin since[q]
                 PROVE  LiveSessions(t) \subseteq tx'[q].out
      BY <2>1, <2>3, <1>u, <1>v DEF OutKnown
    <3>1. t \in tx[q].tas
      <4>1. PICK i \in SupervisorsOf(t) : TRUE
        OBVIOUS
      <4>2. PICK l \in ActiveLinks : link[l].ta = t /\ link[l].instructor = i /\ Active(i) /\ i \in Users
        BY <4>1 DEF SupervisorsOf
      <4>3. \/ l \in tx[q].ends
            \/ tx[q].op \in Transitions /\ i = tx[q].who
        BY <4>2 DEF StillSupervised
      <4>4. CASE tx[q].op \in Leaving
        <5>1. tx[q].who \in SupervisorsOf(t)
          BY <4>1, <4>2, <4>3, <4>4, <1>t DEF Own, EndsFit
        <5>2. QED
          BY <5>1, <4>4, <2>1, <1>t DEF Own, TeamKnown, Writing
      <4>5. CASE tx[q].op \notin Leaving
        <5>1. tx[q].op \notin Transitions
          BY <4>5, <2>2 DEF Leaving, Transitions
        <5>2. l \in tx[q].ends
          BY <4>3, <5>1
        <5>3. QED
          BY <4>2, <4>5, <5>2, <1>t DEF Own, EndsFit
      <4>6. QED
        BY <4>4, <4>5
    <3>2. QED
      BY <3>1, <2>1
  <2>8. QED
    BY <2>1, <2>4, <2>5, <2>6, <2>7 DEF Own, Writing
<1>7. QED
  BY <1>1, <1>2, <1>3, <1>4, <1>5, <1>6 DEF Inside

----------------------------------------------------------------------------
(* Every step keeps the invariant *)

LEMMA NamesStep ==
    ASSUME IInv, SignOutInv, NEW q \in Requests, Inside(q) \/ Outside(q), \A p \in Requests \ {q} : tx'[p] = tx[p]
    PROVE  LinksNamed'
<1>t. TypeOK /\ LinksNamed /\ \A l \in tx[q].ends : link[l].state # "unused"
  BY DEF IInv, SignOutInv, Own, EndsFit
<1>d. q \in DOMAIN tx /\ tx[q] \in Record
  BY <1>t DEF TypeOK, Record
<1>1. \A l \in Links : link'[l].state # "unused" => link'[l].ta \in Users /\ link'[l].instructor \in Users
  <2>1. CASE \A l \in Links : /\ link'[l].ta = link[l].ta /\ link'[l].instructor = link[l].instructor
                              /\ link'[l].state = link[l].state \/ (link[l].state # "unused" /\ link'[l].state = "ended")
    BY <2>1, <1>t DEF LinksNamed
  <2>2. CASE \E l \in Links :
                 /\ tx[q].pc = "insertLink" /\ link[l].state = "unused"
                 /\ link'[l] = [ta |-> tx[q].who, instructor |-> tx[q].other, state |-> "active"]
                 /\ \A m \in Links \ {l} : link'[m] = link[m]
                 /\ \A m \in ActiveLinks : ~(link[m].ta = tx[q].who /\ link[m].instructor = tx[q].other)
    <3>1. tx[q].who \in Users /\ tx[q].other \in Users
      BY <2>2, <1>t DEF LinksNamed
    <3>2. PICK n \in Links : link'[n].ta = tx[q].who /\ link'[n].instructor = tx[q].other /\ \A m \in Links \ {n} : link'[m] = link[m]
      BY <2>2
    <3>3. QED
      BY <3>1, <3>2, <1>t DEF LinksNamed
  <2>3. QED
    BY <1>t, <2>1, <2>2, LinksChange
<1>2. tx'[q].pc \in {"loadInstructor", "loadTa", "insertLink"} => tx'[q].who \in Users /\ tx'[q].other \in Users
  <2>1. CASE \E t, i \in Users : LoadTa(q, t, i) \/ LoadActor(q, t, i)
    BY <2>1, <1>d, ZenonT(60) DEF LoadTa, LoadActor, Idle
  <2>2. CASE LoadInstructor(q) \/ LoadOwnTa(q)
    <3>1. tx[q].pc \in {"loadInstructor", "loadTa"} /\ tx'[q] \in {Idle, [tx[q] EXCEPT !.pc = "insertLink"]}
      BY <2>2, <1>d DEF LoadInstructor, LoadOwnTa
    <3>2. QED
      BY <3>1, <1>t, <1>d DEF LinksNamed, Idle, Record
  <2>3. CASE RevokeOwn(q) \/ WriteRole(q) \/ EndOne(q) \/ EndLinks(q) \/ SelectOut(q)
    BY <2>3, <1>d DEF RevokeOwn, WriteRole, EndOne, EndLinks, SelectOut, Record
  <2>4. CASE \E u \in Users, op \in Transitions : LockUser(q, u, op)
    <3>1. PICK u \in Users, op \in Transitions : LockUser(q, u, op)
      BY <2>4
    <3>2. tx'[q] = [Idle EXCEPT !.pc = IF op = "reactivate" THEN "signOut" ELSE "revoke", !.op = op, !.who = u,
                 !.from = status[u], !.to = Target[op], !.tas = IF op = "reactivate" THEN {} ELSE TeamOf(u)]
      BY <3>1, <1>d DEF LockUser
    <3>3. tx'[q].pc \in {"signOut", "revoke"}
      BY <3>2 DEF Idle
    <3>4. QED
      BY <3>3
  <2>5. CASE \E u \in Users, r \in {"instructor", "ta"} : ReadRole(q, u, r)
    BY <2>5, <1>d DEF ReadRole, Idle
  <2>6. CASE (\E l \in Links : ReadLink(q, l)) \/ (\E u \in Users : ResolveUser(q, u)) \/ \E s \in Sessions : ReadSession(q, s)
    BY <2>6, <1>d, ZenonT(60) DEF ReadLink, ResolveUser, ReadSession, Idle
  <2>7. CASE Outside(q)
    BY <2>7, <1>t, OutsideIdle DEF Idle
  <2>8. QED
    BY <2>1, <2>2, <2>3, <2>4, <2>5, <2>6, <2>7 DEF Inside, Begin
<1>3. QED
  BY <1>1, <1>2, <1>t DEF LinksNamed

LEMMA NextSignOut == IInv /\ SignOutInv /\ [Next]_vars => SignOutInv'
<1>1. ASSUME IInv, SignOutInv, UNCHANGED vars PROVE SignOutInv'
  BY <1>1 DEF vars, tables, SignOutInv, FreshHistory, OneLinkPerPair, LinksNamed, Own, EndsFit, TeamKnown, OutKnown,
              OutOnly, RevokesOwn, Exits, Transits, ActiveLinks, SupervisorsOf, StillSupervised, LiveSessions, Active
<1>2. ASSUME IInv, SignOutInv, NEW q \in Requests, Begin(q) \/ Continue(q) PROVE SignOutInv'
  <2>t. TypeOK /\ FreshHistory /\ OneLinkPerPair /\ LinksNamed /\ \A l \in tx[q].ends : link[l].state # "unused"
    BY <1>2 DEF IInv, SignOutInv, Own, EndsFit
  <2>1. (Inside(q) \/ Outside(q)) /\ \A p \in Requests \ {q} : tx'[p] = tx[p]
    BY <1>2, <2>t, InsideOutside, OneSteps
  <2>2. LinksNamed'
    BY <1>2, <2>1, NamesStep
  <2>3. \A p \in Requests \ {q} : Own(p)'
    BY <1>2, <2>1, <2>2, OthersKeep
  <2>4. Own(q)' /\ (Inside(q) /\ tx[q].pc \in Writing => tx'[q].pc \in Writing)
    <3>1. CASE Outside(q)
      <4>1. tx'[q] = Idle
        BY <3>1, <2>t, OutsideIdle
      <4>2. Own(q)'
        BY <4>1 DEF Own, EndsFit, RevokesOwn, OutOnly, OutKnown, TeamKnown, Idle, Leaving, Writing
      <4>3. ~Inside(q) \/ tx[q].pc \notin Writing \/ tx'[q].pc \in Writing
        BY <1>2, BeginOwn, InsideOwn
      <4>4. QED
        BY <4>2, <4>3
    <3>2. CASE Inside(q)
      BY <1>2, <3>2, BeginOwn, InsideOwn
    <3>3. QED
      BY <2>1, <3>1, <3>2
  <2>5. FreshHistory'
    BY <2>t, <2>1, <2>4, FreshStep
  <2>6. OneLinkPerPair'
    BY <2>t, <2>1, SameLink
  <2>7. QED
    BY <2>2, <2>3, <2>4, <2>5, <2>6 DEF SignOutInv
<1>3. QED
  BY <1>1, <1>2 DEF Next

LEMMA SignOutKnown == Spec => [](IInv /\ SignOutInv)
<1>1. Init => IInv /\ SignOutInv
  BY InitInv, InitSignOut
<1>2. IInv /\ SignOutInv /\ [Next]_vars => (IInv /\ SignOutInv)'
  BY NextInv, NextSignOut
<1>3. QED
  BY <1>1, <1>2, PTL DEF Spec

----------------------------------------------------------------------------
(* What a commit does to an assistant *)

(* A step that ends a transaction by its commit, or by giving up.            *)
LEMMA Ending ==
    ASSUME IInv, SignOutInv, [Next]_vars, NEW q \in Requests, tx[q].pc = "signOut", tx'[q].pc = "idle"
    PROVE  Commit(q) \/ Abort(q)
<1>1. PICK p \in Requests : Begin(p) \/ Continue(p)
  BY DEF Next, vars
<1>2. p = q
  BY <1>1, OneSteps DEF IInv
<1>3. ~Inside(q)
  BY <1>2, BeginOwn, InsideOwn DEF Writing
<1>4. QED
  BY <1>1, <1>2, <1>3, InsideOutside DEF Outside, InsertLink, CreateSession, RevokeAll

(* After the commit exactly the still supervised have a supervisor.          *)
LEMMA CommitSupervises ==
    ASSUME IInv, SignOutInv, NEW q \in Requests, Commit(q), NEW t \in Users
    PROVE  SupervisorsOf(t)' # {} <=> StillSupervised(q, t)
<1>t. TypeOK /\ LinksNamed /\ tx[q].pc \in Writing
  BY DEF IInv, SignOutInv, Commit, Writing
<1>1. \A l \in Links : link'[l].ta = link[l].ta /\ link'[l].instructor = link[l].instructor
                       /\ (link'[l].state = "active" <=> link[l].state = "active" /\ l \notin tx[q].ends)
  <2>1. \A l \in Links : link[l] \in LinkRow
    BY <1>t DEF TypeOK, LinkRow
  <2>2. \A l \in Links : link'[l] = IF l \in tx[q].ends THEN [link[l] EXCEPT !.state = "ended"] ELSE link[l]
    BY DEF Commit
  <2>3. QED
    BY <2>1, <2>2 DEF LinkRow
<1>2. \A i \in Users : status'[i] = "active" <=>
         IF tx[q].op \in Transitions /\ i = tx[q].who THEN tx[q].to = "active" ELSE Active(i)
  <2>1. CASE tx[q].op \in Transitions
    <3>1. status' = [status EXCEPT ![tx[q].who] = tx[q].to]
      BY <2>1 DEF Commit
    <3>2. QED
      BY <2>1, <3>1, <1>t DEF TypeOK, Active
  <2>2. CASE tx[q].op \notin Transitions
    BY <2>2 DEF Commit, Active
  <2>3. QED
    BY <2>1, <2>2
<1>3. ActiveLinks' = ActiveLinks \ tx[q].ends
  BY <1>1 DEF ActiveLinks
<1>4. ASSUME SupervisorsOf(t)' # {} PROVE StillSupervised(q, t)
  <2>1. PICK i \in Users, l \in ActiveLinks' : link'[l].ta = t /\ link'[l].instructor = i /\ status'[i] = "active"
    BY <1>4 DEF SupervisorsOf, Active
  <2>2. l \in Links /\ l \in ActiveLinks \ tx[q].ends
    BY <2>1, <1>3 DEF ActiveLinks
  <2>3. QED
    BY <2>1, <2>2, <1>1, <1>2 DEF StillSupervised
<1>5. ASSUME StillSupervised(q, t) PROVE SupervisorsOf(t)' # {}
  <2>1. PICK l \in ActiveLinks \ tx[q].ends :
          /\ link[l].ta = t
          /\ IF tx[q].op \in Transitions /\ link[l].instructor = tx[q].who
             THEN tx[q].to = "active" ELSE Active(link[l].instructor)
    BY <1>5 DEF StillSupervised
  <2>2. PICK i \in Users : link[l].instructor = i
    BY <2>1, <1>t DEF LinksNamed, ActiveLinks
  <2>3. status'[i] = "active"
    BY <2>1, <2>2, <1>2
  <2>4. l \in ActiveLinks' /\ link'[l].ta = t /\ link'[l].instructor = i
    BY <2>1, <2>2, <1>1, <1>3 DEF ActiveLinks
  <2>5. i \in SupervisorsOf(t)'
    BY <2>3, <2>4 DEF SupervisorsOf, Active
  <2>6. QED
    BY <2>5
<1>6. QED
  BY <1>4, <1>5

(* Which sessions the commit leaves. *)
LEMMA CommitRevokes ==
    ASSUME TypeOK, NEW q \in Requests, Commit(q), NEW t
    PROVE  LiveSessions(t)' = LiveSessions(t) \ (tx[q].revokes \cup tx[q].out)
<1>1. \A s \in Sessions : session[s] \in SessionRow
  BY DEF TypeOK, SessionRow
<1>2. \A s \in Sessions : session'[s] = IF s \in tx[q].revokes \cup tx[q].out
                                        THEN [session[s] EXCEPT !.state = "revoked"] ELSE session[s]
  BY DEF Commit
<1>3. QED
  BY <1>1, <1>2 DEF LiveSessions, SessionRow

(* A reactivation takes nobody's supervisor away. *)
LEMMA ReactivationKeeps ==
    ASSUME IInv, SignOutInv, NEW q \in Requests, tx[q].pc = "signOut", tx[q].op = "reactivate",
           NEW t \in Users, SupervisorsOf(t) # {}
    PROVE  StillSupervised(q, t)
<1>1. tx[q].ends = {} /\ tx[q].to = "active"
  BY DEF SignOutInv, Own, EndsFit, Leaving, IInv, DecisionStands, Transits, Writing, Transitions, Target
<1>2. PICK l \in ActiveLinks : link[l].ta = t /\ Active(link[l].instructor)
  BY DEF SupervisorsOf
<1>3. QED
  BY <1>1, <1>2 DEF StillSupervised

(* Deactivating, deleting or moving an instructor and ending a link sign out *)
(* the assistants they leave without an active supervisor, in the commit     *)
(* that does so, however requests overlap.                                   *)
THEOREM UnsupervisedAreSignedOut == Spec => SignsOutUnsupervised
<1> DEFINE Out == \A q \in Requests : \A t \in Users \ {tx[q].who} : RemovalSignsOut(q, t)
<1>1. ASSUME IInv, SignOutInv, [Next]_vars PROVE Out
  <2> SUFFICES ASSUME NEW q \in Requests, NEW t \in Users \ {tx[q].who},
                      tx[q].pc = "signOut", tx'[q].pc = "idle", SupervisorsOf(t) # {}, SupervisorsOf(t)' = {}, t \notin since[q]
               PROVE  LiveSessions(t)' \subseteq since[q]
    BY DEF RemovalSignsOut
  <2>1. Commit(q)
    <3>1. Abort(q) => SupervisorsOf(t)' = SupervisorsOf(t)
      BY DEF Abort, tables, SupervisorsOf, ActiveLinks, Active
    <3>2. QED
      BY <1>1, <3>1, Ending
  <2>2. ~StillSupervised(q, t)
    BY <1>1, <2>1, CommitSupervises
  <2>3. tx[q].op # "reactivate"
    BY <1>1, <2>2, ReactivationKeeps
  <2>4. LiveSessions(t) \subseteq tx[q].out \cup since[q]
    BY <1>1, <2>2, <2>3 DEF SignOutInv, Own, OutKnown
  <2>5. LiveSessions(t)' = LiveSessions(t) \ (tx[q].revokes \cup tx[q].out)
    BY <1>1, <2>1, CommitRevokes DEF IInv
  <2>6. QED
    BY <2>4, <2>5
<1>2. QED
  BY <1>1, SignOutKnown, PTL DEF Spec, SignsOutUnsupervised

(* The same commit signs nobody out who keeps an active supervisor.          *)
THEOREM SupervisedAreSpared == Spec => SparesSupervised
<1> DEFINE Spares == \A q \in Requests, t \in Users :
          /\ tx[q].pc = "signOut" /\ tx'[q].pc = "idle"
          /\ Active(t)' /\ SupervisorsOf(t)' # {} /\ t \notin since[q]
          => LiveSessions(t) \subseteq LiveSessions(t)'
<1>1. ASSUME IInv, SignOutInv, [Next]_vars PROVE Spares
  <2> SUFFICES ASSUME NEW q \in Requests, NEW t \in Users, tx[q].pc = "signOut", tx'[q].pc = "idle",
                      Active(t)', SupervisorsOf(t)' # {}, t \notin since[q]
               PROVE  LiveSessions(t) \subseteq LiveSessions(t)'
    OBVIOUS
  <2>1. CASE Abort(q)
    BY <2>1 DEF Abort, tables, LiveSessions
  <2>2. CASE Commit(q)
    <3>1. StillSupervised(q, t)
      BY <1>1, <2>2, CommitSupervises
    <3>2. \A s \in LiveSessions(t) : s \notin tx[q].out
      BY <1>1, <3>1 DEF SignOutInv, Own, OutOnly, LiveSessions
    <3>3. \A s \in LiveSessions(t) : s \notin tx[q].revokes
      <4> SUFFICES ASSUME NEW s \in LiveSessions(t), s \in tx[q].revokes PROVE FALSE
        OBVIOUS
      <4>1. Exits(q) /\ tx[q].who = t
        BY <1>1 DEF SignOutInv, Own, RevokesOwn, LiveSessions
      <4>2. tx[q].to # "active" /\ tx[q].op \in Transitions
        BY <1>1, <4>1, WritesStatus DEF Exits, Transits
      <4>3. status'[t] = tx[q].to
        BY <1>1, <2>2, <4>1, <4>2 DEF Commit, IInv, TypeOK
      <4>4. QED
        BY <4>2, <4>3 DEF Active
    <3>4. LiveSessions(t)' = LiveSessions(t) \ (tx[q].revokes \cup tx[q].out)
      BY <1>1, <2>2, CommitRevokes DEF IInv
    <3>5. QED
      BY <3>2, <3>3, <3>4
  <2>3. QED
    BY <1>1, <2>1, <2>2, Ending
<1>2. QED
  BY <1>1, SignOutKnown, PTL DEF Spec, SparesSupervised
=============================================================================
