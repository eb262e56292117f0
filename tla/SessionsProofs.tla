--------------------------- MODULE SessionsProofs ---------------------------
(* What the server promises of a session, for any limits and any number of   *)
(* sessions: it ends for idleness when use has ended and never comes back.   *)
(* And what its tabs make of it: they do nothing to sessions that Sessions   *)
(* does not, count down honestly, leave only for a reason, and extend a      *)
(* session only for somebody who is there.                                   *)
EXTENDS WebSession, TLAPS

USE DEF Row, SessionsTypeOK

(* The stamp lags behind the last use by less than the resolution.           *)
StampFollowsUse == \A s \in Sessions : row[s].place = "stored" =>
    row[s].lastActive <= used[s] /\ used[s] < row[s].lastActive + Resolution /\ used[s] <= clock

(* Nobody who is off has a session that could work again, but for one that   *)
(* was inserted in the meantime.                                             *)
OffIsRevoked == status # "active" =>
    \A s \in Sessions : row[s].place = "stored" => row[s].revoked \/ s \in stray

IInv == SessionsTypeOK /\ StampFollowsUse /\ OffIsRevoked

(* Purging takes a row away and changes nothing else.                        *)
LEMMA PurgedRows ==
    ASSUME SessionsTypeOK, NEW S \in SUBSET Sessions, NEW r \in Sessions
    PROVE  /\ Purged(S) \in [Sessions -> Row]
           /\ Purged(S)[r].place = "stored" => Purged(S)[r] = row[r]
           /\ row[r].place \in {"stored", "purged"} => Purged(S)[r].place \in {"stored", "purged"}
BY DEF Purged

(* Revoking takes effect on every stored row and changes nothing else.       *)
LEMMA RevokedRows ==
    ASSUME SessionsTypeOK, NEW r \in Sessions
    PROVE  /\ Revoked \in [Sessions -> Row]
           /\ row[r].place = "stored" => Revoked[r].revoked
           /\ Revoked[r].place = row[r].place /\ Revoked[r].lastActive = row[r].lastActive
           /\ Revoked[r].absolute = row[r].absolute
BY DEF Revoked

(* The behaviour starts in the invariant.                                    *)
LEMMA IInvInit == SessionsInit => IInv
BY SessionsAssumption DEF SessionsInit, IInv, StampFollowsUse, OffIsRevoked

(* A sign-in keeps it, admitted and inserted.                                *)
LEMMA AdmitKeeps ==
    ASSUME IInv, NEW s \in Sessions, Admit(s)
    PROVE  IInv'
<1>1. row' = [row EXCEPT ![s].place = "admitted"] /\ UNCHANGED <<clock, status, used, stray>> BY DEF Admit
<1>2. row' \in [Sessions -> Row] BY <1>1 DEF IInv
<1>3. \A r \in Sessions : row'[r].place = "stored" => row'[r] = row[r] BY <1>1 DEF IInv
<1> QED BY <1>1, <1>2, <1>3 DEF IInv, StampFollowsUse, OffIsRevoked

LEMMA CreateKeeps ==
    ASSUME IInv, NEW s \in Sessions, CreateSession(s)
    PROVE  IInv'
<1> DEFINE S == {r \in Sessions : PastRetention(r)}
<1>1. S \in SUBSET Sessions OBVIOUS
<1>2. clock \in Nat /\ AbsoluteTTL \in Nat /\ Resolution \in Nat \ {0} BY SessionsAssumption DEF IInv
<1>3. Purged(S) \in [Sessions -> Row] BY <1>1, PurgedRows DEF IInv
<1>4. ASSUME NEW r \in Sessions, r # s
      PROVE  row'[r].place = "stored" => row'[r] = row[r]
  <2>1. row'[r] = Purged(S)[r] BY <1>3, <1>4 DEF CreateSession
  <2> QED BY <2>1, <1>1, PurgedRows DEF IInv
<1>5. /\ row' \in [Sessions -> Row]
      /\ row'[s] = [place |-> "stored", revoked |-> FALSE, lastActive |-> clock, absolute |-> clock + AbsoluteTTL]
  BY <1>2, <1>3 DEF CreateSession
<1>6. /\ used' \in [Sessions -> Nat] /\ used'[s] = clock
      /\ \A r \in Sessions : r # s => used'[r] = used[r]
  BY <1>2 DEF CreateSession, IInv
<1>7. /\ clock' = clock /\ status' = status /\ stray \subseteq stray' /\ stray' \subseteq Sessions
      /\ status # "active" => s \in stray'
  BY DEF CreateSession, IInv
<1>8. SessionsTypeOK' BY <1>5, <1>6, <1>7 DEF IInv
<1>9. StampFollowsUse' BY <1>2, <1>4, <1>5, <1>6, <1>7 DEF IInv, StampFollowsUse
<1>10. OffIsRevoked' BY <1>4, <1>7 DEF IInv, OffIsRevoked
<1> QED BY <1>8, <1>9, <1>10 DEF IInv

(* A request keeps it, whoever's and whether it counts or not.               *)
LEMMA AuthenticateKeeps ==
    ASSUME IInv, NEW s \in Cookies, NEW touch \in BOOLEAN, Authenticate(s, touch)
    PROVE  IInv'
<1>1. clock \in Nat /\ Resolution \in Nat \ {0} /\ NoSession \notin Sessions BY SessionsAssumption DEF IInv
<1>2. clock' = clock /\ status' = status /\ stray' = stray BY DEF Authenticate
<1>3. CASE ~(touch /\ Outcome(s) = "ok")
  <2>1. row' = row /\ used' = used BY <1>3 DEF Authenticate, Touches
  <2> QED BY <1>2, <2>1 DEF IInv, StampFollowsUse, OffIsRevoked
<1>4. CASE touch /\ Outcome(s) = "ok"
  <2>1. s \in Sessions /\ row[s].place = "stored" BY <1>4 DEF Outcome, Cookies
  <2>2. /\ used' \in [Sessions -> Nat] /\ used'[s] = clock
        /\ \A r \in Sessions : r # s => used'[r] = used[r]
    BY <1>1, <1>4, <2>1 DEF Authenticate, IInv
  <2>3. CASE Touches(s, touch)
    <3>1. row' = [row EXCEPT ![s].lastActive = clock] BY <2>3 DEF Authenticate
    <3>2. /\ row' \in [Sessions -> Row] /\ row'[s].lastActive = clock
          /\ \A r \in Sessions : row'[r].place = row[r].place /\ row'[r].revoked = row[r].revoked
          /\ \A r \in Sessions : r # s => row'[r] = row[r]
      BY <1>1, <2>1, <3>1 DEF IInv
    <3>3. SessionsTypeOK' BY <1>2, <2>2, <3>2 DEF IInv
    <3>4. StampFollowsUse' BY <1>1, <1>2, <2>2, <3>2 DEF IInv, StampFollowsUse
    <3> QED BY <1>2, <3>2, <3>3, <3>4 DEF IInv, OffIsRevoked
  <2>4. CASE ~Touches(s, touch)
    <3>1. row' = row BY <2>4 DEF Authenticate
    <3>2. row[s] \in Row BY <2>1 DEF IInv
    <3>3. clock < row[s].lastActive + Resolution BY <1>1, <1>4, <2>4, <3>2 DEF Touches
    <3>4. SessionsTypeOK' BY <1>2, <2>2, <3>1 DEF IInv
    <3>5. row[s].lastActive <= clock
      BY <1>1, <2>1, <3>2 DEF IInv, StampFollowsUse
    <3>6. StampFollowsUse' BY <1>1, <1>2, <2>2, <3>1, <3>3, <3>5 DEF IInv, StampFollowsUse
    <3> QED BY <1>2, <3>1, <3>4, <3>6 DEF IInv, OffIsRevoked
  <2> QED BY <2>3, <2>4
<1> QED BY <1>3, <1>4

(* So do revocations, by a sign-out or with a deactivation.                  *)
LEMMA RevokeKeeps ==
    ASSUME IInv, row' = Revoked, status' \in {"active", "off"}, UNCHANGED <<clock, used, stray>>
    PROVE  IInv'
<1>1. row' \in [Sessions -> Row]
  <2>1. CASE Sessions = {} BY <2>1 DEF Revoked
  <2>2. CASE Sessions # {} BY <2>2, RevokedRows DEF IInv
  <2> QED BY <2>1, <2>2
<1>2. \A r \in Sessions : /\ row[r].place = "stored" => row'[r].revoked
                          /\ row'[r].place = row[r].place /\ row'[r].lastActive = row[r].lastActive
  BY RevokedRows DEF IInv
<1> QED BY <1>1, <1>2 DEF IInv, StampFollowsUse, OffIsRevoked

LEMMA PurgeKeeps ==
    ASSUME IInv, NEW S \in SUBSET Sessions, PurgeExpired(S)
    PROVE  IInv'
<1>1. row' = Purged(S) /\ UNCHANGED <<clock, status, used, stray>> BY DEF PurgeExpired
<1>2. row' \in [Sessions -> Row] BY <1>1 DEF IInv, Purged
<1>3. \A r \in Sessions : row'[r].place = "stored" => row'[r] = row[r] BY <1>1, PurgedRows DEF IInv
<1> QED BY <1>1, <1>2, <1>3 DEF IInv, StampFollowsUse, OffIsRevoked

LEMMA IInvNext == IInv /\ [SessionsNext]_sessionVars => IInv'
<1> SUFFICES ASSUME IInv, [SessionsNext]_sessionVars PROVE IInv' OBVIOUS
<1>1. ASSUME NEW s \in Sessions, CreateSession(s) PROVE IInv' BY <1>1, CreateKeeps
<1>0. ASSUME NEW s \in Sessions, Admit(s) PROVE IInv' BY <1>0, AdmitKeeps
<1>2. ASSUME NEW s \in Sessions, SignOutEverywhere(s) PROVE IInv'
  <2>1. CASE row' = row
    BY <1>2, <2>1 DEF SignOutEverywhere, IInv, StampFollowsUse, OffIsRevoked
  <2>2. CASE row' = Revoked BY <1>2, <2>2, RevokeKeeps DEF SignOutEverywhere, IInv
  <2> QED BY <1>2, <2>1, <2>2 DEF SignOutEverywhere
<1>3. ASSUME NEW s \in Sessions, NEW touch \in BOOLEAN, Authenticate(s, touch) PROVE IInv'
  BY <1>3, AuthenticateKeeps DEF Cookies
<1>4. CASE Deactivate BY <1>4, RevokeKeeps DEF Deactivate
<1>5. CASE Reactivate BY <1>5 DEF Reactivate, IInv, StampFollowsUse, OffIsRevoked
<1>6. ASSUME NEW S \in SUBSET Sessions, PurgeExpired(S) PROVE IInv' BY <1>6, PurgeKeeps
<1>7. CASE Tick BY <1>7 DEF Tick, IInv, StampFollowsUse, OffIsRevoked
<1>8. CASE UNCHANGED sessionVars
  BY <1>8 DEF sessionVars, IInv, StampFollowsUse, OffIsRevoked
<1> QED BY <1>0, <1>1, <1>2, <1>3, <1>4, <1>5, <1>6, <1>7, <1>8 DEF SessionsNext

LEMMA Invariance == SessionsSpec => []IInv
BY IInvInit, IInvNext, PTL DEF SessionsSpec

-----------------------------------------------------------------------------
(* Type correctness of the table, the clock and the history.                 *)
THEOREM SessionsTyped == SessionsSpec => []SessionsTypeOK
<1>1. IInv => SessionsTypeOK BY DEF IInv
<1> QED BY <1>1, Invariance, PTL

(* The idle limit of authenticate_session follows use to within the          *)
(* resolution of the stamp, whatever the limits are.                         *)
THEOREM IdleLimit == SessionsSpec => []IdleLimitFollowsUse
<1>1. ASSUME IInv PROVE IdleLimitFollowsUse
  <2> SUFFICES ASSUME NEW s \in Sessions, row[s].place = "stored"
               PROVE  /\ Outcome(s) = "session_expired" => clock - used[s] > IdleTTL - Resolution
                      /\ clock - used[s] >= IdleTTL => Outcome(s) # "ok"
    BY DEF IdleLimitFollowsUse
  <2>1. /\ row[s].lastActive \in Nat /\ used[s] \in Nat /\ clock \in Nat
        /\ IdleTTL \in Nat /\ Resolution \in Nat /\ s # NoSession
    BY <1>1, SessionsAssumption DEF IInv
  <2>2. row[s].lastActive <= used[s] /\ used[s] < row[s].lastActive + Resolution
    BY <1>1 DEF IInv, StampFollowsUse
  <2>3. Outcome(s) = "session_expired" => row[s].lastActive + IdleTTL <= clock
    BY <2>1 DEF Outcome, IdleDeadline
  <2>4. row[s].lastActive + IdleTTL <= clock => Outcome(s) # "ok"
    BY <2>1 DEF Outcome, IdleDeadline
  <2> QED BY <2>1, <2>2, <2>3, <2>4
<1> QED BY <1>1, Invariance, PTL

(* What a step may do to a row that has been used.                           *)
LEMMA RowSteps ==
    ASSUME IInv, [SessionsNext]_sessionVars, NEW s \in Sessions, row[s].place \in {"stored", "purged"}, Outcome(s) # "ok"
    PROVE  /\ row'[s].place = "stored" => row[s].place = "stored"
           /\ row'[s].place = "stored" /\ row[s].revoked => row'[s].revoked
           /\ row'[s].place = "stored" => row'[s].absolute = row[s].absolute /\ row'[s].lastActive = row[s].lastActive
           /\ clock' >= clock
<1> DEFINE Kept == /\ row'[s].place = "stored" => row[s].place = "stored"
                   /\ row'[s].place = "stored" /\ row[s].revoked => row'[s].revoked
                   /\ row'[s].place = "stored" => row'[s].absolute = row[s].absolute /\ row'[s].lastActive = row[s].lastActive
                   /\ clock' >= clock
<1>0. clock \in Nat /\ row[s] \in Row BY DEF IInv
<1>1. ASSUME NEW r \in Sessions, CreateSession(r) PROVE Kept
  <2> DEFINE S == {x \in Sessions : PastRetention(x)}
  <2>1. S \in SUBSET Sessions OBVIOUS
  <2>2. r # s BY <1>1 DEF CreateSession
  <2>3. row'[s] = Purged(S)[s] BY <1>1, <2>2 DEF CreateSession, Purged
  <2>4. row'[s].place = "stored" => row'[s] = row[s] BY <2>1, <2>3, PurgedRows DEF IInv
  <2> QED BY <1>0, <1>1, <2>4 DEF CreateSession
<1>2. ASSUME NEW r \in Sessions, SignOutEverywhere(r) PROVE Kept
  <2>1. clock' = clock /\ (row' = row \/ row' = Revoked) BY <1>2 DEF SignOutEverywhere
  <2>2. row[s].place = "stored" => Revoked[s].revoked BY RevokedRows DEF IInv
  <2>3. Revoked[s].place = row[s].place /\ Revoked[s].lastActive = row[s].lastActive /\ Revoked[s].absolute = row[s].absolute
    BY RevokedRows DEF IInv
  <2> QED BY <1>0, <2>1, <2>2, <2>3
<1>3. ASSUME NEW r \in Sessions, NEW touch \in BOOLEAN, Authenticate(r, touch) PROVE Kept
  <2>1. row'[s] = row[s] /\ clock' = clock BY <1>3 DEF Authenticate, Touches, IInv
  <2> QED BY <1>0, <2>1
<1>4. CASE Deactivate
  <2>1. row[s].place = "stored" => Revoked[s].revoked BY RevokedRows DEF IInv
  <2>2. Revoked[s].place = row[s].place /\ Revoked[s].lastActive = row[s].lastActive /\ Revoked[s].absolute = row[s].absolute
    BY RevokedRows DEF IInv
  <2> QED BY <1>0, <1>4, <2>1, <2>2 DEF Deactivate
<1>5. CASE Reactivate BY <1>0, <1>5 DEF Reactivate
<1>6. ASSUME NEW S \in SUBSET Sessions, PurgeExpired(S) PROVE Kept
  <2>1. row' = Purged(S) /\ clock' = clock BY <1>6 DEF PurgeExpired
  <2>2. row'[s].place = "stored" => row'[s] = row[s] BY <2>1, PurgedRows DEF IInv
  <2> QED BY <1>0, <2>1, <2>2
<1>7. CASE Tick BY <1>0, <1>7 DEF Tick
<1>8. CASE UNCHANGED sessionVars BY <1>0, <1>8 DEF sessionVars
<1>9. ASSUME NEW r \in Sessions, Admit(r) PROVE Kept
  <2>1. r # s /\ clock' = clock BY <1>9 DEF Admit
  <2> QED BY <1>0, <1>9, <2>1 DEF Admit, IInv
<1> QED BY <1>1, <1>2, <1>3, <1>4, <1>5, <1>6, <1>7, <1>8, <1>9 DEF SessionsNext

(* A session that works no more is past help: every later step leaves it so. *)
LEMMA RefusedStays ==
    ASSUME IInv, IInv', [SessionsNext]_sessionVars, NEW s \in Sessions, row[s].place \in {"stored", "purged"},
           Outcome(s) # "ok", ~WaitsForAccount(s)
    PROVE  Outcome(s)' # "ok"
<1> SUFFICES ASSUME row'[s].place = "stored" PROVE Outcome(s)' # "ok"
  BY DEF Outcome
<1>1. /\ row[s].place = "stored" /\ (row[s].revoked => row'[s].revoked)
      /\ row'[s].absolute = row[s].absolute /\ row'[s].lastActive = row[s].lastActive /\ clock' >= clock
  BY RowSteps
<1>2. /\ clock \in Nat /\ clock' \in Nat /\ row[s].absolute \in Nat /\ row[s].lastActive \in Nat
      /\ IdleTTL \in Nat /\ s # NoSession
  BY SessionsAssumption DEF IInv
<1>3. status # "active" => row[s].revoked
  <2>1. status # "active" => Outcome(s) = "account_deactivated" BY <1>1, <1>2 DEF Outcome
  <2> QED BY <1>1, <2>1 DEF IInv, OffIsRevoked, WaitsForAccount
<1>4. row[s].revoked \/ row[s].absolute <= clock \/ row[s].lastActive + IdleTTL <= clock
  BY <1>1, <1>2, <1>3 DEF Outcome, IdleDeadline
<1>5. row'[s].revoked \/ row'[s].absolute <= clock' \/ row'[s].lastActive + IdleTTL <= clock'
  BY <1>1, <1>2, <1>4
<1> QED BY <1>2, <1>5 DEF Outcome, IdleDeadline

LEMMA StrayGrows == ASSUME [SessionsNext]_sessionVars PROVE stray \subseteq stray'
BY DEF SessionsNext, sessionVars, Admit, CreateSession, SignOutEverywhere, Authenticate, Deactivate, Reactivate,
   PurgeExpired, Tick

(* A session that authenticate_session has refused it refuses ever after: no *)
(* touch, reactivation or purge brings one back, whatever the limits are,    *)
(* if it was not inserted while its account was off.                         *)
THEOREM NoneComesBack == SessionsSpec => DeadStaysDead
<1> DEFINE Stays == \A s \in Sessions :
                        (row[s].place \in {"stored", "purged"} /\ Outcome(s) # "ok" /\ ~WaitsForAccount(s)) =>
                            Outcome(s)' # "ok"
<1>1. IInv /\ IInv' /\ [SessionsNext]_sessionVars => [Stays]_sessionVars BY RefusedStays
<1>2. SessionsSpec => [][Stays]_sessionVars BY <1>1, Invariance, PTL DEF SessionsSpec
<1> QED BY <1>2 DEF DeadStaysDead

-----------------------------------------------------------------------------
(* The tabs.  Whatever they ask, they ask it with a cookie of the browser,   *)
(* so a request is one that Sessions knows or one without a session.         *)
CallsOK ==
    /\ cookie \in Cookies /\ logout \in Cookies
    /\ call \in [Tabs -> [read : Call, probe : Call]]

LEMMA CallTypes ==
    ASSUME IInv
    PROVE  /\ NoCall \in Call
           /\ \A s \in Cookies, b \in BOOLEAN : Sent(s, b) \in Call
           /\ \A s \in Cookies : [Sent(s, FALSE) EXCEPT !.shown = TRUE] \in Call
<1>1. clock \in Nat BY DEF IInv
<1> QED BY <1>1 DEF NoCall, Sent, Call, Cookies, Outcomes

(* An answer with a session in it has time left on it.                       *)
LEMMA AnswerTyped ==
    ASSUME IInv, IInv', clock' = clock, NEW c \in Call
    PROVE  Answer(c) \in Call
<1> DEFINE s == c.of
<1>1. Outcome(s)' \in Outcomes BY DEF Outcome, Outcomes
<1>2. clock \in Nat /\ c.of \in Cookies BY DEF IInv, Call
<1>3. CASE Outcome(s)' = "ok"
  <2>1. s \in Sessions BY <1>2, <1>3 DEF Outcome, Cookies
  <2>2. row'[s] \in Row /\ IdleTTL \in Nat BY <2>1, SessionsAssumption DEF IInv
  <2>3. row'[s].absolute > clock /\ row'[s].lastActive + IdleTTL > clock
    BY <1>2, <1>3, <2>2 DEF Outcome, IdleDeadline
  <2>4. Deadline(s)' - clock \in Nat BY <1>2, <2>2, <2>3 DEF Deadline, IdleDeadline, Sooner
  <2>5. Capped(s)' \in BOOLEAN BY DEF Capped
  <2> QED BY <1>1, <1>3, <2>4, <2>5 DEF Answer, Call
<1>4. CASE Outcome(s)' # "ok"
  BY <1>1, <1>4 DEF Answer, Call
<1> QED BY <1>3, <1>4

(* A request changes a session as Sessions says, if it has one at all.       *)
LEMMA RequestSteps ==
    ASSUME IInv, NEW s \in Cookies, NEW touch \in BOOLEAN, Authenticate(s, touch)
    PROVE  [SessionsNext]_sessionVars
<1>1. CASE s \in Sessions BY <1>1 DEF SessionsNext
<1>2. CASE s = NoSession
  <2>1. Outcome(s) # "ok" BY <1>2 DEF Outcome
  <2>2. row' = row /\ used' = used BY <2>1 DEF Authenticate, Touches
  <2> QED BY <2>2 DEF Authenticate, sessionVars
<1> QED BY <1>1, <1>2 DEF Cookies

(* What each step of the browser does to the sessions on the server.         *)
LEMMA BrowserSteps ==
    ASSUME IInv, CallsOK, [Next]_vars
    PROVE  [SessionsNext]_sessionVars
<1> DEFINE Goal == [SessionsNext]_sessionVars
<1>1. ASSUME NEW t \in Tabs, ServeRead(t) PROVE Goal
  <2>1. call[t].read.of \in Cookies BY DEF CallsOK, Call
  <2> QED BY <1>1, <2>1, RequestSteps DEF ServeRead, Serve
<1>2. ASSUME NEW t \in Tabs, ServeProbe(t) PROVE Goal
  <2>1. call[t].probe.of \in Cookies BY DEF CallsOK, Call
  <2> QED BY <1>2, <2>1, RequestSteps DEF ServeProbe, Serve
<1>3. ASSUME NEW t \in Tabs,
             Evaluate(t) \/ ReceiveRead(t) \/ ReceiveProbe(t) \/ Deliver(t) \/ FailRead(t) \/ FailProbe(t)
      PROVE  Goal
  BY <1>3 DEF Evaluate, ReceiveRead, ReceiveProbe, Deliver, FailRead, FailProbe, Confirm
<1>4. ASSUME NEW t \in Tabs, Person(t) PROVE Goal
  <2>1. ASSUME PageRequest(t) PROVE Goal
    BY <2>1, RequestSteps DEF PageRequest, CallsOK
  <2>2. ASSUME NEW s \in Sessions, SignIn(t, s) \/ Arrive(t, s) PROVE Goal
    BY <2>2 DEF SignIn, Arrive, SessionsNext
  <2>3. CASE OpenTab(t) \/ Retry(t) \/ Interact(t) \/ ComeBack(t) \/ StaySignedIn(t) \/ DismissWarning(t) \/ SignOut(t)
    BY <2>3 DEF OpenTab, Retry, Interact, ComeBack, StaySignedIn, DismissWarning, SignOut
  <2> QED BY <1>4, <2>1, <2>2, <2>3 DEF Person
<1>5. CASE ServeLogout
  BY <1>5 DEF ServeLogout, CallsOK, Cookies, SessionsNext
<1>6. CASE Elsewhere BY <1>6 DEF Elsewhere, SessionsNext
<1>7. CASE Pass BY <1>7 DEF Pass, SessionsNext
<1>8. CASE UNCHANGED vars BY <1>8 DEF vars
<1> QED BY <1>1, <1>2, <1>3, <1>4, <1>5, <1>6, <1>7, <1>8 DEF Next, TabStep

(* No step puts anything else into a request.                                *)
LEMMA CallsStep ==
    ASSUME IInv, IInv', CallsOK, [Next]_vars
    PROVE  CallsOK'
<1> DEFINE Good == call' \in [Tabs -> [read : Call, probe : Call]]
<1>0. NoSession \in Cookies /\ \A s \in Sessions : s \in Cookies BY DEF Cookies
<1>1. ASSUME NEW t \in Tabs, NEW c \in Call, call' = [call EXCEPT ![t].read = c] PROVE Good
  BY <1>1 DEF CallsOK
<1>2. ASSUME NEW t \in Tabs, NEW c \in Call, call' = [call EXCEPT ![t].probe = c] PROVE Good
  BY <1>2 DEF CallsOK
<1>3. ASSUME NEW t \in Tabs, NEW c \in Call, NEW d \in Call, call' = [call EXCEPT ![t] = [read |-> c, probe |-> d]]
      PROVE  Good
  BY <1>3 DEF CallsOK
<1>4. ASSUME NEW t \in Tabs PROVE call[t].read \in Call /\ call[t].probe \in Call
  BY DEF CallsOK
<1>5. ASSUME NEW t \in Tabs, NEW renewing \in BOOLEAN, Refetch(t, renewing) PROVE Good
  BY <1>1, <1>5, CallTypes DEF Refetch, CallsOK
<1>6. ASSUME NEW t \in Tabs, NEW s \in Cookies, Load(t, s) PROVE Good
  BY <1>3, <1>6, CallTypes DEF Load
<1>7. ASSUME NEW t \in Tabs, TabStep(t) PROVE CallsOK'
  <2>1. CASE Evaluate(t)
    <3>1. CASE Expire(t) BY <1>2, <2>1, <3>1, CallTypes DEF Evaluate, Expire, CallsOK
    <3>2. CASE Renew(t) BY <1>5, <2>1, <3>2 DEF Evaluate, Renew, CallsOK
    <3> QED BY <2>1, <3>1, <3>2 DEF Evaluate, AwaitConfirmation, Warn, CallsOK
  <2>2. CASE ServeRead(t)
    <3>1. clock' = clock BY <2>2 DEF ServeRead, Serve, Authenticate
    <3>2. Answer(call[t].read) \in Call BY <1>4, <3>1, AnswerTyped
    <3>3. call' = [call EXCEPT ![t].read = Answer(call[t].read)] BY <2>2 DEF ServeRead, CallsOK
    <3> QED BY <1>1, <2>2, <3>2, <3>3 DEF ServeRead, CallsOK
  <2>3. CASE ServeProbe(t)
    <3>1. clock' = clock BY <2>3 DEF ServeProbe, Serve, Authenticate
    <3>2. Answer(call[t].probe) \in Call BY <1>4, <3>1, AnswerTyped
    <3>3. call' = [call EXCEPT ![t].probe = Answer(call[t].probe)] BY <2>3 DEF ServeProbe, CallsOK
    <3> QED BY <1>2, <2>3, <3>2, <3>3 DEF ServeProbe, CallsOK
  <2>4. CASE ReceiveRead(t) BY <1>1, <2>4, CallTypes DEF ReceiveRead, CallsOK
  <2>5. CASE ReceiveProbe(t) BY <1>2, <2>5, CallTypes DEF ReceiveProbe, Confirm, CallsOK
  <2>6. CASE Deliver(t)
    <3>1. CASE UNCHANGED call BY <2>6, <3>1 DEF Deliver, CallsOK
    <3>2. CASE call' = [call EXCEPT ![t].read = Sent(cookie, FALSE)]
      BY <1>1, <2>6, <3>2, CallTypes DEF Deliver, CallsOK
    <3> QED BY <2>6, <3>1, <3>2 DEF Deliver
  <2> QED BY <1>7, <2>1, <2>2, <2>3, <2>4, <2>5, <2>6 DEF TabStep
<1>8. ASSUME NEW t \in Tabs, Person(t) PROVE CallsOK'
  <2>1. CASE OpenTab(t) BY <1>6, <2>1 DEF OpenTab, Load, CallsOK
  <2>2. ASSUME NEW s \in Sessions, Arrive(t, s) PROVE CallsOK'
    BY <1>0, <1>6, <2>2 DEF Arrive, Load, CallsOK
  <2>8. ASSUME NEW s \in Sessions, SignIn(t, s) PROVE CallsOK'
    BY <1>3, <2>8, CallTypes DEF SignIn, CallsOK
  <2>3. CASE Retry(t) BY <1>5, <2>3 DEF Retry, CallsOK
  <2>4. CASE ComeBack(t) BY <1>1, <2>4, CallTypes DEF ComeBack, CallsOK
  <2>5. CASE StaySignedIn(t) BY <1>5, <2>5 DEF StaySignedIn, CallsOK
  <2>6. CASE SignOut(t) BY <1>3, <2>6, CallTypes DEF SignOut, CallsOK
  <2>7. CASE Interact(t) \/ PageRequest(t) \/ DismissWarning(t)
    BY <2>7 DEF Interact, PageRequest, DismissWarning, CallsOK
  <2> QED BY <1>8, <2>1, <2>2, <2>3, <2>4, <2>5, <2>6, <2>7, <2>8 DEF Person
<1>9. ASSUME NEW t \in Tabs, FailRead(t) \/ FailProbe(t) PROVE CallsOK'
  <2>1. CASE FailRead(t)
    <3>1. PICK c \in Call : call' = [call EXCEPT ![t].read = c]
      <4>1. [Sent(cookie, call[t].read.renewing) EXCEPT !.shown = call[t].read.shown] \in Call
        <5>1. cookie \in Cookies /\ call[t].read.renewing \in BOOLEAN /\ call[t].read.shown \in BOOLEAN
          BY <1>4 DEF CallsOK, Call
        <5>2. Sent(cookie, call[t].read.renewing) \in Call BY <5>1, CallTypes
        <5> QED BY <5>1, <5>2 DEF Call
      <4>2. NoCall \in Call BY CallTypes
      <4> QED BY <2>1, <4>1, <4>2 DEF FailRead, CallsOK
    <3> QED BY <1>1, <2>1, <3>1 DEF FailRead, CallsOK
  <2>2. CASE FailProbe(t) BY <1>2, <2>2, CallTypes DEF FailProbe, Confirm, CallsOK
  <2> QED BY <1>9, <2>1, <2>2
<1>10. CASE ServeLogout BY <1>0, <1>10 DEF ServeLogout, CallsOK
<1>11. CASE Elsewhere BY <1>11 DEF Elsewhere, CallsOK
<1>12. CASE Pass BY <1>12 DEF Pass, CallsOK
<1>13. CASE UNCHANGED vars BY <1>13 DEF vars, CallsOK
<1> QED BY <1>7, <1>8, <1>9, <1>10, <1>11, <1>12, <1>13 DEF Next

(* The browser's tabs, with everything that races between them, do nothing   *)
(* to sessions that Sessions does not do: they implement it.                 *)
THEOREM TabsImplementSessions == Spec => SessionsSpec
<1>1. Init => SessionsInit /\ IInv /\ CallsOK
  <2>1. ASSUME Init PROVE CallsOK
    <3>1. NoSession \in Cookies BY DEF Cookies
    <3>2. NoCall \in Call BY <3>1 DEF NoCall, Call, Outcomes
    <3> QED BY <2>1, <3>1, <3>2 DEF Init, CallsOK
  <2> QED BY <2>1, IInvInit DEF Init
<1>2. IInv /\ CallsOK /\ [Next]_vars => [SessionsNext]_sessionVars BY BrowserSteps
<1>3. IInv /\ CallsOK /\ [Next]_vars => IInv' /\ CallsOK' BY <1>2, IInvNext, CallsStep
<1> QED BY <1>1, <1>2, <1>3, PTL DEF Spec, SessionsSpec

(* So the idle limit follows use with tabs and their messages as well.       *)
THEOREM TabsIdleLimit == Spec => []IdleLimitFollowsUse
BY TabsImplementSessions, IdleLimit, PTL

(* And no tab can bring a refused session back.                              *)
THEOREM TabsNoneComesBack == Spec => DeadStaysDead
BY TabsImplementSessions, NoneComesBack, PTL
-----------------------------------------------------------------------------
(* The countdown.  What tabs believe and tell each other about the session   *)
(* is measured against the row of the cookie, the newest row there is.       *)
BrowserTyped ==
    /\ tab \in [Tabs -> Tab] /\ inbox \in [Tabs -> Seq(Messages)] /\ mishaps \in Nat

Reach == Sooner(AbsoluteTTL, IdleTTL)
RowsBounded == \A s \in Sessions : row[s].absolute <= clock + AbsoluteTTL /\ row[s].lastActive <= clock
CookieNewest == cookie \in Sessions =>
    row[cookie].place \in {"stored", "purged"} /\ \A s \in Sessions : row[s].absolute <= row[cookie].absolute

(* A request on its way is young, and one of an earlier cookie is older than *)
(* the last use of the present one; its answer, when it comes, promises no   *)
(* more than the row of the cookie keeps, and a refusal is for good.         *)
Asked(c) == c.stage # "none" =>
    /\ c.at <= clock /\ clock <= c.at + Latency
    /\ c.of \in Sessions => row[c.of].place \in {"stored", "purged"}
    /\ cookie \in Sessions /\ c.of # cookie => c.at <= row[cookie].lastActive
Answered(c) == c.stage = "answered" =>
    /\ c.outcome = "ok" => c.left <= Reach /\ (cookie \in Sessions => c.at + c.left <= Deadline(cookie))
    /\ c.outcome # "ok" => Outcome(c.of) # "ok" \/ c.of \in stray
CallsHonest == \A t \in Tabs :
    /\ Asked(call[t].read) /\ Answered(call[t].read)
    /\ Asked(call[t].probe) /\ Answered(call[t].probe)

(* A deadline that a tab counts down to or that a message carries.           *)
Tells(q, e) == \E i \in DOMAIN q : q[i].type = "session-renewed" /\ q[i].expires = e
Claim(e) == \E t \in Tabs : (tab[t].data = "in" /\ tab[t].expires = e) \/ Tells(inbox[t], e)
Promise(e) == e <= clock + Reach /\ (cookie \in Sessions => e <= Deadline(cookie) + Latency)
ClaimsHonest == \A e \in Nat : Claim(e) => Promise(e)

(* The timer of a tab is to run, or its countdown does, or it has asked.     *)
TimerRuns(r, probe, now) == r.page = "app" /\ r.data = "in" =>
    /\ r.expiring => probe.stage # "none"
    /\ ~r.due /\ ~r.expiring => r.expires > now
TimersRun == \A t \in Tabs : TimerRuns(tab[t], call[t].probe, clock)

WInv == BrowserTyped /\ RowsBounded /\ CookieNewest /\ CallsHonest /\ ClaimsHonest /\ TimersRun

(* Rows that were ever used stay, keep their end and are only used later.    *)
LEMMA RowsMove ==
    ASSUME IInv, IInv', RowsBounded, [SessionsNext]_sessionVars
    PROVE  /\ clock' >= clock
           /\ \A s \in Sessions : row[s].place \in {"stored", "purged"} =>
                  /\ row'[s].place \in {"stored", "purged"} /\ row'[s].absolute = row[s].absolute
                  /\ row'[s].lastActive >= row[s].lastActive
           /\ RowsBounded'
<1> DEFINE Kept == \A s \in Sessions : row[s].place \in {"stored", "purged"} =>
                       /\ row'[s].place \in {"stored", "purged"} /\ row'[s].absolute = row[s].absolute
                       /\ row'[s].lastActive >= row[s].lastActive
           Goal == clock' >= clock /\ Kept /\ RowsBounded'
<1>0. clock \in Nat /\ AbsoluteTTL \in Nat /\ \A s \in Sessions : row[s] \in Row BY SessionsAssumption DEF IInv
<1>1. ASSUME NEW s \in Sessions, CreateSession(s) PROVE Goal
  <2> DEFINE S == {x \in Sessions : PastRetention(x)}
  <2>1. clock' = clock /\ row[s].place \in {"unused", "admitted"} BY <1>1 DEF CreateSession
  <2>2. row'[s].absolute = clock + AbsoluteTTL /\ row'[s].lastActive = clock
    BY <1>1 DEF CreateSession, Purged
  <2>3. \A r \in Sessions : r # s =>
            /\ row[r].place \in {"stored", "purged"} => row'[r].place \in {"stored", "purged"}
            /\ row'[r].absolute = row[r].absolute /\ row'[r].lastActive = row[r].lastActive
    BY <1>1 DEF CreateSession, Purged, IInv
  <2> QED BY <1>0, <2>1, <2>2, <2>3 DEF RowsBounded
<1>2. ASSUME row' = Revoked \/ row' = row, clock' = clock PROVE Goal
  BY <1>0, <1>2, RevokedRows DEF RowsBounded, IInv
<1>3. ASSUME NEW r \in Sessions, NEW touch \in BOOLEAN, Authenticate(r, touch) PROVE Goal
  <2>1. clock' = clock /\ (row' = row \/ row' = [row EXCEPT ![r].lastActive = clock])
    BY <1>3 DEF Authenticate
  <2>2. CASE row' = row BY <1>2, <2>1, <2>2
  <2>3. CASE row' = [row EXCEPT ![r].lastActive = clock]
    <3>1. \A s \in Sessions :
              /\ row'[s].place = row[s].place /\ row'[s].absolute = row[s].absolute
              /\ row'[s].lastActive = row[s].lastActive \/ row'[s].lastActive = clock
      BY <2>3 DEF IInv
    <3> QED BY <1>0, <2>1, <3>1 DEF RowsBounded
  <2> QED BY <2>1, <2>2, <2>3
<1>4. ASSUME NEW S \in SUBSET Sessions, PurgeExpired(S) PROVE Goal
  <2>1. clock' = clock /\ \A s \in Sessions :
            /\ row[s].place \in {"stored", "purged"} => row'[s].place \in {"stored", "purged"}
            /\ row'[s].absolute = row[s].absolute /\ row'[s].lastActive = row[s].lastActive
    BY <1>4 DEF PurgeExpired, Purged, IInv
  <2> QED BY <1>0, <2>1 DEF RowsBounded
<1>5. CASE Tick BY <1>0, <1>5 DEF Tick, RowsBounded
<1>6. ASSUME NEW s \in Sessions, SignOutEverywhere(s) PROVE Goal BY <1>2, <1>6 DEF SignOutEverywhere
<1>7. CASE Deactivate \/ Reactivate BY <1>2, <1>7 DEF Deactivate, Reactivate
<1>8. CASE UNCHANGED sessionVars BY <1>2, <1>8 DEF sessionVars
<1>9. ASSUME NEW r \in Sessions, Admit(r) PROVE Goal
  <2>1. clock' = clock /\ \A s \in Sessions :
            /\ row[s].place \in {"stored", "purged"} => row'[s].place \in {"stored", "purged"}
            /\ row'[s].absolute = row[s].absolute /\ row'[s].lastActive = row[s].lastActive
    BY <1>9 DEF Admit, IInv
  <2> QED BY <1>0, <2>1 DEF RowsBounded
<1> QED BY <1>1, <1>3, <1>4, <1>5, <1>6, <1>7, <1>8, <1>9 DEF SessionsNext

(* The cookie stays or is taken away and no row begins, or it is a new one's. *)
CookieMove ==
    \/ cookie' \in {cookie, NoSession} /\ \A s \in Sessions : row'[s].absolute = row[s].absolute
    \/ \E s \in Sessions : CreateSession(s) /\ cookie' = s

LEMMA CookieMoves == ASSUME IInv, [Next]_vars PROVE CookieMove
<1> DEFINE Same == \A s \in Sessions : row'[s].absolute = row[s].absolute
<1>1. ASSUME NEW s, NEW touch, Authenticate(s, touch) PROVE Same
  BY <1>1 DEF Authenticate, IInv
<1>2. ASSUME row' = Revoked \/ row' = row PROVE Same BY <1>2, RevokedRows DEF IInv
<1>3. ASSUME NEW s, SignOutEverywhere(s) PROVE Same BY <1>2, <1>3 DEF SignOutEverywhere
<1>4. ASSUME NEW t \in Tabs, TabStep(t) \/ FailRead(t) \/ FailProbe(t) PROVE cookie' = cookie /\ Same
  <2>1. CASE ServeRead(t) \/ ServeProbe(t) BY <1>1, <2>1 DEF ServeRead, ServeProbe, Serve
  <2>2. CASE Evaluate(t) \/ ReceiveRead(t) \/ ReceiveProbe(t) \/ Deliver(t) \/ FailRead(t) \/ FailProbe(t)
    BY <2>2 DEF Evaluate, ReceiveRead, ReceiveProbe, Confirm, Deliver, FailRead, FailProbe, sessionVars
  <2> QED BY <1>4, <2>1, <2>2 DEF TabStep
<1>5. ASSUME NEW t \in Tabs, Person(t) PROVE CookieMove
  <2>1. ASSUME NEW s \in Sessions, Arrive(t, s) PROVE CookieMove BY <2>1 DEF Arrive, CookieMove
  <2>4. ASSUME NEW s \in Sessions, SignIn(t, s) PROVE CookieMove
    <3>1. cookie' = cookie /\ Same BY <2>4 DEF SignIn, Admit, IInv
    <3> QED BY <3>1 DEF CookieMove
  <2>2. CASE PageRequest(t) BY <1>1, <2>2 DEF PageRequest, CookieMove
  <2>3. CASE OpenTab(t) \/ Retry(t) \/ Interact(t) \/ ComeBack(t) \/ StaySignedIn(t) \/ DismissWarning(t) \/ SignOut(t)
    BY <2>3 DEF OpenTab, Retry, Interact, ComeBack, StaySignedIn, DismissWarning, SignOut, CookieMove, sessionVars
  <2> QED BY <1>5, <2>1, <2>2, <2>3, <2>4 DEF Person
<1>6. CASE ServeLogout BY <1>3, <1>6 DEF ServeLogout, CookieMove
<1>7. CASE Elsewhere
  <2>1. ASSUME NEW S \in SUBSET Sessions, PurgeExpired(S) PROVE Same BY <2>1 DEF PurgeExpired, Purged, IInv
  <2> QED BY <1>2, <1>3, <1>7, <2>1 DEF Elsewhere, Deactivate, Reactivate, CookieMove
<1>8. CASE Pass \/ UNCHANGED vars BY <1>8 DEF Pass, Tick, vars, sessionVars, CookieMove
<1> QED BY <1>4, <1>5, <1>6, <1>7, <1>8 DEF Next, CookieMove

(* What a step does to the row of the cookie: it is used later, or it is new *)
(* and keeps all that a session can.                                         *)
Renewed ==
    /\ cookie' = cookie /\ cookie \in Sessions
    /\ row'[cookie].lastActive >= row[cookie].lastActive
    /\ Deadline(cookie)' >= Deadline(cookie)
Started ==
    /\ clock' = clock /\ row[cookie'].place \in {"unused", "admitted"} /\ row'[cookie'].lastActive = clock
    /\ Deadline(cookie)' = clock + Reach

LEMMA CookieRow ==
    ASSUME IInv, IInv', RowsBounded, CookieNewest, CallsOK, CallsOK', [Next]_vars
    PROVE  /\ CookieNewest'
           /\ cookie' \in Sessions => Renewed \/ Started
<1>1. [SessionsNext]_sessionVars BY BrowserSteps
<1>2. /\ clock' >= clock
      /\ \A s \in Sessions : row[s].place \in {"stored", "purged"} =>
             /\ row'[s].place \in {"stored", "purged"} /\ row'[s].absolute = row[s].absolute
             /\ row'[s].lastActive >= row[s].lastActive
      /\ RowsBounded'
  BY <1>1, RowsMove
<1>3. /\ clock \in Nat /\ AbsoluteTTL \in Nat /\ IdleTTL \in Nat /\ NoSession \notin Sessions
      /\ \A s \in Sessions : row[s] \in Row /\ row'[s] \in Row
  BY SessionsAssumption DEF IInv
<1>4. ASSUME cookie' = cookie, cookie \in Sessions, \A s \in Sessions : row'[s].absolute = row[s].absolute
      PROVE  CookieNewest' /\ Renewed
  <2>1. Deadline(cookie)' >= Deadline(cookie)
    BY <1>2, <1>3, <1>4 DEF CookieNewest, Deadline, IdleDeadline, Sooner
  <2>2. Renewed BY <1>2, <1>4, <2>1 DEF Renewed, CookieNewest
  <2>3. row'[cookie].place \in {"stored", "purged"} BY <1>2, <1>4 DEF CookieNewest
  <2> QED BY <1>2, <1>4, <2>2, <2>3 DEF CookieNewest
<1>5. ASSUME NEW s \in Sessions, CreateSession(s), cookie' = s PROVE CookieNewest' /\ Started
  <2>1. /\ clock' = clock /\ row[s].place \in {"unused", "admitted"} /\ row'[s].place = "stored"
        /\ row'[s].lastActive = clock /\ row'[s].absolute = clock + AbsoluteTTL
    BY <1>5 DEF CreateSession, Purged
  <2>2. \A r \in Sessions : row'[r].absolute <= row'[s].absolute
    BY <1>2, <1>3, <2>1 DEF RowsBounded
  <2>3. Deadline(cookie)' = clock + Reach
    BY <1>3, <1>5, <2>1 DEF Deadline, IdleDeadline, Reach, Sooner
  <2> QED BY <1>5, <2>1, <2>2, <2>3 DEF CookieNewest, Started
<1> QED BY <1>3, <1>4, <1>5, CookieMoves DEF CookieMove, CookieNewest

(* What a step may do to a request: leave it alone, unless it is given up    *)
(* when time passes; drop it; send one with the cookie; or answer it.        *)
CallMove(c, d) ==
    \/ d = c /\ (clock' = clock \/ c.stage = "none" \/ clock' <= c.at + Latency)
    \/ d.stage = "none"
    \/ d.stage = "sent" /\ d.at = clock' /\ d.of = cookie' /\ clock' = clock
    \/ (\E touch \in BOOLEAN : Serve(c, touch)) /\ d = Answer(c) /\ cookie' = cookie

LEMMA CallsMove ==
    ASSUME IInv, CallsOK, [Next]_vars, NEW t \in Tabs
    PROVE  CallMove(call[t].read, call'[t].read) /\ CallMove(call[t].probe, call'[t].probe)
<1> DEFINE Goal == CallMove(call[t].read, call'[t].read) /\ CallMove(call[t].probe, call'[t].probe)
<1>0. /\ clock \in Nat /\ NoCall.stage = "none"
      /\ \A s, b : Sent(s, b).stage = "sent" /\ Sent(s, b).at = clock /\ Sent(s, b).of = s
      /\ LET c == [Sent(cookie, FALSE) EXCEPT !.shown = TRUE] IN c.stage = "sent" /\ c.at = clock /\ c.of = cookie
  BY DEF IInv, Sent, NoCall
<1>1. ASSUME clock' = clock, call' = call PROVE Goal BY <1>1 DEF CallMove
<1>2. ASSUME NEW u \in Tabs, NEW c, clock' = clock, call' = [call EXCEPT ![u].read = c], 
             CallMove(call[u].read, c)
      PROVE  Goal
  BY <1>2 DEF CallMove, CallsOK
<1>3. ASSUME NEW u \in Tabs, NEW c, clock' = clock, call' = [call EXCEPT ![u].probe = c], 
             CallMove(call[u].probe, c)
      PROVE  Goal
  BY <1>3 DEF CallMove, CallsOK
<1>4. ASSUME NEW u \in Tabs, NEW c, NEW d, clock' = clock, call' = [call EXCEPT ![u] = [read |-> c, probe |-> d]],
             CallMove(call[u].read, c), CallMove(call[u].probe, d)
      PROVE  Goal
  BY <1>4 DEF CallMove, CallsOK
<1>5. ASSUME NEW u \in Tabs, NEW renewing, Refetch(u, renewing), clock' = clock, cookie' = cookie PROVE Goal
  <2>1. CallMove(call[u].read, Sent(cookie, renewing)) BY <1>0, <1>5 DEF CallMove
  <2> QED BY <1>2, <1>5, <2>1 DEF Refetch
<1>6. ASSUME NEW u \in Tabs, NEW s, Load(u, s), clock' = clock, cookie' = s PROVE Goal
  <2>1. CallMove(call[u].read, Sent(s, FALSE)) /\ CallMove(call[u].probe, NoCall) BY <1>0, <1>6 DEF CallMove
  <2> QED BY <1>4, <1>6, <2>1 DEF Load
<1>7. ASSUME NEW u \in Tabs, TabStep(u) PROVE Goal
  <2>1. CASE Evaluate(u)
    <3>0. clock' = clock /\ cookie' = cookie BY <2>1 DEF Evaluate, sessionVars
    <3>1. CASE Expire(u)
      <4>1. CallMove(call[u].probe, Sent(cookie, FALSE)) BY <1>0, <3>0 DEF CallMove
      <4> QED BY <1>3, <3>0, <3>1, <4>1 DEF Expire
    <3>2. CASE Renew(u) BY <1>5, <3>0, <3>2 DEF Renew
    <3> QED BY <1>1, <2>1, <3>0, <3>1, <3>2 DEF Evaluate, AwaitConfirmation, Warn
  <2>2. CASE ServeRead(u)
    <3>1. clock' = clock /\ cookie' = cookie BY <2>2 DEF ServeRead, Serve, Authenticate
    <3>2. CallMove(call[u].read, Answer(call[u].read)) BY <2>2, <3>1 DEF ServeRead, CallMove
    <3>3. call' = [call EXCEPT ![u].read = Answer(call[u].read)] BY <2>2 DEF ServeRead, CallsOK
    <3> QED BY <1>2, <3>1, <3>2, <3>3
  <2>3. CASE ServeProbe(u)
    <3>1. clock' = clock /\ cookie' = cookie BY <2>3 DEF ServeProbe, Serve, Authenticate
    <3>2. CallMove(call[u].probe, Answer(call[u].probe)) BY <2>3, <3>1 DEF ServeProbe, CallMove
    <3>3. call' = [call EXCEPT ![u].probe = Answer(call[u].probe)] BY <2>3 DEF ServeProbe, CallsOK
    <3> QED BY <1>3, <3>1, <3>2, <3>3
  <2>4. CASE ReceiveRead(u)
    <3>1. clock' = clock /\ call' = [call EXCEPT ![u].read = NoCall] BY <2>4 DEF ReceiveRead, sessionVars
    <3> QED BY <1>0, <1>2, <3>1 DEF CallMove
  <2>5. CASE ReceiveProbe(u)
    <3>1. clock' = clock /\ call' = [call EXCEPT ![u].probe = NoCall]
      BY <2>5 DEF ReceiveProbe, Confirm, sessionVars
    <3> QED BY <1>0, <1>3, <3>1 DEF CallMove
  <2>6. CASE Deliver(u)
    <3>0. clock' = clock /\ cookie' = cookie BY <2>6 DEF Deliver, sessionVars
    <3>1. CallMove(call[u].read, Sent(cookie, FALSE)) BY <1>0, <3>0 DEF CallMove
    <3>2. call' = call \/ call' = [call EXCEPT ![u].read = Sent(cookie, FALSE)] BY <2>6 DEF Deliver
    <3> QED BY <1>1, <1>2, <3>0, <3>1, <3>2
  <2> QED BY <1>7, <2>1, <2>2, <2>3, <2>4, <2>5, <2>6 DEF TabStep
<1>8. ASSUME NEW u \in Tabs, Person(u) PROVE Goal
  <2>1. CASE OpenTab(u) BY <1>6, <2>1 DEF OpenTab, sessionVars
  <2>2. ASSUME NEW s \in Sessions, Arrive(u, s) PROVE Goal
    BY <1>6, <2>2 DEF Arrive, CreateSession
  <2>8. ASSUME NEW s \in Sessions, SignIn(u, s) PROVE Goal
    <3>1. clock' = clock /\ call' = [call EXCEPT ![u] = [read |-> NoCall, probe |-> NoCall]]
      BY <2>8 DEF SignIn, Admit
    <3> QED BY <1>0, <1>4, <3>1 DEF CallMove
  <2>3. CASE Retry(u) BY <1>5, <2>3 DEF Retry, sessionVars
  <2>4. CASE ComeBack(u)
    <3>1. /\ clock' = clock /\ cookie' = cookie
          /\ call' = [call EXCEPT ![u].read = [Sent(cookie, FALSE) EXCEPT !.shown = TRUE]]
      BY <2>4 DEF ComeBack, sessionVars
    <3>2. CallMove(call[u].read, [Sent(cookie, FALSE) EXCEPT !.shown = TRUE])
      BY <1>0, <3>1 DEF CallMove
    <3> QED BY <1>2, <3>1, <3>2
  <2>5. CASE StaySignedIn(u) BY <1>5, <2>5 DEF StaySignedIn, sessionVars
  <2>6. CASE SignOut(u)
    <3>1. clock' = clock /\ call' = [call EXCEPT ![u] = [read |-> NoCall, probe |-> NoCall]]
      BY <2>6 DEF SignOut, sessionVars
    <3> QED BY <1>0, <1>4, <3>1 DEF CallMove
  <2>7. CASE Interact(u) \/ PageRequest(u) \/ DismissWarning(u)
    BY <1>1, <2>7 DEF Interact, PageRequest, Authenticate, DismissWarning, sessionVars
  <2> QED BY <1>8, <2>1, <2>2, <2>3, <2>4, <2>5, <2>6, <2>7, <2>8 DEF Person
<1>9. ASSUME NEW u \in Tabs, FailRead(u) \/ FailProbe(u) PROVE Goal
  <2>1. CASE FailRead(u)
    <3>0. clock' = clock /\ cookie' = cookie BY <2>1 DEF FailRead, sessionVars
    <3>1. CASE call' = [call EXCEPT ![u].read = NoCall] BY <1>0, <1>2, <3>0, <3>1 DEF CallMove
    <3>2. CASE ~(call' = [call EXCEPT ![u].read = NoCall])
      <4>1. PICK c : c = [Sent(cookie, call[u].read.renewing) EXCEPT !.shown = call[u].read.shown] OBVIOUS
      <4>2. c.stage = "sent" /\ c.at = clock /\ c.of = cookie BY <4>1 DEF Sent, NoCall
      <4>3. call' = [call EXCEPT ![u].read = c] BY <2>1, <3>2, <4>1 DEF FailRead, CallsOK
      <4>4. CallMove(call[u].read, c) BY <3>0, <4>2 DEF CallMove
      <4> QED BY <1>2, <3>0, <4>3, <4>4
    <3> QED BY <3>1, <3>2
  <2>2. CASE FailProbe(u)
    <3>1. clock' = clock /\ call' = [call EXCEPT ![u].probe = NoCall] BY <2>2 DEF FailProbe, Confirm, sessionVars
    <3> QED BY <1>0, <1>3, <3>1 DEF CallMove
  <2> QED BY <1>9, <2>1, <2>2
<1>10. CASE ServeLogout \/ Elsewhere \/ UNCHANGED vars
  BY <1>1, <1>10 DEF ServeLogout, SignOutEverywhere, Elsewhere, Deactivate, Reactivate, PurgeExpired, vars, sessionVars
<1>11. CASE Pass
  <2>1. clock' = clock + 1 /\ call' = call BY <1>11 DEF Pass, Tick
  <2>2. /\ call[t].read.stage # "none" => clock < call[t].read.at + Latency
        /\ call[t].probe.stage # "none" => clock < call[t].probe.at + Latency
    BY <1>11 DEF Pass
  <2>3. call[t].read.at \in Nat /\ call[t].probe.at \in Nat /\ Latency \in Nat
    BY WebAssumption DEF CallsOK, Call
  <2> QED BY <1>0, <2>1, <2>2, <2>3 DEF CallMove
<1> QED BY <1>7, <1>8, <1>9, <1>10, <1>11 DEF Next

(* A request that is as it should be stays so.                               *)
LEMMA CallKeeps ==
    ASSUME IInv, IInv', RowsBounded, CookieNewest, CallsOK, CallsOK', [Next]_vars,
           NEW c \in Call, NEW d \in Call, CallMove(c, d), Asked(c), Answered(c)
    PROVE  Asked(d)' /\ Answered(d)'
<1> DEFINE Fine == Asked(d)' /\ Answered(d)'
<1>0. [SessionsNext]_sessionVars BY BrowserSteps
<1>1. /\ clock' >= clock
      /\ \A s \in Sessions : row[s].place \in {"stored", "purged"} =>
             /\ row'[s].place \in {"stored", "purged"} /\ row'[s].absolute = row[s].absolute
             /\ row'[s].lastActive >= row[s].lastActive
      /\ RowsBounded'
  BY <1>0, RowsMove
<1>2. CookieNewest' /\ (cookie' \in Sessions => Renewed \/ Started) BY CookieRow
<1>3. /\ clock \in Nat /\ clock' \in Nat /\ AbsoluteTTL \in Nat /\ IdleTTL \in Nat /\ Latency \in Nat
      /\ NoSession \notin Sessions /\ \A s \in Sessions : row[s] \in Row /\ row'[s] \in Row
      /\ c.at \in Nat /\ c.left \in Nat /\ d.at \in Nat /\ d.left \in Nat /\ c.of \in Cookies /\ d.of \in Cookies
  BY SessionsAssumption, WebAssumption DEF IInv, Call
<1>4. cookie' \in Sessions => Deadline(cookie)' \in Nat /\ row'[cookie'].lastActive \in Nat
  BY <1>3 DEF Deadline, IdleDeadline, Sooner
<1>5. cookie \in Sessions => Deadline(cookie) \in Nat BY <1>3 DEF Deadline, IdleDeadline, Sooner
<1>6. Reach \in Nat BY <1>3 DEF Reach, Sooner
<1>7. CASE d = c /\ (clock' = clock \/ c.stage = "none" \/ clock' <= c.at + Latency)
  <2>1. CASE c.stage = "none" BY <1>7, <2>1 DEF Asked, Answered
  <2>2. CASE c.stage # "none"
    <3>1. c.at <= clock' /\ clock' <= c.at + Latency BY <1>1, <1>3, <1>7, <2>2 DEF Asked
    <3>2. c.of \in Sessions => row[c.of].place \in {"stored", "purged"} /\ row'[c.of].place \in {"stored", "purged"}
      BY <1>1, <2>2 DEF Asked
    <3>3. cookie' \in Sessions /\ c.of # cookie' => c.at <= row'[cookie'].lastActive
      <4>1. CASE Renewed BY <1>3, <1>4, <2>2, <4>1 DEF Renewed, Asked
      <4>2. CASE Started BY <1>3, <2>2, <4>2 DEF Started, Asked
      <4> QED BY <1>2, <4>1, <4>2
    <3>4. ASSUME c.stage = "answered", c.outcome = "ok", cookie' \in Sessions
          PROVE  c.at + c.left <= Deadline(cookie)'
      <4>1. CASE Renewed BY <1>3, <1>4, <1>5, <3>4, <4>1 DEF Renewed, Answered
      <4>2. CASE Started BY <1>3, <1>6, <2>2, <3>4, <4>2 DEF Started, Answered, Asked
      <4> QED BY <1>2, <3>4, <4>1, <4>2
    <3>5. ASSUME Outcome(c.of) # "ok" \/ c.of \in stray PROVE Outcome(c.of)' # "ok" \/ c.of \in stray'
      <4>0. stray \subseteq stray' BY <1>0, StrayGrows
      <4>1. CASE c.of = NoSession BY <4>1 DEF Outcome
      <4>2. CASE c.of \in Sessions
        <5>1. row[c.of].place \in {"stored", "purged"} BY <3>2, <4>2
        <5> QED BY <1>0, <3>5, <4>0, <4>2, <5>1, RefusedStays DEF WaitsForAccount
      <4> QED BY <1>3, <4>1, <4>2 DEF Cookies
    <3>6. Asked(c)' BY <1>7, <3>1, <3>2, <3>3 DEF Asked
    <3>7. Answered(c)' BY <3>4, <3>5 DEF Answered
    <3> QED BY <1>7, <3>6, <3>7
  <2> QED BY <2>1, <2>2
<1>8. CASE d.stage = "none" BY <1>8 DEF Asked, Answered
<1>9. CASE d.stage = "sent" /\ d.at = clock' /\ d.of = cookie' /\ clock' = clock
  BY <1>2, <1>3, <1>9 DEF Asked, Answered, CookieNewest
<1>10. ASSUME NEW touch \in BOOLEAN, Serve(c, touch), d = Answer(c), cookie' = cookie
       PROVE  Fine
  <2> DEFINE s == c.of
  <2>1. clock' = clock /\ c.stage = "sent" BY <1>10 DEF Serve, Authenticate
  <2>2. /\ d.stage = "answered" /\ d.at = c.at /\ d.of = c.of /\ d.outcome = Outcome(s)'
        /\ Outcome(s)' = "ok" => d.left = Deadline(s)' - clock
    BY <1>10 DEF Answer, Call
  <2>3. Asked(d)'
    <3>1. cookie' \in Sessions /\ d.of # cookie' => d.at <= row'[cookie'].lastActive
      <4>1. CASE Renewed BY <1>3, <1>4, <2>1, <2>2, <4>1 DEF Renewed, Asked
      <4>2. CASE Started BY <1>3, <2>1, <2>2, <4>2 DEF Started, Asked
      <4> QED BY <1>2, <4>1, <4>2
    <3> QED BY <1>1, <1>3, <2>1, <2>2, <3>1 DEF Asked
  <2>4. ASSUME Outcome(s)' = "ok"
        PROVE  d.left <= Reach /\ (cookie' \in Sessions => d.at + d.left <= Deadline(cookie)')
    <3>1. s \in Sessions BY <1>3, <2>4 DEF Outcome, Cookies
    <3>2. /\ Deadline(s)' <= row'[s].absolute /\ Deadline(s)' <= row'[s].lastActive + IdleTTL
          /\ Deadline(s)' \in Nat
      BY <1>3, <3>1 DEF Deadline, IdleDeadline, Sooner
    <3>3. row'[s].absolute <= clock + AbsoluteTTL /\ row'[s].lastActive <= clock
      BY <1>1, <2>1, <3>1 DEF RowsBounded
    <3>4. d.left <= Reach BY <1>3, <2>2, <2>4, <3>1, <3>2, <3>3 DEF Reach, Sooner
    <3>5. c.at <= clock BY <2>1 DEF Asked
    <3>6. ASSUME cookie' \in Sessions PROVE d.at + d.left <= Deadline(cookie)'
      <4>1. CASE c.of = cookie' BY <1>3, <2>2, <2>4, <3>2, <3>5, <4>1 DEF Deadline
      <4>2. CASE c.of # cookie'
        <5>1. c.at <= row'[cookie'].lastActive BY <1>10, <2>3, <2>2, <3>6, <4>2, <2>1 DEF Asked
        <5>2. row'[s].absolute <= row'[cookie'].absolute BY <1>2, <3>1, <3>6 DEF CookieNewest
        <5>3. d.left <= IdleTTL BY <1>3, <2>2, <2>4, <3>1, <3>2, <3>3
        <5>4. d.at + d.left <= row'[cookie'].absolute
          BY <1>3, <2>2, <2>4, <3>1, <3>2, <3>5, <3>6, <5>2
        <5>5. d.at + d.left <= row'[cookie'].lastActive + IdleTTL
          BY <1>3, <2>2, <3>6, <5>1, <5>3
        <5> QED BY <1>3, <3>6, <5>4, <5>5 DEF Deadline, IdleDeadline, Sooner
      <4> QED BY <4>1, <4>2
    <3> QED BY <3>4, <3>6
  <2> QED BY <2>2, <2>3, <2>4 DEF Answered
<1> QED BY <1>7, <1>8, <1>9, <1>10 DEF CallMove

LEMMA CallsHonestStep ==
    ASSUME IInv, IInv', RowsBounded, CookieNewest, CallsOK, CallsOK', CallsHonest, [Next]_vars
    PROVE  CallsHonest'
<1> SUFFICES ASSUME NEW t \in Tabs
             PROVE  /\ Asked(call[t].read)' /\ Answered(call[t].read)'
                    /\ Asked(call[t].probe)' /\ Answered(call[t].probe)'
  BY DEF CallsHonest
<1>1. /\ call[t].read \in Call /\ call[t].probe \in Call
      /\ call'[t].read \in Call /\ call'[t].probe \in Call
  BY DEF CallsOK
<1>2. CallMove(call[t].read, call'[t].read) /\ CallMove(call[t].probe, call'[t].probe) BY CallsMove
<1>3. PICK d \in Call : d = call'[t].read BY <1>1
<1>4. Asked(d)' /\ Answered(d)'
  BY <1>1, <1>2, <1>3, CallKeeps DEF CallsHonest
<1>5. PICK e \in Call : e = call'[t].probe BY <1>1
<1>6. Asked(e)' /\ Answered(e)'
  BY <1>1, <1>2, <1>5, CallKeeps DEF CallsHonest
<1> QED BY <1>3, <1>4, <1>5, <1>6 DEF Asked, Answered

-----------------------------------------------------------------------------
(* What the handlers make of a tab and of the messages.                      *)
LEMMA TabTypes ==
    ASSUME IInv
    PROVE  /\ Away \in Tab /\ Away.page = "away" /\ Away.data = "pending"
           /\ \A r \in Tab, s \in Cookies, e \in Nat, capped \in BOOLEAN :
                  LET q == SignedIn(r, s, e, capped) IN
                  /\ q \in Tab /\ q.data = "in" /\ q.expires = e /\ ~q.expiring
                  /\ q.page = GuestPage(r) /\ (q.page = "app" => q.due)
           /\ \A r \in Tab, o \in Outcomes :
                  SignedOut(r, o) \in Tab /\ SignedOut(r, o).data = "out"
<1>1. clock \in Nat /\ LongAgo \in Int BY WebAssumption DEF IInv, LongAgo
<1>2. Away \in Tab /\ Away.page = "away" /\ Away.data = "pending" BY <1>1 DEF Away, Tab, Cookies
<1>3. ASSUME NEW r \in Tab, NEW s \in Cookies, NEW e \in Nat, NEW capped \in BOOLEAN
      PROVE  LET q == SignedIn(r, s, e, capped) IN
             /\ q \in Tab /\ q.data = "in" /\ q.expires = e /\ ~q.expiring
             /\ q.page = GuestPage(r) /\ (q.page = "app" => q.due)
  <2>1. GuestPage(r) \in {"app", "login", "notice", "away"} BY DEF GuestPage, Tab
  <2>2. CASE r.page = "app" /\ r.data = "in"
    BY <1>1, <2>1, <2>2 DEF SignedIn, Tab
  <2>3. CASE ~(r.page = "app" /\ r.data = "in")
    <3>1. SignedIn(r, s, e, capped) =
              [Away EXCEPT !.page = GuestPage(r), !.data = "in", !.of = s, !.expires = e, !.capped = capped,
                           !.act = clock, !.dismissed = FALSE, !.expiring = FALSE,
                           !.due = GuestPage(r) = "app"]
      BY <2>3, Zenon DEF SignedIn
    <3> DEFINE q(b) == [Away EXCEPT !.page = GuestPage(r), !.data = "in", !.of = s, !.expires = e, !.capped = capped,
                                    !.act = clock, !.dismissed = FALSE, !.expiring = FALSE, !.due = b]
    <3>2. clock \in Int BY <1>1
    <3>3. q(TRUE) \in Tab /\ q(FALSE) \in Tab
      <4> DEFINE f(a, p, n, b) == [a EXCEPT !.page = p, !.data = "in", !.of = s, !.expires = e, !.capped = capped,
                                    !.act = n, !.dismissed = FALSE, !.expiring = FALSE, !.due = b]
      <4>1. \A a \in Tab, p \in {"app", "login", "notice", "away"}, n \in Int, b \in BOOLEAN : f(a, p, n, b) \in Tab
        <5> TAKE a \in Tab, p \in {"app", "login", "notice", "away"}, n \in Int, b \in BOOLEAN
        <5> QED BY DEF Tab
      <4>2. q(TRUE) = f(Away, GuestPage(r), clock, TRUE) /\ q(FALSE) = f(Away, GuestPage(r), clock, FALSE) OBVIOUS
      <4> HIDE DEF f, q
      <4>3. TRUE \in BOOLEAN /\ FALSE \in BOOLEAN OBVIOUS
      <4>4. f(Away, GuestPage(r), clock, TRUE) \in Tab /\ f(Away, GuestPage(r), clock, FALSE) \in Tab
        BY <1>2, <2>1, <3>2, <4>1, <4>3, Zenon
      <4> QED BY <4>2, <4>4
    <3>4. DOMAIN Away = {"page", "data", "of", "expires", "capped", "act", "renewAt", "dismissed", "expiring", "warning", "due"}
      BY DEF Away
    <3>5. \A b \in BOOLEAN : /\ q(b).data = "in" /\ q(b).expires = e /\ q(b).expiring = FALSE
                             /\ q(b).page = GuestPage(r) /\ q(b).due = b
      BY <3>4
    <3>6. CASE GuestPage(r) = "app"
      <4>1. SignedIn(r, s, e, capped) = q(TRUE) BY <3>1, <3>6, Zenon
      <4> HIDE DEF q
      <4> QED BY <3>3, <3>5, <4>1
    <3>7. CASE GuestPage(r) # "app"
      <4>1. SignedIn(r, s, e, capped) = q(FALSE) BY <3>1, <3>7, Zenon
      <4> HIDE DEF q
      <4> QED BY <3>3, <3>5, <3>7, <4>1
    <3> QED BY <3>6, <3>7
  <2> QED BY <2>2, <2>3
<1>4. ASSUME NEW r \in Tab, NEW o \in Outcomes
      PROVE  SignedOut(r, o) \in Tab /\ SignedOut(r, o).data = "out"
  BY <1>2 DEF SignedOut, Tab
<1> QED BY <1>2, <1>3, <1>4

LEMMA AppendTells ==
    ASSUME NEW q \in Seq(Messages), NEW m \in Messages, NEW e, Tells(Append(q, m), e)
    PROVE  Tells(q, e) \/ (m.type = "session-renewed" /\ m.expires = e)
<1>1. PICK i \in DOMAIN Append(q, m) : Append(q, m)[i].type = "session-renewed" /\ Append(q, m)[i].expires = e
  BY DEF Tells
<1>2. CASE i = Len(q) + 1 BY <1>1, <1>2
<1>3. CASE i \in DOMAIN q BY <1>1, <1>3 DEF Tells
<1> QED BY <1>1, <1>2, <1>3

LEMMA TailTells ==
    ASSUME NEW q \in Seq(Messages), q # <<>>
    PROVE  /\ Tail(q) \in Seq(Messages) /\ Head(q) \in Messages
           /\ \A e : Tells(Tail(q), e) => Tells(q, e)
           /\ Head(q).type = "session-renewed" => Tells(q, Head(q).expires)
<1>1. Tail(q) \in Seq(Messages) /\ Head(q) = q[1] /\ 1 \in DOMAIN q /\ q[1] \in Messages OBVIOUS
<1>2. ASSUME NEW i \in DOMAIN Tail(q) PROVE i + 1 \in DOMAIN q /\ Tail(q)[i] = q[i + 1] OBVIOUS
<1>3. ASSUME NEW e, Tells(Tail(q), e) PROVE Tells(q, e)
  BY <1>2, <1>3 DEF Tells
<1> QED BY <1>1, <1>3 DEF Tells

(* A deadline that an answer on hand stands for.                             *)
Earned(e) == \E t \in Tabs : \E c \in {call[t].read, call[t].probe} :
    c.stage = "answered" /\ c.outcome = "ok" /\ e = clock + c.left

(* No message says what no tab, message or answer says.                      *)
Sourced(box) ==
    /\ box \in [Tabs -> Seq(Messages)]
    /\ \A o \in Tabs, e \in Nat : Tells(box[o], e) => Claim(e) \/ Earned(e)

LEMMA Sources ==
    ASSUME IInv, BrowserTyped
    PROVE  /\ Sourced(inbox)
           /\ \A t \in Tabs, m \in Messages :
                  (m.type = "session-renewed" => Claim(m.expires) \/ Earned(m.expires)) => Sourced(Published(t, m))
           /\ \A t \in Tabs : Sourced(RenewalOver(t)) /\ RenewalOver(t)[t] = inbox[t]
           /\ \A t \in Tabs, m \in Messages : Published(t, m)[t] = inbox[t]
<1>1. inbox \in [Tabs -> Seq(Messages)] BY DEF BrowserTyped
<1>2. Sourced(inbox) BY <1>1 DEF Sourced, Claim
<1>3. ASSUME NEW t \in Tabs, NEW m \in Messages,
             m.type = "session-renewed" => Claim(m.expires) \/ Earned(m.expires)
      PROVE  Sourced(Published(t, m))
  <2>1. Published(t, m) \in [Tabs -> Seq(Messages)] BY <1>1 DEF Published
  <2>2. ASSUME NEW o \in Tabs, NEW e \in Nat, Tells(Published(t, m)[o], e) PROVE Claim(e) \/ Earned(e)
    <3>1. CASE Published(t, m)[o] = inbox[o] BY <2>2, <3>1 DEF Claim
    <3>2. CASE Published(t, m)[o] = Append(inbox[o], m)
      <4>1. Tells(inbox[o], e) \/ (m.type = "session-renewed" /\ m.expires = e)
        BY <1>1, <2>2, <3>2, AppendTells
      <4> QED BY <1>3, <4>1 DEF Claim
    <3> QED BY <3>1, <3>2 DEF Published
  <2> QED BY <2>1, <2>2 DEF Sourced
<1>4. \A t \in Tabs, m \in Messages : Published(t, m)[t] = inbox[t] BY DEF Published
<1>5. ASSUME NEW t \in Tabs PROVE Sourced(RenewalOver(t)) /\ RenewalOver(t)[t] = inbox[t]
  <2> DEFINE m == [type |-> "session-renewed", expires |-> tab[t].expires]
  <2>1. CASE call[t].read.renewing /\ tab[t].data = "in"
    <3>1. tab[t].expires \in Nat BY DEF BrowserTyped, Tab
    <3>2. m \in Messages BY <3>1 DEF Messages
    <3>3. Claim(m.expires) BY <2>1 DEF Claim
    <3>4. RenewalOver(t) = Published(t, m) BY <2>1 DEF RenewalOver
    <3> QED BY <1>3, <1>4, <3>2, <3>3, <3>4
  <2>2. CASE ~(call[t].read.renewing /\ tab[t].data = "in") BY <1>2, <2>2 DEF RenewalOver
  <2> QED BY <2>1, <2>2
<1> QED BY <1>2, <1>3, <1>4, <1>5

LEMMA SourcedCut ==
    ASSUME NEW box, Sourced(box), NEW t \in Tabs, NEW q,
           q = <<>> \/ (box[t] # <<>> /\ q = Tail(box[t]))
    PROVE  Sourced([box EXCEPT ![t] = q])
<1>1. box[t] \in Seq(Messages) BY DEF Sourced
<1>2. q \in Seq(Messages) /\ \A e : Tells(q, e) => Tells(box[t], e)
  <2>1. CASE q = <<>> BY <2>1 DEF Tells
  <2>2. CASE box[t] # <<>> /\ q = Tail(box[t]) BY <1>1, <2>2, TailTells
  <2> QED BY <2>1, <2>2
<1>3. [box EXCEPT ![t] = q] \in [Tabs -> Seq(Messages)] BY <1>2 DEF Sourced
<1>4. ASSUME NEW o \in Tabs, NEW e \in Nat, Tells([box EXCEPT ![t] = q][o], e) PROVE Claim(e) \/ Earned(e)
  <2>1. [box EXCEPT ![t] = q][o] = IF o = t THEN q ELSE box[o] BY DEF Sourced
  <2>2. Tells(box[o], e) BY <1>2, <1>4, <2>1
  <2> QED BY <2>2 DEF Sourced
<1> QED BY <1>3, <1>4 DEF Sourced

(* Why a tab may leave.                                                      *)
Reason(t) ==
    \/ \E c \in {call[t].read, call[t].probe} :
           c.stage = "answered" /\ (Outcome(c.of) # "ok" \/ c.of \in stray)
    \/ call[t].probe.outcome = "ok" \/ mishaps' > mishaps
Leaves(t) == Watching(t) /\ tab'[t].page \in {"login", "notice"}

TabsMove ==
    /\ BrowserTyped'
    /\ \A e \in Nat : Claim(e)' => Claim(e) \/ Earned(e)
    /\ TimersRun'
    /\ \A t \in Tabs : Leaves(t) => Reason(t)

(* One tab's handler at an instant leaves the others as they are.            *)
LEMMA OneTabMoves ==
    ASSUME IInv, BrowserTyped, TimersRun, clock' = clock, NEW u \in Tabs,
           tab' \in [Tabs -> Tab], Sourced(inbox'), mishaps' \in Nat,
           \A o \in Tabs : o # u => tab'[o] = tab[o] /\ call'[o].probe = call[o].probe,
           tab'[u].data = "in" => Claim(tab'[u].expires) \/ Earned(tab'[u].expires),
           TimerRuns(tab'[u], call'[u].probe, clock),
           Leaves(u) => Reason(u)
    PROVE  TabsMove
<1>1. BrowserTyped' BY DEF BrowserTyped, Sourced
<1>2. ASSUME NEW e \in Nat, Claim(e)' PROVE Claim(e) \/ Earned(e)
  <2>1. PICK o \in Tabs : (tab'[o].data = "in" /\ tab'[o].expires = e) \/ Tells(inbox'[o], e)
    BY <1>2 DEF Claim, Tells
  <2>2. CASE Tells(inbox'[o], e) BY <2>2 DEF Sourced
  <2>3. CASE tab'[o].data = "in" /\ tab'[o].expires = e /\ o # u BY <2>3 DEF Claim
  <2>4. CASE tab'[o].data = "in" /\ tab'[o].expires = e /\ o = u BY <2>4
  <2> QED BY <2>1, <2>2, <2>3, <2>4
<1>3. TimersRun' BY DEF TimersRun, TimerRuns
<1>4. ASSUME NEW o \in Tabs, Leaves(o) PROVE Reason(o)
  <2>1. CASE o = u BY <1>4, <2>1
  <2>2. CASE o # u BY <1>4, <2>2 DEF Leaves, Watching
  <2> QED BY <2>1, <2>2
<1> QED BY <1>1, <1>2, <1>3, <1>4 DEF TabsMove

(* Every handler.                                                            *)
LEMMA QuietMoves ==
    ASSUME IInv, BrowserTyped, TimersRun, clock' = clock, UNCHANGED <<tab, inbox>>, mishaps' \in Nat,
           \A o \in Tabs : call'[o].probe.stage = "none" => call[o].probe.stage = "none"
    PROVE  TabsMove
<1>1. BrowserTyped' BY DEF BrowserTyped
<1>2. ASSUME NEW e \in Nat, Claim(e)' PROVE Claim(e)
  BY <1>2 DEF Claim, Tells
<1>3. TimersRun' BY DEF TimersRun, TimerRuns
<1>4. ASSUME NEW o \in Tabs PROVE ~Leaves(o)
  BY DEF Leaves, Watching
<1> QED BY <1>1, <1>2, <1>3, <1>4 DEF TabsMove

LEMMA EvaluateMoves ==
    ASSUME IInv, BrowserTyped, TimersRun, CallsOK, NEW t \in Tabs, Evaluate(t)
    PROVE  TabsMove
<1>0. /\ clock' = clock /\ mishaps' = mishaps /\ Watching(t) /\ tab[t] \in Tab /\ mishaps \in Nat
      /\ tab \in [Tabs -> Tab] /\ clock \in Nat /\ clock \in Int
  BY DEF Evaluate, sessionVars, BrowserTyped, IInv
<1>1. Sourced(inbox) /\ Sourced(RenewalOver(t)) BY Sources
<1>2. Claim(tab[t].expires) BY <1>0 DEF Watching, Claim
<1>3. CASE Expire(t)
  <2> DEFINE r == [tab[t] EXCEPT !.warning = FALSE, !.expiring = TRUE, !.due = FALSE]
  <2>1. r \in Tab /\ r.page = tab[t].page /\ r.expires = tab[t].expires /\ r.expiring = TRUE BY <1>0 DEF Tab
  <2>2. /\ tab' \in [Tabs -> Tab] /\ tab'[t] = r /\ \A o \in Tabs : o # t => tab'[o] = tab[o]
    BY <1>0, <1>3, <2>1 DEF Expire
  <2>3. call'[t].probe.stage = "sent" /\ \A o \in Tabs : o # t => call'[o].probe = call[o].probe
    BY <1>3 DEF Expire, CallsOK, Sent, NoCall
  <2>4. Sourced(inbox') BY <1>1, <1>3 DEF Expire
  <2>5. TimerRuns(tab'[t], call'[t].probe, clock) BY <2>1, <2>2, <2>3 DEF TimerRuns
  <2>6. ~Leaves(t) BY <1>0, <2>1, <2>2 DEF Leaves, Watching
  <2> HIDE DEF r
  <2> QED BY <1>0, <1>2, <2>1, <2>2, <2>3, <2>4, <2>5, <2>6, OneTabMoves
<1>4. CASE AwaitConfirmation(t)
  <2> DEFINE r == [tab[t] EXCEPT !.warning = FALSE, !.due = FALSE]
  <2>1. r \in Tab /\ r.page = tab[t].page /\ r.expires = tab[t].expires /\ r.expiring = tab[t].expiring
    BY <1>0 DEF Tab
  <2>2. /\ tab' \in [Tabs -> Tab] /\ tab'[t] = r /\ \A o \in Tabs : o # t => tab'[o] = tab[o]
    BY <1>0, <1>4, <2>1 DEF AwaitConfirmation
  <2>3. call' = call BY <1>4 DEF AwaitConfirmation
  <2>4. Sourced(inbox') BY <1>1, <1>4 DEF AwaitConfirmation
  <2>5. tab[t].expiring = TRUE /\ call[t].probe.stage # "none"
    BY <1>0, <1>4 DEF AwaitConfirmation, TimersRun, TimerRuns, Watching, Tab
  <2>6. TimerRuns(tab'[t], call'[t].probe, clock) BY <2>1, <2>2, <2>3, <2>5 DEF TimerRuns
  <2>7. ~Leaves(t) BY <1>0, <2>1, <2>2 DEF Leaves, Watching
  <2> HIDE DEF r
  <2> QED BY <1>0, <1>2, <2>1, <2>2, <2>3, <2>4, <2>6, <2>7, OneTabMoves
<1>5. CASE Renew(t)
  <2> DEFINE r == [tab[t] EXCEPT !.renewAt = clock, !.due = FALSE]
  <2>1. r \in Tab /\ r.page = tab[t].page /\ r.expires = tab[t].expires /\ r.expiring = tab[t].expiring
    BY <1>0 DEF Tab
  <2>2. /\ tab' \in [Tabs -> Tab] /\ tab'[t] = r /\ \A o \in Tabs : o # t => tab'[o] = tab[o]
    BY <1>0, <1>5, <2>1 DEF Renew
  <2>3. \A o \in Tabs : call'[o].probe = call[o].probe BY <1>5 DEF Renew, Refetch, CallsOK
  <2>4. Sourced(inbox') BY <1>1, <1>5 DEF Renew, Refetch
  <2>5. tab[t].expires > clock BY <1>0, <1>5 DEF Renew, Renewable, MsLeft, Tab
  <2>6. TimerRuns(tab'[t], call'[t].probe, clock)
    BY <1>0, <2>1, <2>2, <2>3, <2>5 DEF TimerRuns, TimersRun
  <2>7. ~Leaves(t) BY <1>0, <2>1, <2>2 DEF Leaves, Watching
  <2> HIDE DEF r
  <2> QED BY <1>0, <1>2, <2>1, <2>2, <2>3, <2>4, <2>6, <2>7, OneTabMoves
<1>6. CASE Warn(t)
  <2>1. PICK w \in BOOLEAN : tab' = [tab EXCEPT ![t].due = FALSE, ![t].warning = w]
    <3> DEFINE v == IF Renewable(t) THEN tab[t].warning
                    ELSE IF MsLeft(t) <= WarnBefore THEN tab[t].warning \/ ~tab[t].dismissed ELSE FALSE
    <3>1. v \in BOOLEAN BY <1>0 DEF Tab
    <3>2. tab' = [tab EXCEPT ![t].due = FALSE, ![t].warning = v] BY <1>0, <1>6 DEF Warn
    <3> HIDE DEF v
    <3> QED BY <3>1, <3>2
  <2> DEFINE r == [tab[t] EXCEPT !.due = FALSE, !.warning = w]
  <2>2. r \in Tab /\ r.page = tab[t].page /\ r.expires = tab[t].expires /\ r.expiring = tab[t].expiring
    BY <1>0, <2>1 DEF Tab
  <2>3. /\ tab' \in [Tabs -> Tab] /\ tab'[t] = r /\ \A o \in Tabs : o # t => tab'[o] = tab[o]
    BY <1>0, <2>1, <2>2
  <2>4. call' = call BY <1>6 DEF Warn
  <2>5. Sourced(inbox') BY <1>1, <1>6 DEF Warn
  <2>6. tab[t].expires > clock BY <1>0, <1>6 DEF Warn, MsLeft, Tab
  <2>7. TimerRuns(tab'[t], call'[t].probe, clock)
    BY <1>0, <2>2, <2>3, <2>4, <2>6 DEF TimerRuns, TimersRun
  <2>8. ~Leaves(t) BY <1>0, <2>2, <2>3 DEF Leaves, Watching
  <2> HIDE DEF r
  <2> QED BY <1>0, <1>2, <2>2, <2>3, <2>4, <2>5, <2>7, <2>8, OneTabMoves
<1> QED BY <1>3, <1>4, <1>5, <1>6 DEF Evaluate

(* A tab that takes an answer, or starts over without a session.             *)
LEMMA SignedInMoves ==
    ASSUME IInv, BrowserTyped, TimersRun, clock' = clock, mishaps' \in Nat, Sourced(inbox'), NEW t \in Tabs,
           NEW s \in Cookies, NEW e \in Nat, NEW capped \in BOOLEAN, Claim(e) \/ Earned(e),
           tab' = [tab EXCEPT ![t] = SignedIn(tab[t], s, e, capped)],
           \A o \in Tabs : o # t => call'[o].probe = call[o].probe
    PROVE  TabsMove
<1>1. PICK q : q = SignedIn(tab[t], s, e, capped) OBVIOUS
<1>2. tab[t] \in Tab BY DEF BrowserTyped
<1>3. /\ q \in Tab /\ q.data = "in" /\ q.expires = e /\ ~q.expiring
      /\ q.page = GuestPage(tab[t]) /\ (q.page = "app" => q.due)
  BY <1>1, <1>2, TabTypes
<1>4. tab' \in [Tabs -> Tab] /\ tab'[t] = q /\ \A o \in Tabs : o # t => tab'[o] = tab[o]
  BY <1>1, <1>3 DEF BrowserTyped
<1>5. TimerRuns(tab'[t], call'[t].probe, clock) BY <1>3, <1>4 DEF TimerRuns
<1>6. ~Leaves(t) BY <1>3, <1>4 DEF Leaves, Watching, GuestPage
<1> QED BY <1>3, <1>4, <1>5, <1>6, OneTabMoves

LEMMA SignedOutMoves ==
    ASSUME IInv, BrowserTyped, TimersRun, clock' = clock, mishaps' \in Nat, Sourced(inbox'), NEW t \in Tabs,
           NEW r \in Tab, r.data # "in", tab' = [tab EXCEPT ![t] = r], Leaves(t) => Reason(t),
           \A o \in Tabs : o # t => call'[o].probe = call[o].probe
    PROVE  TabsMove
<1>1. tab' \in [Tabs -> Tab] /\ tab'[t] = r /\ \A o \in Tabs : o # t => tab'[o] = tab[o]
  BY DEF BrowserTyped
<1>2. TimerRuns(tab'[t], call'[t].probe, clock) BY <1>1 DEF TimerRuns
<1> QED BY <1>1, <1>2, OneTabMoves

LEMMA ReadMoves ==
    ASSUME IInv, BrowserTyped, TimersRun, CallsOK, CallsHonest, NEW t \in Tabs, ReceiveRead(t)
    PROVE  TabsMove
<1> DEFINE c == call[t].read
           e == clock + c.left
<1>1. /\ clock' = clock /\ mishaps' \in Nat /\ c \in Call /\ e \in Nat /\ c.of \in Cookies /\ c.capped \in BOOLEAN
      /\ c.outcome \in Outcomes /\ c.stage = "answered"
  BY DEF ReceiveRead, sessionVars, BrowserTyped, CallsOK, Call, IInv
<1>2. \A o \in Tabs : call'[o].probe = call[o].probe BY DEF ReceiveRead, CallsOK
<1>3. CASE c.outcome = "ok"
  <2>1. Earned(e) BY <1>1, <1>3 DEF Earned
  <2>2. Sourced(inbox')
    <3>1. CASE c.renewing /\ c.outcome = "ok"
      <4>1. inbox' = Published(t, [type |-> "session-renewed", expires |-> e]) BY <3>1 DEF ReceiveRead
      <4>2. [type |-> "session-renewed", expires |-> e] \in Messages BY <1>1 DEF Messages
      <4> QED BY <2>1, <4>1, <4>2, Sources
    <3>2. CASE ~(c.renewing /\ c.outcome = "ok") BY <3>2, Sources DEF ReceiveRead
    <3> QED BY <3>1, <3>2
  <2>3. tab' = [tab EXCEPT ![t] = SignedIn(tab[t], c.of, e, c.capped)]
    BY <1>3 DEF ReceiveRead, BrowserTyped
  <2> HIDE DEF c, e
  <2> QED BY <1>1, <1>2, <2>1, <2>2, <2>3, SignedInMoves
<1>4. CASE c.outcome # "ok"
  <2>1. Sourced(inbox') BY <1>4, Sources DEF ReceiveRead
  <2>2. tab[t] \in Tab BY DEF BrowserTyped
  <2>3. PICK r : r = SignedOut(tab[t], c.outcome) OBVIOUS
  <2>4. r \in Tab /\ r.data = "out" BY <1>1, <2>2, <2>3, TabTypes
  <2>5. tab' = [tab EXCEPT ![t] = r] BY <1>4, <2>3 DEF ReceiveRead, BrowserTyped
  <2>6. Outcome(c.of) # "ok" \/ c.of \in stray BY <1>1, <1>4 DEF CallsHonest, Answered
  <2>7. Reason(t) BY <1>1, <2>6 DEF Reason
  <2> QED BY <1>1, <1>2, <2>1, <2>4, <2>5, <2>7, SignedOutMoves
<1> QED BY <1>3, <1>4

(* The end of the question at the countdown's end, answered or not.          *)
LEMMA ProbeMoves ==
    ASSUME IInv, BrowserTyped, TimersRun, CallsOK, CallsHonest, mishaps' \in Nat,
           NEW t \in Tabs, NEW c \in Call, Confirm(t, c),
           \/ c = call[t].probe /\ c.stage = "answered"
           \/ c = NoCall /\ mishaps' > mishaps
    PROVE  TabsMove
<1> DEFINE e == clock + c.left
           o == IF c.outcome = "not_signed_in" THEN c.outcome ELSE "session_expired"
<1>1. clock' = clock /\ e \in Nat /\ c.of \in Cookies /\ c.capped \in BOOLEAN /\ o \in Outcomes
  BY DEF Confirm, sessionVars, Call, IInv, Outcomes
<1>2. \A u \in Tabs : u # t => call'[u].probe = call[u].probe BY DEF Confirm, CallsOK
<1>3. CASE c.outcome = "ok" /\ c.left > MinUseful
  <2>1. c = call[t].probe /\ c.stage = "answered" BY <1>3 DEF NoCall
  <2>2. Earned(e) BY <1>3, <2>1 DEF Earned
  <2>3. Sourced(inbox') BY <1>3, Sources DEF Confirm
  <2>4. tab' = [tab EXCEPT ![t] = SignedIn(tab[t], c.of, e, c.capped)]
    BY <1>3 DEF Confirm, BrowserTyped
  <2> HIDE DEF e, o
  <2> QED BY <1>1, <1>2, <2>2, <2>3, <2>4, SignedInMoves
<1>4. CASE ~(c.outcome = "ok" /\ c.left > MinUseful)
  <2>1. [type |-> "session-ended"] \in Messages BY DEF Messages
  <2>2. inbox' = Published(t, [type |-> "session-ended"]) BY <1>4 DEF Confirm
  <2>3. Sourced(inbox') BY <2>1, <2>2, Sources
  <2>4. tab[t] \in Tab BY DEF BrowserTyped
  <2>5. PICK r : r = SignedOut(tab[t], o) OBVIOUS
  <2>6. r \in Tab /\ r.data = "out" BY <1>1, <2>4, <2>5, TabTypes
  <2>7. tab' = [tab EXCEPT ![t] = r] BY <1>4, <2>5 DEF Confirm, BrowserTyped
  <2>8. Reason(t)
    <3>1. CASE c = NoCall /\ mishaps' > mishaps BY <3>1 DEF Reason
    <3>2. CASE c = call[t].probe /\ c.stage = "answered" /\ c.outcome = "ok" BY <3>2 DEF Reason
    <3>3. CASE c = call[t].probe /\ c.stage = "answered" /\ c.outcome # "ok"
      <4>1. Outcome(c.of) # "ok" \/ c.of \in stray BY <3>3 DEF CallsHonest, Answered
      <4> QED BY <3>3, <4>1 DEF Reason
    <3> QED BY <3>1, <3>2, <3>3
  <2> HIDE DEF e, o
  <2> QED BY <1>1, <1>2, <2>3, <2>6, <2>7, <2>8, SignedOutMoves
<1> QED BY <1>3, <1>4

LEMMA DeliverMoves ==
    ASSUME IInv, BrowserTyped, TimersRun, CallsOK, NEW t \in Tabs, Deliver(t)
    PROVE  TabsMove
<1> DEFINE m == Head(inbox[t])
<1>1. /\ clock' = clock /\ mishaps' \in Nat /\ inbox[t] # <<>> /\ inbox[t] \in Seq(Messages) /\ tab[t] \in Tab
      /\ inbox \in [Tabs -> Seq(Messages)]
  BY DEF Deliver, sessionVars, BrowserTyped
<1>2. m \in Messages /\ (m.type = "session-renewed" => Tells(inbox[t], m.expires)) BY <1>1, TailTells
<1>3. CASE m.type = "session-renewed"
  <2>1. m.expires \in Nat /\ Claim(m.expires) BY <1>2, <1>3 DEF Messages, Claim
  <2>2. inbox' = [inbox EXCEPT ![t] = Tail(inbox[t])] /\ call' = call BY <1>1, <1>3 DEF Deliver
  <2>3. Sourced(inbox') BY <1>1, <2>2, Sources, SourcedCut
  <2>4. CASE tab[t].data # "in" \/ tab[t].expires = m.expires
    <3>1. tab' = tab BY <1>1, <1>3, <2>4 DEF Deliver, BrowserTyped
    <3>2. tab'[t].data = "in" => Claim(tab'[t].expires) BY <3>1 DEF Claim
    <3>3. TimerRuns(tab'[t], call'[t].probe, clock) BY <2>2, <3>1 DEF TimersRun
    <3>4. ~Leaves(t) BY <3>1 DEF Leaves, Watching
    <3>5. tab' \in [Tabs -> Tab] BY <3>1 DEF BrowserTyped
    <3> QED BY <1>1, <2>2, <2>3, <3>1, <3>2, <3>3, <3>4, <3>5, OneTabMoves
  <2>5. CASE ~(tab[t].data # "in" \/ tab[t].expires = m.expires)
    <3>1. tab' = [tab EXCEPT ![t] = SignedIn(tab[t], tab[t].of, m.expires, tab[t].capped)]
      BY <1>1, <1>3, <2>5 DEF Deliver, BrowserTyped
    <3>2. tab[t].of \in Cookies /\ tab[t].capped \in BOOLEAN BY <1>1 DEF Tab
    <3> HIDE DEF m
    <3> QED BY <1>1, <2>1, <2>2, <2>3, <3>1, <3>2, SignedInMoves
  <2> QED BY <2>4, <2>5
<1>4. CASE m.type # "session-renewed"
  <2>1. /\ tab' = tab /\ call' = [call EXCEPT ![t].read = Sent(cookie, FALSE)]
        /\ inbox' = [RenewalOver(t) EXCEPT ![t] = Tail(inbox[t])]
    BY <1>4, Sources DEF Deliver, Sourced
  <2>2. Sourced(inbox') BY <1>1, <2>1, Sources, SourcedCut
  <2>3. \A u \in Tabs : call'[u].probe = call[u].probe BY <2>1 DEF CallsOK
  <2>4. tab'[t].data = "in" => Claim(tab'[t].expires) BY <2>1 DEF Claim
  <2>5. TimerRuns(tab'[t], call'[t].probe, clock) BY <2>1, <2>3 DEF TimersRun
  <2>6. ~Leaves(t) BY <2>1 DEF Leaves, Watching
  <2>7. tab' \in [Tabs -> Tab] BY <2>1 DEF BrowserTyped
  <2> QED BY <1>1, <2>1, <2>2, <2>3, <2>4, <2>5, <2>6, <2>7, OneTabMoves
<1> QED BY <1>3, <1>4

(* A tab whose countdown and timer stay as they are.                         *)
LEMMA SameMoves ==
    ASSUME IInv, BrowserTyped, TimersRun, clock' = clock, mishaps' \in Nat, Sourced(inbox'), NEW t \in Tabs,
           NEW r \in Tab, tab' = [tab EXCEPT ![t] = r],
           r.page = tab[t].page, r.data = tab[t].data, r.expires = tab[t].expires,
           r.expiring = tab[t].expiring, tab[t].due => r.due,
           \A o \in Tabs : call'[o].probe = call[o].probe
    PROVE  TabsMove
<1>1. tab' \in [Tabs -> Tab] /\ tab'[t] = r /\ \A o \in Tabs : o # t => tab'[o] = tab[o]
  BY DEF BrowserTyped
<1>2. tab'[t].data = "in" => Claim(tab'[t].expires) BY <1>1 DEF Claim
<1>3. TimerRuns(tab'[t], call'[t].probe, clock) BY <1>1 DEF TimersRun, TimerRuns
<1>4. ~Leaves(t) BY <1>1 DEF Leaves, Watching
<1> QED BY <1>1, <1>2, <1>3, <1>4, OneTabMoves

LEMMA LoadMoves ==
    ASSUME IInv, BrowserTyped, TimersRun, CallsOK, NEW t \in Tabs, NEW s, Load(t, s), clock' = clock
    PROVE  TabsMove
<1>1. PICK r : r = [Away EXCEPT !.page = "app"] OBVIOUS
<1>2. r \in Tab /\ r.data = "pending" /\ r.page = "app"
  <2>1. Away \in Tab /\ Away.data = "pending" BY TabTypes
  <2> QED BY <1>1, <2>1 DEF Tab
<1>3. tab' = [tab EXCEPT ![t] = r] /\ tab'[t] = r BY <1>1 DEF Load, BrowserTyped
<1>4. ~Leaves(t) BY <1>2, <1>3 DEF Leaves
<1>5. inbox' = [inbox EXCEPT ![t] = <<>>] /\ mishaps' \in Nat BY DEF Load, BrowserTyped
<1>6. Sourced(inbox') BY <1>5, Sources, SourcedCut
<1>7. \A o \in Tabs : o # t => call'[o].probe = call[o].probe BY DEF Load, CallsOK
<1> QED BY <1>2, <1>3, <1>4, <1>5, <1>6, <1>7, SignedOutMoves

LEMMA PersonMoves ==
    ASSUME IInv, BrowserTyped, TimersRun, CallsOK, NEW t \in Tabs, Person(t)
    PROVE  TabsMove
<1>0. /\ mishaps \in Nat /\ clock \in Int /\ tab[t] \in Tab /\ tab \in [Tabs -> Tab]
      /\ Sourced(inbox) /\ Sourced(RenewalOver(t))
  BY Sources DEF BrowserTyped, IInv
<1>1. CASE OpenTab(t) BY <1>1, LoadMoves DEF OpenTab, sessionVars
<1>2. ASSUME NEW s \in Sessions, Arrive(t, s) PROVE TabsMove
  BY <1>2, LoadMoves DEF Arrive, CreateSession
<1>10. ASSUME NEW s \in Sessions, SignIn(t, s) PROVE TabsMove
  <2>1. /\ clock' = clock /\ mishaps' \in Nat /\ tab' = [tab EXCEPT ![t] = Away]
        /\ inbox' = [inbox EXCEPT ![t] = <<>>] /\ tab[t].page # "app"
        /\ \A o \in Tabs : o # t => call'[o].probe = call[o].probe
    BY <1>0, <1>10 DEF SignIn, Admit, CallsOK
  <2>2. Sourced(inbox') BY <1>0, <2>1, SourcedCut
  <2>3. Away \in Tab /\ Away.data = "pending" BY TabTypes
  <2>4. ~Leaves(t) BY <2>1 DEF Leaves, Watching
  <2> QED BY <2>1, <2>2, <2>3, <2>4, SignedOutMoves
<1>3. CASE Retry(t)
  <2>1. /\ clock' = clock /\ mishaps' \in Nat /\ tab' = [tab EXCEPT ![t] = tab[t]] /\ Sourced(inbox')
        /\ \A o \in Tabs : call'[o].probe = call[o].probe
    BY <1>0, <1>3 DEF Retry, Refetch, sessionVars, CallsOK
  <2> QED BY <1>0, <2>1, SameMoves
<1>4. CASE Interact(t)
  <2> DEFINE r == [tab[t] EXCEPT !.act = clock]
  <2>1. /\ r \in Tab /\ r.page = tab[t].page /\ r.data = tab[t].data /\ r.expires = tab[t].expires
        /\ r.expiring = tab[t].expiring /\ (tab[t].due => r.due)
    BY <1>0 DEF Tab
  <2>2. tab' = [tab EXCEPT ![t] = r] BY <1>0, <1>4 DEF Interact
  <2>3. clock' = clock /\ mishaps' \in Nat /\ Sourced(inbox') /\ call' = call
    BY <1>0, <1>4 DEF Interact, sessionVars
  <2> HIDE DEF r
  <2> QED BY <2>1, <2>2, <2>3, SameMoves
<1>5. CASE ComeBack(t)
  <2> DEFINE r == [tab[t] EXCEPT !.due = TRUE]
  <2>1. /\ r \in Tab /\ r.page = tab[t].page /\ r.data = tab[t].data /\ r.expires = tab[t].expires
        /\ r.expiring = tab[t].expiring /\ (tab[t].due => r.due)
    BY <1>0 DEF Tab
  <2>2. tab' = [tab EXCEPT ![t] = r] BY <1>0, <1>5 DEF ComeBack
  <2>3. /\ clock' = clock /\ mishaps' \in Nat /\ Sourced(inbox')
        /\ \A o \in Tabs : call'[o].probe = call[o].probe
    BY <1>0, <1>5 DEF ComeBack, sessionVars, CallsOK
  <2> HIDE DEF r
  <2> QED BY <2>1, <2>2, <2>3, SameMoves
<1>6. CASE PageRequest(t)
  BY <1>0, <1>6, QuietMoves DEF PageRequest, Authenticate
<1>7. CASE StaySignedIn(t)
  <2> DEFINE r == [tab[t] EXCEPT !.act = clock, !.dismissed = FALSE, !.renewAt = clock]
  <2>1. /\ r \in Tab /\ r.page = tab[t].page /\ r.data = tab[t].data /\ r.expires = tab[t].expires
        /\ r.expiring = tab[t].expiring /\ (tab[t].due => r.due)
    BY <1>0 DEF Tab
  <2>2. tab' = [tab EXCEPT ![t] = r] BY <1>0, <1>7 DEF StaySignedIn
  <2>3. /\ clock' = clock /\ mishaps' \in Nat /\ Sourced(inbox')
        /\ \A o \in Tabs : call'[o].probe = call[o].probe
    BY <1>0, <1>7 DEF StaySignedIn, Refetch, sessionVars, CallsOK
  <2> HIDE DEF r
  <2> QED BY <2>1, <2>2, <2>3, SameMoves
<1>8. CASE DismissWarning(t)
  <2> DEFINE r == [tab[t] EXCEPT !.dismissed = TRUE, !.warning = FALSE, !.act = clock]
  <2>1. /\ r \in Tab /\ r.page = tab[t].page /\ r.data = tab[t].data /\ r.expires = tab[t].expires
        /\ r.expiring = tab[t].expiring /\ (tab[t].due => r.due)
    BY <1>0 DEF Tab
  <2>2. tab' = [tab EXCEPT ![t] = r] BY <1>0, <1>8 DEF DismissWarning
  <2>3. clock' = clock /\ mishaps' \in Nat /\ Sourced(inbox') /\ call' = call
    BY <1>0, <1>8 DEF DismissWarning, sessionVars
  <2> HIDE DEF r
  <2> QED BY <2>1, <2>2, <2>3, SameMoves
<1>9. CASE SignOut(t)
  <2>1. [type |-> "signed-out"] \in Messages /\ [type |-> "signed-out"].type # "session-renewed" BY DEF Messages
  <2>2. Sourced(Published(t, [type |-> "signed-out"])) BY <2>1, Sources
  <2>3. /\ clock' = clock /\ mishaps' \in Nat /\ tab' = [tab EXCEPT ![t] = Away]
        /\ inbox' = [Published(t, [type |-> "signed-out"]) EXCEPT ![t] = <<>>]
        /\ \A o \in Tabs : o # t => call'[o].probe = call[o].probe
    BY <1>0, <1>9 DEF SignOut, sessionVars, CallsOK
  <2>4. Sourced(inbox') BY <2>2, <2>3, SourcedCut
  <2>5. Away \in Tab /\ Away.data = "pending" /\ Away.page = "away" BY TabTypes
  <2>6. ~Leaves(t) BY <1>0, <2>3, <2>5 DEF Leaves
  <2> QED BY <2>3, <2>4, <2>5, <2>6, SignedOutMoves
<1> QED BY <1>1, <1>2, <1>3, <1>4, <1>5, <1>6, <1>7, <1>8, <1>9, <1>10 DEF Person

LEMMA PassMoves ==
    ASSUME IInv, BrowserTyped, TimersRun, CallsOK, Pass
    PROVE  TabsMove
<1>1. \A t \in Tabs : /\ tab'[t] \in Tab /\ tab'[t].page = tab[t].page /\ tab'[t].data = tab[t].data
                      /\ tab'[t].expires = tab[t].expires /\ tab'[t].expiring = tab[t].expiring
                      /\ Watching(t) => tab'[t].due
  <2> SUFFICES ASSUME NEW t \in Tabs
               PROVE  /\ tab'[t] \in Tab /\ tab'[t].page = tab[t].page /\ tab'[t].data = tab[t].data
                      /\ tab'[t].expires = tab[t].expires /\ tab'[t].expiring = tab[t].expiring
                      /\ Watching(t) => tab'[t].due
    OBVIOUS
  <2>1. tab[t] \in Tab /\ LongAgo \in Int BY WebAssumption DEF BrowserTyped, LongAgo
  <2> DEFINE a == Recent(tab[t].act, Later(RenewWithin, ActivityWindow + Latency))
             n == Recent(tab[t].renewAt, Cooldown)
             r(b) == [tab[t] EXCEPT !.due = b, !.act = a, !.renewAt = n]
  <2>2. a \in Int /\ n \in Int BY <2>1 DEF Recent, Tab
  <2> HIDE DEF a, n
  <2>3. \A b \in BOOLEAN : /\ r(b) \in Tab /\ r(b).page = tab[t].page /\ r(b).data = tab[t].data
                           /\ r(b).expires = tab[t].expires /\ r(b).expiring = tab[t].expiring /\ r(b).due = b
    <3> TAKE b \in BOOLEAN
    <3> QED BY <2>1, <2>2 DEF Tab
  <2>4. tab'[t] = r(Watching(t)) BY DEF Pass, a, n
  <2>5. Watching(t) \in BOOLEAN BY DEF Watching
  <2> HIDE DEF r
  <2>6. CASE Watching(t)
    <3>1. tab'[t] = r(TRUE) BY <2>4, <2>6
    <3> QED BY <2>3, <3>1
  <2>7. CASE ~Watching(t)
    <3>0. Watching(t) = FALSE BY <2>5, <2>7
    <3>1. tab'[t] = r(FALSE) BY <2>4, <3>0, Zenon
    <3> QED BY <2>3, <2>7, <3>1
  <2> QED BY <2>6, <2>7
<1>2. /\ tab' \in [Tabs -> Tab] /\ inbox' = inbox /\ call' = call /\ mishaps' = mishaps
  BY <1>1 DEF Pass
<1>3. BrowserTyped' BY <1>2 DEF BrowserTyped
<1>4. ASSUME NEW e \in Nat, Claim(e)' PROVE Claim(e)
  BY <1>1, <1>2, <1>4 DEF Claim, Tells
<1>5. TimersRun' BY <1>1, <1>2 DEF TimersRun, TimerRuns, Watching
<1>6. ASSUME NEW t \in Tabs PROVE ~Leaves(t) BY <1>1 DEF Leaves, Watching
<1> QED BY <1>3, <1>4, <1>5, <1>6 DEF TabsMove

LEMMA AllMoves ==
    ASSUME IInv, BrowserTyped, TimersRun, CallsOK, CallsHonest, [Next]_vars
    PROVE  TabsMove
<1>0. /\ mishaps \in Nat /\ tab \in [Tabs -> Tab] /\ Sourced(inbox)
      /\ \A t \in Tabs : Sourced(RenewalOver(t)) /\ tab[t] \in Tab
      /\ \A t \in Tabs : call[t].read \in Call /\ call[t].probe \in Call
  BY Sources DEF BrowserTyped, CallsOK
<1>1. ASSUME NEW t \in Tabs, ServeRead(t) PROVE TabsMove
  <2>1. /\ clock' = clock /\ mishaps' \in Nat /\ UNCHANGED <<tab, inbox>>
        /\ \A o \in Tabs : call'[o].probe = call[o].probe
    BY <1>0, <1>1 DEF ServeRead, Serve, Authenticate, CallsOK
  <2> QED BY <2>1, QuietMoves
<1>2. ASSUME NEW t \in Tabs, ServeProbe(t) PROVE TabsMove
  <2>1. clock' = clock /\ mishaps' \in Nat /\ UNCHANGED <<tab, inbox>>
    BY <1>0, <1>2 DEF ServeProbe, Serve, Authenticate
  <2>2. Answer(call[t].probe).stage = "answered" BY <1>0 DEF Answer, Call
  <2>3. call'[t].probe = Answer(call[t].probe) /\ \A o \in Tabs : o # t => call'[o].probe = call[o].probe
    BY <1>2 DEF ServeProbe, CallsOK
  <2> QED BY <2>1, <2>2, <2>3, QuietMoves
<1>3. ASSUME NEW t \in Tabs, ReceiveProbe(t) PROVE TabsMove
  BY <1>0, <1>3, ProbeMoves DEF ReceiveProbe
<1>4. ASSUME NEW t \in Tabs, FailProbe(t) PROVE TabsMove
  <2>1. NoCall \in Call BY CallTypes
  <2> QED BY <1>0, <1>4, <2>1, ProbeMoves DEF FailProbe, Mishap
<1>5. ASSUME NEW t \in Tabs, FailRead(t) PROVE TabsMove
  <2>1. /\ clock' = clock /\ mishaps' \in Nat /\ tab' = [tab EXCEPT ![t] = tab[t]] /\ Sourced(inbox')
        /\ \A o \in Tabs : call'[o].probe = call[o].probe
    BY <1>0, <1>5 DEF FailRead, Mishap, sessionVars, CallsOK
  <2> QED BY <1>0, <2>1, SameMoves
<1>6. CASE ServeLogout \/ Elsewhere \/ UNCHANGED vars
  <2>1. clock' = clock /\ mishaps' \in Nat /\ UNCHANGED <<tab, inbox, call>>
    BY <1>0, <1>6 DEF ServeLogout, SignOutEverywhere, Elsewhere, Mishap, Deactivate, Reactivate, PurgeExpired,
       vars, sessionVars
  <2> QED BY <2>1, QuietMoves
<1>7. ASSUME NEW t \in Tabs, TabStep(t) PROVE TabsMove
  BY <1>1, <1>2, <1>3, <1>7, EvaluateMoves, ReadMoves, DeliverMoves DEF TabStep
<1> QED BY <1>4, <1>5, <1>6, <1>7, PersonMoves, PassMoves DEF Next

-----------------------------------------------------------------------------
(* A claim that an answer on hand stands for is within what the server keeps *)
(* and the time the answer has been under way.                               *)
LEMMA EarnedIsPromised ==
    ASSUME IInv, CallsOK, CallsHonest, NEW e \in Nat, Earned(e)
    PROVE  Promise(e)
<1>1. PICK t \in Tabs : \E c \in {call[t].read, call[t].probe} :
          c.stage = "answered" /\ c.outcome = "ok" /\ e = clock + c.left
  BY DEF Earned
<1>2. PICK c \in Call : /\ Asked(c) /\ Answered(c)
                        /\ c.stage = "answered" /\ c.outcome = "ok" /\ e = clock + c.left
  BY <1>1 DEF CallsOK, CallsHonest
<1>3. /\ clock \in Nat /\ c.at \in Nat /\ c.left \in Nat /\ Latency \in Nat /\ Reach \in Nat
      /\ cookie \in Sessions => Deadline(cookie) \in Nat
  BY SessionsAssumption, WebAssumption DEF IInv, Call, Reach, Sooner, Deadline, IdleDeadline
<1>4. c.left <= Reach /\ clock <= c.at + Latency
  BY <1>2 DEF Asked, Answered
<1>5. cookie \in Sessions => c.at + c.left <= Deadline(cookie) BY <1>2 DEF Answered
<1> QED BY <1>2, <1>3, <1>4, <1>5 DEF Promise

LEMMA PromiseStays ==
    ASSUME IInv, IInv', RowsBounded, CookieNewest, CallsOK, CallsOK', [Next]_vars, NEW e \in Nat, Promise(e)
    PROVE  Promise(e)'
<1>1. clock' >= clock BY BrowserSteps, RowsMove
<1>2. cookie' \in Sessions => Renewed \/ Started BY CookieRow
<1>3. /\ clock \in Nat /\ clock' \in Nat /\ Latency \in Nat /\ Reach \in Nat
      /\ cookie \in Sessions => Deadline(cookie) \in Nat
      /\ cookie' \in Sessions => Deadline(cookie)' \in Nat
  BY SessionsAssumption, WebAssumption DEF IInv, Reach, Sooner, Deadline, IdleDeadline
<1>4. e <= clock' + Reach
  <2>1. e <= clock + Reach BY DEF Promise
  <2>2. \A a, b, c \in Nat : b >= a /\ e <= a + c => e <= b + c OBVIOUS
  <2> QED BY <1>1, <1>3, <2>1, <2>2
<1>5. ASSUME cookie' \in Sessions PROVE e <= Deadline(cookie)' + Latency
  <2>1. CASE Renewed BY <1>3, <1>5, <2>1 DEF Renewed, Promise
  <2>2. CASE Started BY <1>3, <1>5, <2>2 DEF Started, Promise
  <2> QED BY <1>2, <1>5, <2>1, <2>2
<1> QED BY <1>4, <1>5 DEF Promise, Reach, Sooner

LEMMA WInvInit == Init => IInv /\ CallsOK /\ WInv
<1> SUFFICES ASSUME Init PROVE IInv /\ CallsOK /\ WInv OBVIOUS
<1>1. IInv BY IInvInit DEF Init
<1>2. NoSession \in Cookies /\ NoCall \in Call /\ NoCall.stage = "none" BY <1>1, CallTypes DEF Cookies, NoCall
<1>3. CallsOK BY <1>2 DEF Init, CallsOK
<1>4. Away \in Tab /\ Away.page = "away" /\ Away.data = "pending" BY <1>1, TabTypes
<1>5. BrowserTyped BY <1>4 DEF Init, BrowserTyped
<1>6. RowsBounded
  <2>1. AbsoluteTTL \in Nat BY SessionsAssumption
  <2>2. clock = 0 /\ \A s \in Sessions : row[s].absolute = 0 /\ row[s].lastActive = 0 BY DEF Init, SessionsInit
  <2>3. \A a, c \in Nat : 0 <= c + a /\ 0 <= c OBVIOUS
  <2>4. clock \in Nat BY <1>1 DEF IInv
  <2> QED BY <2>1, <2>2, <2>3, <2>4 DEF RowsBounded
<1>7. CookieNewest BY SessionsAssumption DEF Init, CookieNewest
<1>8. CallsHonest BY <1>2 DEF Init, CallsHonest, Asked, Answered
<1>9. \A e \in Nat : ~Claim(e) BY <1>4 DEF Init, Claim, Tells
<1>10. TimersRun BY <1>4 DEF Init, TimersRun, TimerRuns
<1> QED BY <1>1, <1>3, <1>5, <1>6, <1>7, <1>8, <1>9, <1>10 DEF WInv, ClaimsHonest

LEMMA WInvNext == IInv /\ CallsOK /\ WInv /\ [Next]_vars => IInv' /\ CallsOK' /\ WInv'
<1> SUFFICES ASSUME IInv, CallsOK, WInv, [Next]_vars PROVE IInv' /\ CallsOK' /\ WInv' OBVIOUS
<1> USE DEF WInv
<1>1. [SessionsNext]_sessionVars BY BrowserSteps
<1>2. IInv' BY <1>1, IInvNext
<1>3. CallsOK' BY <1>2, CallsStep
<1>4. RowsBounded' BY <1>1, <1>2, RowsMove
<1>5. CookieNewest' BY <1>2, <1>3, CookieRow
<1>6. CallsHonest' BY <1>2, <1>3, CallsHonestStep
<1>7. TabsMove BY AllMoves
<1>8. ASSUME NEW e \in Nat, Claim(e)' PROVE Promise(e)'
  <2>1. Claim(e) \/ Earned(e) BY <1>7, <1>8 DEF TabsMove
  <2>2. Promise(e) BY <2>1, EarnedIsPromised DEF ClaimsHonest
  <2> QED BY <1>2, <1>3, <2>2, PromiseStays
<1> QED BY <1>2, <1>3, <1>4, <1>5, <1>6, <1>7, <1>8 DEF TabsMove, ClaimsHonest

LEMMA BrowserInvariance == Spec => [](IInv /\ CallsOK /\ WInv)
BY WInvInit, WInvNext, PTL DEF Spec

(* No tab believes in more time than the server keeps, but for the time an   *)
(* answer may take, however many tabs tell each other what they heard, in    *)
(* whatever order; and a countdown at its end is asked about.                *)
THEOREM CountdownTheorem == Spec => []CountdownHonest
<1>1. ASSUME IInv, CallsOK, WInv PROVE CountdownHonest
  <2> SUFFICES ASSUME NEW t \in Tabs, Watching(t)
               PROVE  /\ Outcome(cookie) = "ok" => tab[t].expires <= Deadline(cookie) + Latency
                      /\ tab[t].expires <= clock /\ ~tab[t].due =>
                             /\ tab[t].expiring /\ call[t].probe.stage # "none"
                             /\ clock <= call[t].probe.at + Latency
    BY DEF CountdownHonest
  <2>1. tab[t].expires \in Nat /\ clock \in Nat BY <1>1 DEF WInv, BrowserTyped, Tab, IInv
  <2>2. Promise(tab[t].expires) BY <1>1, <2>1 DEF WInv, ClaimsHonest, Claim, Watching
  <2>3. Outcome(cookie) = "ok" => cookie \in Sessions BY <1>1 DEF Outcome, CallsOK, Cookies
  <2>4. TimerRuns(tab[t], call[t].probe, clock) BY <1>1 DEF WInv, TimersRun
  <2>5. tab[t].expires <= clock /\ ~tab[t].due => tab[t].expiring /\ call[t].probe.stage # "none"
    BY <2>1, <2>4 DEF TimerRuns, Watching
  <2>6. call[t].probe.stage # "none" => clock <= call[t].probe.at + Latency
    BY <1>1 DEF WInv, CallsHonest, Asked
  <2> QED BY <2>2, <2>3, <2>5, <2>6 DEF Promise
<1> QED BY <1>1, BrowserInvariance, PTL

(* A tab leaves on an answer or on the lack of one, never on the word of     *)
(* another tab, whatever happened to the session between question and        *)
(* answer.                                                                   *)
THEOREM LeavingTheorem == Spec => LeavesForAReason
<1> DEFINE Justified == \A t \in Tabs : Leaves(t) => Reason(t)
<1>1. IInv /\ CallsOK /\ WInv /\ [Next]_vars => [Justified]_vars
  BY AllMoves DEF WInv, TabsMove
<1>2. Spec => [][Justified]_vars
  BY <1>1, BrowserInvariance, PTL DEF Spec
<1> QED BY <1>2 DEF LeavesForAReason, Leaves, Reason
-----------------------------------------------------------------------------
(* Who extends a session.  As long as nothing fails, a request that touches  *)
(* comes from a tab somebody is at, or its session has no use for the touch: *)
(* it is over, or about to be, or was touched so lately that the stamp stays. *)
Since(s, at) == at + AbsoluteTTL <= row[s].absolute
Spent(s, at) == s \in Sessions =>
    \/ Outcome(s) # "ok" \/ Deadline(s) <= clock + MinUseful
    \/ at <= row[s].lastActive + Latency

(* Rows of a user who stays active: a sign-out is the only end before time.  *)
CalmRows ==
    /\ status = "active" /\ stray = {}
    /\ \A s \in Sessions : row[s].place \in {"stored", "purged"} =>
           /\ row[s].absolute <= row[s].lastActive + AbsoluteTTL
           /\ row[s].place = "purged" => row[s].absolute < clock
CookieWorks ==
    /\ logout # NoSession => logout = cookie
    /\ cookie \in Sessions => ~row[cookie].revoked
    /\ cookie = NoSession => \A s \in Sessions : Outcome(s) # "ok"

(* Two requests about different sessions: one session began after the other  *)
(* request was sent, if they are not both over.                              *)
OutOfDate(c) == c.stage # "none" /\ cookie \in Sessions /\ c.of # cookie => Since(cookie, c.at)
Apart(r, p) == r.stage # "none" /\ p.stage # "none" /\ r.of \in Sessions /\ r.of # p.of =>
    \/ Outcome(r.of) # "ok" \/ Since(r.of, p.at)
    \/ p.of \in Sessions /\ Since(p.of, r.at)
EndedTogether(p) == p.stage # "none" /\ p.of \in Sessions /\ row[p.of].revoked =>
    \A s \in Sessions : row[s].place = "stored" /\ ~row[s].revoked => Since(s, p.at)
(* What a probe has heard is the least that its session had left.            *)
Heard(p) == p.stage = "answered" /\ p.outcome = "ok" =>
    /\ p.of \in Sessions /\ row[p.of].absolute + Reach <= clock + p.left + AbsoluteTTL
    /\ p.left <= MinUseful => Deadline(p.of) <= clock + MinUseful \/ p.at <= row[p.of].lastActive
CallsInOrder == \A t \in Tabs :
    /\ OutOfDate(call[t].read) /\ OutOfDate(call[t].probe)
    /\ Apart(call[t].read, call[t].probe) /\ EndedTogether(call[t].probe) /\ Heard(call[t].probe)

(* Why a read may touch.                                                     *)
Attended(r, c) == r.page = "app" /\
    (r.data = "pending" \/ c.shown \/ c.at <= r.act + ActivityWindow)
Harmless(c) == Spent(c.of, c.at) \/ (logout # NoSession /\ logout = c.of)
ReadsJustified == \A t \in Tabs : call[t].read.stage = "sent" =>
    Harmless(call[t].read) \/ Attended(tab[t], call[t].read)
AsksAgain(q) == \E i \in DOMAIN q : q[i].type # "session-renewed"
NewsHarmless == (\E t \in Tabs : AsksAgain(inbox[t])) => logout # NoSession \/ Spent(cookie, clock)

Calm == CalmRows /\ CookieWorks /\ CallsInOrder /\ ReadsJustified /\ NewsHarmless
XInv == mishaps = 0 => Calm

(* What a step may do to one row.                                            *)
KeptRow(s) == row[s].place \in {"stored", "purged"} =>
    /\ row'[s].place \in {"stored", "purged"} /\ row'[s].absolute = row[s].absolute
    /\ \/ row'[s].lastActive = row[s].lastActive
       \/ row'[s].lastActive = clock' /\ row'[s].lastActive >= row[s].lastActive
    /\ row'[s].place = "stored" => row[s].place = "stored"
    /\ row'[s].place = "purged" => row[s].place = "purged" \/ row[s].absolute < clock
NewRow(s) == row[s].place \in {"unused", "admitted"} /\ row'[s].place \in {"stored", "purged"} =>
    /\ row'[s].place = "stored" /\ ~row'[s].revoked
    /\ row'[s].lastActive = clock' /\ row'[s].absolute = clock' + AbsoluteTTL

LEMMA EachRow ==
    ASSUME IInv, RowsBounded, [SessionsNext]_sessionVars
    PROVE  clock' >= clock /\ \A s \in Sessions : KeptRow(s) /\ NewRow(s)
<1> DEFINE Goal == clock' >= clock /\ \A s \in Sessions : KeptRow(s) /\ NewRow(s)
<1> USE DEF KeptRow, NewRow
<1>0. /\ clock \in Nat /\ AbsoluteTTL \in Nat /\ Retention \in Nat
      /\ \A s \in Sessions : row[s] \in Row /\ row[s].lastActive <= clock
  BY SessionsAssumption DEF IInv, RowsBounded
<1>1. ASSUME NEW S \in SUBSET Sessions, \A s \in S : PastRetention(s), NEW s \in Sessions
      PROVE  /\ Purged(S)[s].absolute = row[s].absolute /\ Purged(S)[s].lastActive = row[s].lastActive
             /\ Purged(S)[s].revoked = row[s].revoked
             /\ Purged(S)[s].place = row[s].place
                \/ (row[s].place = "stored" /\ Purged(S)[s].place = "purged" /\ row[s].absolute < clock)
  BY <1>0, <1>1 DEF Purged, PastRetention, IInv
<1>2. ASSUME NEW r \in Sessions, CreateSession(r) PROVE Goal
  <2> DEFINE S == {x \in Sessions : PastRetention(x)}
  <2>1. clock' = clock /\ row[r].place \in {"unused", "admitted"} BY <1>2 DEF CreateSession
  <2>2. row'[r] = [place |-> "stored", revoked |-> FALSE, lastActive |-> clock, absolute |-> clock + AbsoluteTTL]
    BY <1>2 DEF CreateSession, Purged
  <2>3. \A s \in Sessions : s # r => row'[s] = Purged(S)[s]
    BY <1>2 DEF CreateSession, Purged
  <2>4. S \in SUBSET Sessions /\ \A s \in S : PastRetention(s) OBVIOUS
  <2> HIDE DEF S
  <2> QED BY <1>0, <1>1, <2>1, <2>2, <2>3, <2>4
<1>3. ASSUME row' = Revoked \/ row' = row, clock' = clock PROVE Goal
  BY <1>0, <1>3, RevokedRows DEF IInv
<1>4. ASSUME NEW r \in Sessions, NEW touch \in BOOLEAN, Authenticate(r, touch) PROVE Goal
  <2>1. clock' = clock /\ (row' = row \/ row' = [row EXCEPT ![r].lastActive = clock])
    BY <1>4 DEF Authenticate
  <2>2. CASE row' = row BY <1>3, <2>1, <2>2
  <2>3. CASE row' = [row EXCEPT ![r].lastActive = clock]
    <3>1. \A s \in Sessions :
              /\ row'[s].place = row[s].place /\ row'[s].absolute = row[s].absolute
              /\ row'[s].lastActive = row[s].lastActive \/ row'[s].lastActive = clock
      BY <2>3 DEF IInv
    <3> QED BY <1>0, <2>1, <3>1
  <2> QED BY <2>1, <2>2, <2>3
<1>5. ASSUME NEW S \in SUBSET Sessions, PurgeExpired(S) PROVE Goal
  <2>1. row' = Purged(S) /\ clock' = clock /\ \A s \in S : PastRetention(s) BY <1>5 DEF PurgeExpired
  <2> QED BY <1>0, <1>1, <2>1
<1>6. CASE Tick BY <1>0, <1>6 DEF Tick
<1>7. ASSUME NEW s \in Sessions, SignOutEverywhere(s) PROVE Goal BY <1>3, <1>7 DEF SignOutEverywhere
<1>8. CASE Deactivate \/ Reactivate BY <1>3, <1>8 DEF Deactivate, Reactivate
<1>9. CASE UNCHANGED sessionVars BY <1>3, <1>9 DEF sessionVars
<1>10. ASSUME NEW r \in Sessions, Admit(r) PROVE Goal
  <2>1. /\ clock' = clock /\ row'[r].place = "admitted" /\ row[r].place = "unused"
        /\ \A s \in Sessions : s # r => row'[s] = row[s]
    BY <1>10 DEF Admit, IInv
  <2> QED BY <1>0, <2>1
<1> QED BY <1>2, <1>4, <1>5, <1>6, <1>7, <1>8, <1>9, <1>10 DEF SessionsNext

(* A step without a mishap serves a sign-out, begins a session, or leaves    *)
(* the cookie and who is revoked as they are.                                *)
Served == /\ logout # NoSession /\ SignOutEverywhere(logout)
          /\ cookie' = NoSession /\ logout' = NoSession
Begun == logout = NoSession /\ logout' = NoSession /\ \E s \in Sessions : CreateSession(s) /\ cookie' = s
Steady ==
    /\ cookie' = cookie /\ (logout' = logout \/ (logout = NoSession /\ logout' = cookie))
    /\ \A s \in Sessions : row'[s].revoked = row[s].revoked
    /\ \A s \in Sessions : row[s].place \in {"unused", "admitted"} => row'[s].place \in {"unused", "admitted"}

LEMMA CalmSteps ==
    ASSUME IInv, mishaps \in Nat, mishaps' = 0, status = "active", [Next]_vars
    PROVE  mishaps = 0 /\ status' = "active" /\ (Served \/ Begun \/ Steady)
<1> DEFINE Goal == mishaps = 0 /\ status' = "active" /\ (Served \/ Begun \/ Steady)
           Rows == status' = status /\ \A s \in Sessions :
                       row'[s].revoked = row[s].revoked /\ (row[s].place \in {"unused", "admitted"} => row'[s].place \in {"unused", "admitted"})
<1>1. ASSUME Rows, UNCHANGED <<cookie, logout, mishaps>> PROVE Goal BY <1>1 DEF Steady
<1>2. ASSUME UNCHANGED sessionVars PROVE Rows BY <1>2 DEF sessionVars
<1>3. ASSUME NEW s, NEW touch, Authenticate(s, touch) PROVE Rows
  BY <1>3 DEF Authenticate, IInv
<1>4. ~Mishap BY DEF Mishap
<1>5. ASSUME NEW t \in Tabs, TabStep(t) PROVE Goal
  <2>1. CASE ServeRead(t) \/ ServeProbe(t) BY <1>1, <1>3, <2>1 DEF ServeRead, ServeProbe, Serve
  <2>2. CASE Evaluate(t) \/ ReceiveRead(t) \/ ReceiveProbe(t) \/ Deliver(t)
    BY <1>1, <1>2, <2>2 DEF Evaluate, ReceiveRead, ReceiveProbe, Confirm, Deliver
  <2> QED BY <1>5, <2>1, <2>2 DEF TabStep
<1>6. ASSUME NEW t \in Tabs, Person(t) PROVE Goal
  <2>1. ASSUME NEW s \in Sessions, Arrive(t, s) PROVE Goal
    BY <2>1 DEF Arrive, Load, CreateSession, Begun
  <2>5. ASSUME NEW s \in Sessions, SignIn(t, s) PROVE Goal
    <3>1. Rows BY <2>5 DEF SignIn, Admit, IInv
    <3> QED BY <1>1, <2>5, <3>1 DEF SignIn
  <2>2. CASE PageRequest(t) BY <1>1, <1>3, <2>2 DEF PageRequest
  <2>3. CASE OpenTab(t) \/ Retry(t) \/ Interact(t) \/ ComeBack(t) \/ StaySignedIn(t) \/ DismissWarning(t)
    BY <1>1, <1>2, <2>3 DEF OpenTab, Load, Retry, Interact, ComeBack, StaySignedIn, DismissWarning
  <2>4. CASE SignOut(t) BY <1>2, <2>4 DEF SignOut, Steady
  <2> QED BY <1>6, <2>1, <2>2, <2>3, <2>4, <2>5 DEF Person
<1>7. CASE ServeLogout BY <1>7 DEF ServeLogout, SignOutEverywhere, Served
<1>8. CASE Elsewhere
  <2>1. ASSUME NEW S \in SUBSET Sessions, PurgeExpired(S) PROVE Rows
    BY <2>1 DEF PurgeExpired, Purged, PastRetention, IInv
  <2> QED BY <1>1, <1>4, <1>8, <2>1 DEF Elsewhere, Reactivate
<1>9. CASE Pass BY <1>1, <1>9 DEF Pass, Tick
<1>10. CASE UNCHANGED vars BY <1>1, <1>2, <1>10 DEF vars
<1> QED BY <1>4, <1>5, <1>6, <1>7, <1>8, <1>9, <1>10 DEF Next, FailRead, FailProbe

LEMMA CalmRowsStep ==
    ASSUME IInv, IInv', RowsBounded, [SessionsNext]_sessionVars, CalmRows, status' = "active"
    PROVE  CalmRows'
<1>1. /\ clock \in Nat /\ clock' \in Nat /\ AbsoluteTTL \in Nat
      /\ \A s \in Sessions : row[s] \in Row /\ row'[s] \in Row
  BY SessionsAssumption DEF IInv
<1>2. clock' >= clock /\ \A s \in Sessions : KeptRow(s) /\ NewRow(s) BY EachRow
<1>3. ASSUME NEW s \in Sessions, row'[s].place \in {"stored", "purged"}
      PROVE  /\ row'[s].absolute <= row'[s].lastActive + AbsoluteTTL
             /\ row'[s].place = "purged" => row'[s].absolute < clock'
  <2>1. CASE row[s].place \in {"unused", "admitted"} BY <1>1, <1>2, <1>3, <2>1 DEF NewRow
  <2>2. CASE row[s].place \in {"stored", "purged"}
    <3>1. /\ row[s].absolute <= row[s].lastActive + AbsoluteTTL
          /\ row[s].place = "purged" => row[s].absolute < clock
      BY <2>2 DEF CalmRows
    <3>2. row'[s].absolute = row[s].absolute /\ row'[s].lastActive >= row[s].lastActive
      BY <1>1, <1>2, <2>2 DEF KeptRow
    <3>3. row'[s].place = "purged" => row[s].place = "purged" \/ row[s].absolute < clock
      BY <1>2, <2>2 DEF KeptRow
    <3> QED BY <1>1, <1>2, <3>1, <3>2, <3>3
  <2> QED BY <1>1, <2>1, <2>2
<1>4. stray' = {}
  <2>1. stray' = stray \/ \E s \in Sessions : CreateSession(s)
    BY DEF SessionsNext, sessionVars, Admit, SignOutEverywhere, Authenticate, Deactivate, Reactivate, PurgeExpired, Tick
  <2> QED BY <2>1 DEF CalmRows, CreateSession
<1> QED BY <1>3, <1>4 DEF CalmRows

(* When a sign-out has been served, nothing of the user works.               *)
LEMMA ServedEndsAll ==
    ASSUME IInv, IInv', CookieNewest, CalmRows, CookieWorks, cookie \in Cookies, Served
    PROVE  /\ \A s \in Sessions : Outcome(s)' # "ok"
           /\ row' = row \/ \A s \in Sessions : row'[s].place = "stored" => row'[s].revoked
           /\ \A s \in Sessions : row[s].revoked => row'[s].revoked
<1>1. logout = cookie /\ cookie # NoSession /\ clock' = clock /\ status' = status
  BY DEF Served, CookieWorks, SignOutEverywhere
<1>2. /\ clock \in Nat /\ NoSession \notin Sessions /\ \A s \in Sessions : row[s] \in Row
  BY SessionsAssumption DEF IInv
<1>3. CASE row' = Revoked
  <2>1. \A s \in Sessions : row'[s].place = "stored" => row'[s].revoked
    BY <1>3, RevokedRows DEF IInv
  <2>2. \A s \in Sessions : row[s].revoked => row'[s].revoked
    BY <1>2, <1>3 DEF Revoked, IInv
  <2> QED BY <1>2, <2>1, <2>2 DEF Outcome
<1>4. CASE row' = row
  <2>1. ~(cookie \in Sessions /\ row[cookie].place = "stored" /\ ~row[cookie].revoked) \/ row' = Revoked
    BY <1>1 DEF Served, SignOutEverywhere
  <2>2. CASE cookie \in Sessions
    <3>1. row[cookie].place = "purged" \/ row' = Revoked
      BY <1>2, <2>1, <2>2 DEF CookieWorks, CookieNewest
    <3>2. ASSUME row[cookie].place = "purged" PROVE \A s \in Sessions : Outcome(s)' # "ok"
      <4>1. row[cookie].absolute < clock BY <2>2, <3>2 DEF CalmRows
      <4>2. \A s \in Sessions : row[s].absolute <= clock
        BY <1>2, <2>2, <4>1 DEF CookieNewest
      <4> QED BY <1>1, <1>2, <1>4, <4>2 DEF Outcome
    <3> QED BY <1>3, <1>4, <3>1, <3>2
  <2>3. CASE cookie \notin Sessions
    <3> QED BY <1>1, <2>3 DEF Cookies
  <2> QED BY <2>2, <2>3
<1>5. row' = row \/ row' = Revoked BY DEF Served, SignOutEverywhere
<1> QED BY <1>3, <1>4, <1>5

LEMMA CookieWorksStep ==
    ASSUME IInv, IInv', RowsBounded, CookieNewest, [SessionsNext]_sessionVars, CalmRows, CookieWorks,
           cookie \in Cookies, Served \/ Begun \/ Steady
    PROVE  CookieWorks'
<1>1. CASE Served
  <2>1. cookie' = NoSession /\ logout' = NoSession BY <1>1 DEF Served
  <2>2. NoSession \notin Sessions BY SessionsAssumption
  <2>3. \A s \in Sessions : Outcome(s)' # "ok" BY <1>1, ServedEndsAll
  <2> QED BY <2>1, <2>2, <2>3 DEF CookieWorks
<1>2. CASE Begun
  <2>1. PICK s \in Sessions : CreateSession(s) /\ cookie' = s BY <1>2 DEF Begun
  <2>2. row[s].place \in {"unused", "admitted"} /\ row'[s].place = "stored" BY <2>1 DEF CreateSession, Purged
  <2>3. ~row'[s].revoked BY <2>2, EachRow DEF NewRow
  <2>4. logout' = NoSession /\ cookie' # NoSession BY <1>2, <2>1, SessionsAssumption DEF Begun
  <2> QED BY <2>1, <2>3, <2>4 DEF CookieWorks
<1>3. CASE Steady
  <2>1. cookie' \in Sessions => ~row'[cookie'].revoked BY <1>3 DEF Steady, CookieWorks
  <2>2. logout' # NoSession => logout' = cookie' BY <1>3 DEF Steady, CookieWorks
  <2>3. ASSUME cookie' = NoSession, NEW s \in Sessions PROVE Outcome(s)' # "ok"
    <3>1. Outcome(s) # "ok" BY <1>3, <2>3 DEF Steady, CookieWorks
    <3>2. CASE row[s].place \in {"unused", "admitted"}
      <4>1. row'[s].place \in {"unused", "admitted"} BY <1>3, <3>2 DEF Steady
      <4> QED BY <4>1, SessionsAssumption DEF Outcome
    <3>3. CASE row[s].place \in {"stored", "purged"} BY <3>1, <3>3, RefusedStays DEF CalmRows, WaitsForAccount
    <3> QED BY <3>2, <3>3 DEF IInv
  <2> QED BY <2>1, <2>2, <2>3 DEF CookieWorks
<1> QED BY <1>1, <1>2, <1>3

(* A session of no use stays so, at least for who asked by now.              *)
LEMMA SpentStays ==
    ASSUME IInv, IInv', RowsBounded, CalmRows, [SessionsNext]_sessionVars,
           NEW s \in Sessions, row[s].place \in {"stored", "purged"}, NEW at \in Nat, at <= clock, Spent(s, at)
    PROVE  Spent(s, at)'
<1>1. /\ clock \in Nat /\ clock' \in Nat /\ IdleTTL \in Nat /\ Latency \in Nat /\ MinUseful \in Nat
      /\ row[s] \in Row /\ row'[s] \in Row
  BY SessionsAssumption, WebAssumption DEF IInv
<1>2. clock' >= clock /\ KeptRow(s) BY EachRow
<1>3. CASE Outcome(s) # "ok"
  <2>1. Outcome(s)' # "ok" BY <1>3, RefusedStays DEF CalmRows, WaitsForAccount
  <2> QED BY <2>1 DEF Spent
<1>4. CASE row'[s].lastActive = row[s].lastActive
  <2>1. Deadline(s)' = Deadline(s) /\ Deadline(s) \in Nat
    BY <1>1, <1>2, <1>4 DEF KeptRow, Deadline, IdleDeadline, Sooner
  <2> QED BY <1>1, <1>2, <1>3, <1>4, <2>1 DEF Spent
<1>5. CASE row'[s].lastActive = clock' BY <1>1, <1>2, <1>5 DEF Spent
<1> QED BY <1>2, <1>4, <1>5 DEF KeptRow

LEMMA SinceStays ==
    ASSUME IInv, RowsBounded, [SessionsNext]_sessionVars, NEW s \in Sessions, row[s].place \in {"stored", "purged"}, NEW at \in Nat
    PROVE  Since(s, at)' <=> Since(s, at)
<1>1. row'[s].absolute = row[s].absolute BY EachRow DEF KeptRow
<1> QED BY <1>1 DEF Since

LEMMA CookieSince ==
    ASSUME IInv, Begun, NEW at \in Nat, at <= clock
    PROVE  cookie' \in Sessions /\ clock' = clock /\ Since(cookie, at)' /\ row'[cookie'].lastActive = clock
<1>1. PICK s \in Sessions : CreateSession(s) /\ cookie' = s BY DEF Begun
<1>2. clock' = clock /\ row'[s].absolute = clock + AbsoluteTTL /\ row'[s].lastActive = clock
  BY <1>1 DEF CreateSession, Purged
<1> QED BY <1>1, <1>2, SessionsAssumption DEF Since, IInv

(* A request under way keeps its age and its session, a new one asks about   *)
(* the cookie's.                                                             *)
Carried(c, d) == c.stage # "none" /\ d.at = c.at /\ d.of = c.of
Fresh(d) == d.stage = "sent" /\ d.at = clock /\ d.of = cookie' /\ clock' = clock
LEMMA CallKinds ==
    ASSUME NEW c \in Call, NEW d \in Call, CallMove(c, d), d.stage # "none"
    PROVE  Carried(c, d) \/ Fresh(d)
<1>1. CASE d = c BY <1>1 DEF Carried
<1>2. CASE d.stage = "sent" /\ d.at = clock' /\ d.of = cookie' /\ clock' = clock BY <1>2 DEF Fresh
<1>3. ASSUME NEW touch, Serve(c, touch), d = Answer(c) PROVE Carried(c, d)
  BY <1>3 DEF Serve, Answer, Call, Carried
<1> QED BY <1>1, <1>2, <1>3 DEF CallMove

(* What a step without a mishap finds and leaves, for the lemmas below.      *)
Before == IInv /\ CallsOK /\ WInv /\ mishaps = 0 /\ Calm
Onward == /\ Before /\ [Next]_vars /\ [SessionsNext]_sessionVars /\ mishaps' = 0
          /\ IInv' /\ CallsOK' /\ WInv' /\ CalmRows' /\ CookieWorks'
          /\ Served \/ Begun \/ Steady

LEMMA OutOfDateStep ==
    ASSUME Onward, NEW c \in Call, NEW d \in Call, Asked(c), OutOfDate(c), CallMove(c, d)
    PROVE  OutOfDate(d)'
<1> SUFFICES ASSUME d.stage # "none", cookie' \in Sessions, d.of # cookie' PROVE Since(cookie, d.at)'
  BY DEF OutOfDate
<1>1. Carried(c, d) BY CallKinds DEF Fresh
<1>2. c.stage # "none" /\ d.at = c.at /\ d.of = c.of /\ c.at \in Nat /\ c.at <= clock
  BY <1>1 DEF Carried, Call, Asked
<1>3. CASE Begun BY <1>2, <1>3, CookieSince DEF Onward, Before
<1>4. CASE Steady
  <2>1. cookie' = cookie /\ Since(cookie, c.at) BY <1>2, <1>4 DEF Steady, OutOfDate
  <2>2. row[cookie].place \in {"stored", "purged"} BY <2>1 DEF Onward, Before, WInv, CookieNewest
  <2>3. row'[cookie].absolute = row[cookie].absolute BY <2>1, <2>2, EachRow DEF Onward, Before, WInv, KeptRow
  <2> QED BY <1>2, <2>1, <2>3 DEF Since
<1>5. CASE Served BY <1>5, SessionsAssumption DEF Served
<1> QED BY <1>3, <1>4, <1>5 DEF Onward

LEMMA ApartStep ==
    ASSUME Onward, NEW r \in Call, NEW p \in Call, NEW r1 \in Call, NEW p1 \in Call,
           Asked(r), Asked(p), Apart(r, p), CallMove(r, r1), CallMove(p, p1), OutOfDate(r1)', OutOfDate(p1)'
    PROVE  Apart(r1, p1)'
<1> SUFFICES ASSUME r1.stage # "none", p1.stage # "none", r1.of \in Sessions, r1.of # p1.of
             PROVE  \/ Outcome(r1.of)' # "ok" \/ Since(r1.of, p1.at)'
                    \/ p1.of \in Sessions /\ Since(p1.of, r1.at)'
  BY DEF Apart
<1> USE DEF Onward, Before, WInv
<1>1. (Carried(r, r1) \/ Fresh(r1)) /\ (Carried(p, p1) \/ Fresh(p1)) BY CallKinds
<1>2. CASE Carried(r, r1) /\ Carried(p, p1)
  <2>1. /\ r.stage # "none" /\ p.stage # "none" /\ r.of = r1.of /\ p.of = p1.of /\ r.at = r1.at /\ p.at = p1.at
        /\ r.at \in Nat /\ p.at \in Nat
    BY <1>2 DEF Carried, Call
  <2>2. row[r.of].place \in {"stored", "purged"} /\ (p.of \in Sessions => row[p.of].place \in {"stored", "purged"})
    BY <2>1 DEF Asked
  <2>3. CASE Outcome(r.of) # "ok"
    BY <2>1, <2>2, <2>3, RefusedStays DEF Calm, CalmRows, WaitsForAccount
  <2>4. CASE Since(r.of, p.at) BY <2>1, <2>2, <2>4, SinceStays
  <2>5. CASE p.of \in Sessions /\ Since(p.of, r.at) BY <2>1, <2>2, <2>5, SinceStays
  <2> QED BY <2>1, <2>3, <2>4, <2>5 DEF Apart
<1>3. CASE Fresh(r1)
  <2>1. r1.of = cookie' BY <1>3 DEF Fresh
  <2>2. Since(cookie, p1.at)' BY <2>1 DEF OutOfDate
  <2> QED BY <2>1, <2>2 DEF Since
<1>4. CASE Fresh(p1)
  <2>1. p1.of = cookie' BY <1>4 DEF Fresh
  <2>2. CASE cookie' \in Sessions
    <3>1. Since(cookie, r1.at)' BY <2>1, <2>2 DEF OutOfDate
    <3> QED BY <2>1, <2>2, <3>1 DEF Since
  <2>3. CASE cookie' = NoSession BY <2>3 DEF CookieWorks
  <2> QED BY <2>2, <2>3 DEF CallsOK, Cookies
<1> QED BY <1>1, <1>2, <1>3, <1>4

LEMMA EndedTogetherStep ==
    ASSUME Onward, NEW p \in Call, NEW p1 \in Call, Asked(p), EndedTogether(p), CallMove(p, p1)
    PROVE  EndedTogether(p1)'
<1> USE DEF Onward, Before, WInv, Calm
<1> SUFFICES ASSUME p1.stage # "none", p1.of \in Sessions, row'[p1.of].revoked,
                    NEW s \in Sessions, row'[s].place = "stored", ~row'[s].revoked
             PROVE  Since(s, p1.at)'
  BY DEF EndedTogether
<1>1. ~Fresh(p1) BY DEF Fresh, CookieWorks
<1>2. Carried(p, p1) BY <1>1, CallKinds
<1>3. /\ p.stage # "none" /\ p.of = p1.of /\ p.at = p1.at /\ p.at \in Nat /\ p.at <= clock
      /\ row[p.of].place \in {"stored", "purged"}
  BY <1>2 DEF Carried, Call, Asked
<1>4. clock' >= clock /\ KeptRow(s) /\ NewRow(s) /\ KeptRow(p.of) BY <1>3, EachRow
<1>5. CASE row[s].place \in {"unused", "admitted"}
  <2>1. row'[s].absolute = clock' + AbsoluteTTL BY <1>4, <1>5 DEF NewRow
  <2> QED BY <1>3, <1>4, <2>1, SessionsAssumption DEF Since, IInv
<1>6. CASE row[s].place \in {"stored", "purged"}
  <2>1. row[s].place = "stored" BY <1>4, <1>6 DEF KeptRow
  <2>2. row[p.of].revoked /\ ~row[s].revoked
    <3>1. CASE Served
      <4>1. row' = row BY <3>1, ServedEndsAll DEF CallsOK
      <4> QED BY <1>3, <4>1
    <3>2. CASE Steady BY <1>3, <3>2 DEF Steady
    <3>3. CASE Begun
      <4>1. PICK x \in Sessions : CreateSession(x) BY <3>3 DEF Begun
      <4>2. \A y \in Sessions : y # x => row'[y].revoked = row[y].revoked
        BY <4>1 DEF CreateSession, Purged, IInv
      <4>3. row[x].place \in {"unused", "admitted"} BY <4>1 DEF CreateSession
      <4> QED BY <1>3, <1>6, <4>2, <4>3
    <3> QED BY <3>1, <3>2, <3>3
  <2>3. Since(s, p.at) BY <1>3, <2>1, <2>2 DEF EndedTogether
  <2> QED BY <1>3, <1>6, <2>3, SinceStays
<1> QED BY <1>3, <1>5, <1>6 DEF IInv

LEMMA HeardStep ==
    ASSUME Onward, NEW p \in Call, NEW p1 \in Call, Asked(p), Heard(p), CallMove(p, p1)
    PROVE  Heard(p1)'
<1> USE DEF Onward, Before, WInv
<1> SUFFICES ASSUME p1.stage = "answered", p1.outcome = "ok"
             PROVE  /\ p1.of \in Sessions /\ row'[p1.of].absolute + Reach <= clock' + p1.left + AbsoluteTTL
                    /\ p1.left <= MinUseful => Deadline(p1.of)' <= clock' + MinUseful \/ p1.at <= row'[p1.of].lastActive
  BY DEF Heard, Reach, Sooner
<1>1. /\ clock \in Nat /\ clock' \in Nat /\ AbsoluteTTL \in Nat /\ IdleTTL \in Nat /\ MinUseful \in Nat
      /\ Reach \in Nat /\ p.at \in Nat /\ p1.left \in Nat /\ \A s \in Sessions : row[s] \in Row /\ row'[s] \in Row
  BY SessionsAssumption, WebAssumption DEF IInv, Call, Reach, Sooner
<1>2. CASE p1 = p
  <2>1. p.of \in Sessions /\ row[p.of].place \in {"stored", "purged"} /\ p.at <= clock
    BY <1>2 DEF Heard, Asked
  <2>2. clock' >= clock /\ KeptRow(p.of) BY <2>1, EachRow
  <2>3. row'[p.of].absolute + Reach <= clock' + p.left + AbsoluteTTL
    BY <1>1, <1>2, <2>1, <2>2 DEF Heard, KeptRow
  <2>4. ASSUME p.left <= MinUseful PROVE Deadline(p.of)' <= clock' + MinUseful \/ p.at <= row'[p.of].lastActive
    <3>1. CASE row'[p.of].lastActive = row[p.of].lastActive
      <4>1. Deadline(p.of)' = Deadline(p.of) /\ Deadline(p.of) \in Nat
        BY <1>1, <2>1, <2>2, <3>1 DEF KeptRow, Deadline, IdleDeadline, Sooner
      <4>2. Deadline(p.of) <= clock + MinUseful \/ p.at <= row[p.of].lastActive
        BY <1>2, <2>4 DEF Heard
      <4> QED BY <1>1, <2>2, <3>1, <4>1, <4>2
    <3>2. CASE row'[p.of].lastActive = clock' BY <1>1, <2>1, <2>2, <3>2
    <3> QED BY <2>1, <2>2, <3>1, <3>2 DEF KeptRow
  <2> QED BY <1>2, <2>1, <2>3, <2>4
<1>3. ASSUME NEW touch, Serve(p, touch), p1 = Answer(p) 
      PROVE  /\ p1.of \in Sessions /\ row'[p1.of].absolute + Reach <= clock' + p1.left + AbsoluteTTL
             /\ p1.left <= MinUseful => Deadline(p1.of)' <= clock' + MinUseful
  <2>1. clock' = clock /\ p1.of = p.of /\ p1.outcome = Outcome(p.of)'
    BY <1>3 DEF Serve, Authenticate, Answer, Call
  <2>2. p.of \in Sessions BY <2>1 DEF Outcome, Call, Cookies
  <2>3. p1.left = Deadline(p.of)' - clock BY <1>3, <2>1 DEF Answer, Call
  <2>4. row'[p.of].place = "stored" BY <2>1, <2>2, SessionsAssumption DEF Outcome
  <2>5. row'[p.of].absolute <= row'[p.of].lastActive + AbsoluteTTL BY <2>2, <2>4 DEF CalmRows
  <2>6. Deadline(p.of)' \in Nat /\ row'[p.of].absolute + Reach <= Deadline(p.of)' + AbsoluteTTL
    BY <1>1, <2>2, <2>5 DEF Deadline, IdleDeadline, Reach, Sooner
  <2> QED BY <1>1, <2>1, <2>2, <2>3, <2>6
<1> QED BY <1>2, <1>3 DEF CallMove

LEMMA CallsInOrderStep ==
    ASSUME Onward
    PROVE  CallsInOrder'
<1> SUFFICES ASSUME NEW t \in Tabs
             PROVE  /\ OutOfDate(call[t].read)' /\ OutOfDate(call[t].probe)'
                    /\ Apart(call[t].read, call[t].probe)' /\ EndedTogether(call[t].probe)'
                    /\ Heard(call[t].probe)'
  BY DEF CallsInOrder
<1>1. PICK r \in Call, p \in Call, r1 \in Call, p1 \in Call :
          r = call[t].read /\ p = call[t].probe /\ r1 = call'[t].read /\ p1 = call'[t].probe
  BY DEF Onward, Before, CallsOK
<1>2. CallMove(r, r1) /\ CallMove(p, p1) BY <1>1, CallsMove DEF Onward, Before
<1>3. Asked(r) /\ Asked(p) BY <1>1 DEF Onward, Before, WInv, CallsHonest
<1>4. OutOfDate(r) /\ OutOfDate(p) /\ Apart(r, p) /\ EndedTogether(p) /\ Heard(p)
  BY <1>1 DEF Onward, Before, Calm, CallsInOrder
<1>5. OutOfDate(r1)' /\ OutOfDate(p1)' BY <1>2, <1>3, <1>4, OutOfDateStep
<1>6. Apart(r1, p1)' BY <1>2, <1>3, <1>4, <1>5, ApartStep
<1>7. EndedTogether(p1)' /\ Heard(p1)' BY <1>2, <1>3, <1>4, EndedTogetherStep, HeardStep
<1> QED BY <1>1, <1>5, <1>6, <1>7 DEF OutOfDate, Apart, EndedTogether, Heard

(* A probe that finds nothing worth keeping: neither the session it asked    *)
(* about nor one of an older or a younger request has any use for a touch.   *)
LEMMA OutMeansSpent ==
    ASSUME Before, NEW p \in Call, p.stage = "answered", Asked(p), Answered(p), EndedTogether(p), Heard(p),
           ~(p.outcome = "ok" /\ p.left > MinUseful),
           NEW s \in Sessions, row[s].place \in {"stored", "purged"}, NEW at \in Nat, at <= clock, clock <= at + Latency,
           \/ s = p.of \/ Outcome(s) # "ok" \/ Since(s, p.at)
           \/ p.of \in Sessions /\ Since(p.of, at)
    PROVE  Spent(s, at)
<1> USE DEF Before, Calm
<1>1. /\ clock \in Nat /\ AbsoluteTTL \in Nat /\ IdleTTL \in Nat /\ Latency \in Nat /\ MinUseful \in Nat
      /\ p.at \in Nat /\ p.left \in Nat /\ NoSession \notin Sessions /\ \A x \in Sessions : row[x] \in Row
      /\ MinUseful + Latency < IdleTTL /\ MinUseful + Latency < AbsoluteTTL
  BY SessionsAssumption, WebAssumption, TimesAssumption DEF IInv, Call
<1>2. p.at <= clock /\ clock <= p.at + Latency BY DEF Asked
<1>3. CASE Outcome(s) # "ok" BY <1>3 DEF Spent
<1>4. ASSUME p.at <= row[s].lastActive PROVE Spent(s, at) BY <1>1, <1>2, <1>4 DEF Spent
<1>5. CASE s = p.of
  <2>1. CASE p.outcome = "ok"
    <3>1. Deadline(s) <= clock + MinUseful \/ p.at <= row[s].lastActive
      BY <1>1, <1>5, <2>1 DEF Heard
    <3> QED BY <1>4, <3>1 DEF Spent
  <2>2. CASE p.outcome # "ok" BY <1>3, <1>5, <2>2 DEF Answered, CalmRows
  <2> QED BY <2>1, <2>2
<1>6. CASE Since(s, p.at)
  <2>1. row[s].absolute <= row[s].lastActive + AbsoluteTTL BY DEF CalmRows
  <2> QED BY <1>1, <1>4, <1>6, <2>1 DEF Since
<1>7. CASE p.of \in Sessions /\ Since(p.of, at)
  <2>1. row[p.of].place \in {"stored", "purged"} BY <1>7 DEF Asked
  <2>2. row[p.of].absolute >= at + AbsoluteTTL BY <1>1, <1>7 DEF Since
  <2>3. p.outcome # "ok"
    <3>1. ASSUME p.outcome = "ok" PROVE p.left > MinUseful
      <4>1. row[p.of].absolute + Reach <= clock + p.left + AbsoluteTTL BY <3>1 DEF Heard
      <4> QED BY <1>1, <1>7, <2>2, <4>1 DEF Reach, Sooner
    <3> QED BY <3>1
  <2>4. Outcome(p.of) # "ok" BY <2>3 DEF Answered, CalmRows
  <2>5. row[p.of].absolute > clock BY <1>1, <1>7, <2>2
  <2>6. row[p.of].place = "stored" BY <1>1, <1>7, <2>1, <2>5 DEF CalmRows
  <2>7. row[p.of].lastActive + IdleTTL > clock
    <3>1. row[p.of].absolute <= row[p.of].lastActive + AbsoluteTTL BY <1>7, <2>1 DEF CalmRows
    <3> QED BY <1>1, <1>7, <2>2, <3>1
  <2>8. row[p.of].revoked
    BY <1>1, <1>7, <2>4, <2>5, <2>6, <2>7 DEF Outcome, IdleDeadline, CalmRows
  <2>9. row[s].place = "stored" /\ ~row[s].revoked => Since(s, p.at)
    BY <1>7, <2>8 DEF EndedTogether
  <2>10. row[s].place # "stored" \/ row[s].revoked => Outcome(s) # "ok"
    BY <1>1 DEF Outcome
  <2> QED BY <1>3, <1>6, <2>9, <2>10
<1> QED BY <1>3, <1>5, <1>6, <1>7

(* What steps do to the reads: one that may be served later has a reason, or *)
(* touches nothing worth it.                                                 *)
ReadMove(t) == call'[t].read.stage = "sent" =>
    Harmless(call'[t].read) \/ Attended(tab'[t], call'[t].read)
NewsMove == (\E t \in Tabs : AsksAgain(inbox'[t])) =>
    clock' = clock /\ (logout # NoSession \/ logout' # NoSession \/ Spent(cookie, clock))

LEMMA HarmlessStays ==
    ASSUME Onward, NEW c \in Call, c.at <= clock, Harmless(c),
           c.of \in Sessions => row[c.of].place \in {"stored", "purged"} \/ (Begun /\ c.of = cookie')
    PROVE  Harmless(c)'
<1> USE DEF Onward, Before, WInv
<1>1. c.at \in Nat /\ c.of \in Cookies BY DEF Call
<1>2. CASE c.of \in Sessions /\ Spent(c.of, c.at)
  <2>1. CASE row[c.of].place \in {"stored", "purged"} BY <1>1, <1>2, <2>1, SpentStays DEF Harmless, Calm
  <2>2. CASE Begun /\ c.of = cookie'
    <3>1. row'[c.of].lastActive = clock BY <1>1, <2>2, CookieSince
    <3>2. clock \in Nat /\ Latency \in Nat BY WebAssumption DEF IInv
    <3> QED BY <1>1, <3>1, <3>2 DEF Harmless, Spent
  <2> QED BY <1>2, <2>1, <2>2
<1>3. CASE c.of \notin Sessions BY <1>3 DEF Harmless, Spent
<1>4. CASE logout # NoSession /\ logout = c.of
  <2>1. CASE Served
    <3>1. c.of \in Sessions BY <1>1, <1>4 DEF Cookies
    <3>2. Outcome(c.of)' # "ok" BY <2>1, <3>1, ServedEndsAll DEF Calm, CallsOK
    <3> QED BY <3>2 DEF Harmless, Spent
  <2>2. CASE Steady BY <1>4, <2>2 DEF Steady, Harmless
  <2> QED BY <1>4, <2>1, <2>2 DEF Begun
<1> QED BY <1>2, <1>3, <1>4 DEF Harmless

LEMMA ReadsJustifiedStep ==
    ASSUME Onward, \A t \in Tabs : ReadMove(t)
    PROVE  ReadsJustified'
<1> USE DEF Onward, Before, WInv
<1> SUFFICES ASSUME NEW t \in Tabs, call'[t].read.stage = "sent"
             PROVE  Harmless(call[t].read)' \/ Attended(tab[t], call[t].read)'
  BY DEF ReadsJustified
<1>1. PICK c \in Call, d \in Call : c = call[t].read /\ d = call'[t].read BY DEF CallsOK
<1>2. CASE Attended(tab'[t], d) BY <1>1, <1>2 DEF Attended
<1>3. CASE Harmless(d)
  <2>1. CallMove(c, d) /\ Asked(c) BY <1>1, CallsMove DEF CallsHonest
  <2>2. CASE Carried(c, d)
    <3>1. d.at <= clock /\ (d.of \in Sessions => row[d.of].place \in {"stored", "purged"}) BY <2>1, <2>2 DEF Carried, Asked
    <3>2. Harmless(d)' BY <1>3, <3>1, HarmlessStays
    <3> QED BY <1>1, <3>2 DEF Harmless, Spent
  <2>3. CASE Fresh(d)
    <3>1. d.of = cookie' /\ d.at = clock /\ clock \in Nat BY <2>3 DEF Fresh, IInv
    <3>2. cookie' \in Sessions => row[cookie'].place \in {"stored", "purged"} \/ Begun
      <4>1. CASE Served BY <4>1, SessionsAssumption DEF Served
      <4>2. CASE Steady BY <4>2 DEF Steady, CookieNewest
      <4> QED BY <4>1, <4>2
    <3>3. Harmless(d)' BY <1>3, <3>1, <3>2, HarmlessStays
    <3> QED BY <1>1, <3>3 DEF Harmless, Spent
  <2> QED BY <1>1, <2>1, <2>2, <2>3, CallKinds
<1> QED BY <1>1, <1>2, <1>3 DEF ReadMove

LEMMA NewsHarmlessStep ==
    ASSUME Onward, NewsMove
    PROVE  NewsHarmless'
<1> USE DEF Onward, Before, WInv
<1> SUFFICES ASSUME clock' = clock, logout' = NoSession, logout # NoSession \/ Spent(cookie, clock),
                    cookie' \in Sessions
             PROVE  Spent(cookie, clock)'
  BY DEF NewsHarmless, NewsMove, Spent
<1>1. clock \in Nat /\ Latency \in Nat BY WebAssumption DEF IInv
<1>2. ~Served BY SessionsAssumption DEF Served
<1>3. CASE Begun
  <2>1. row'[cookie'].lastActive = clock BY <1>1, <1>3, CookieSince
  <2> QED BY <1>1, <2>1 DEF Spent
<1>4. CASE Steady
  <2>1. cookie' = cookie /\ Spent(cookie, clock) BY <1>4 DEF Steady
  <2>2. row[cookie].place \in {"stored", "purged"} BY <2>1 DEF CookieNewest
  <2>3. PICK s \in Sessions, at \in Nat : s = cookie /\ at = clock BY <1>1, <2>1
  <2>4. Spent(s, at)' BY <1>1, <2>1, <2>2, <2>3, SpentStays DEF Calm
  <2> QED BY <2>1, <2>3, <2>4 DEF Spent
<1> QED BY <1>2, <1>3, <1>4

(* Messages that have a session asked for again are not made up.             *)
OldNews(box) == \A o \in Tabs : AsksAgain(box[o]) => \E x \in Tabs : AsksAgain(inbox[x])

LEMMA AppendAsks ==
    ASSUME NEW q \in Seq(Messages), NEW m \in Messages, AsksAgain(Append(q, m))
    PROVE  AsksAgain(q) \/ m.type # "session-renewed"
<1>1. PICK i \in DOMAIN Append(q, m) : Append(q, m)[i].type # "session-renewed" BY DEF AsksAgain
<1>2. CASE i = Len(q) + 1 BY <1>1, <1>2
<1>3. CASE i \in DOMAIN q BY <1>1, <1>3 DEF AsksAgain
<1> QED BY <1>1, <1>2, <1>3

LEMMA NewsSources ==
    ASSUME IInv, BrowserTyped
    PROVE  /\ OldNews(inbox) /\ \A t \in Tabs : OldNews(RenewalOver(t))
           /\ \A t \in Tabs, e \in Nat : OldNews(Published(t, [type |-> "session-renewed", expires |-> e]))
<1>1. inbox \in [Tabs -> Seq(Messages)] BY DEF BrowserTyped
<1>2. OldNews(inbox) BY DEF OldNews
<1>3. ASSUME NEW t \in Tabs, NEW e \in Nat
      PROVE  OldNews(Published(t, [type |-> "session-renewed", expires |-> e]))
  <2> DEFINE m == [type |-> "session-renewed", expires |-> e]
  <2>1. m \in Messages /\ m.type = "session-renewed" BY DEF Messages
  <2> HIDE DEF m
  <2>2. ASSUME NEW o \in Tabs, AsksAgain(Published(t, m)[o]) PROVE AsksAgain(inbox[o])
    <3>1. Published(t, m)[o] = inbox[o] \/ Published(t, m)[o] = Append(inbox[o], m) BY DEF Published
    <3> QED BY <1>1, <2>1, <2>2, <3>1, AppendAsks
  <2>3. OldNews(Published(t, m)) BY <2>2 DEF OldNews
  <2> QED BY <2>3 DEF m
<1>4. ASSUME NEW t \in Tabs PROVE OldNews(RenewalOver(t))
  <2>1. tab[t].expires \in Nat BY DEF BrowserTyped, Tab
  <2> QED BY <1>2, <1>3, <2>1 DEF RenewalOver
<1> QED BY <1>2, <1>3, <1>4

LEMMA NewsCut ==
    ASSUME BrowserTyped, NEW box \in [Tabs -> Seq(Messages)], OldNews(box), NEW t \in Tabs, NEW q,
           q = <<>> \/ (box[t] # <<>> /\ q = Tail(box[t]))
    PROVE  OldNews([box EXCEPT ![t] = q])
<1>1. AsksAgain(q) => AsksAgain(box[t])
  <2>1. CASE q = <<>> BY <2>1 DEF AsksAgain
  <2>2. CASE box[t] # <<>> /\ q = Tail(box[t])
    <3>1. \A i \in DOMAIN q : i + 1 \in DOMAIN box[t] /\ q[i] = box[t][i + 1] BY <2>2
    <3> QED BY <3>1 DEF AsksAgain
  <2> QED BY <2>1, <2>2
<1> QED BY <1>1 DEF OldNews

Moved == (\A t \in Tabs : ReadMove(t)) /\ NewsMove

(* A handler of one tab.                                                     *)
LEMMA OneReadMoves ==
    ASSUME Before, clock' = clock, NEW u \in Tabs,
           \A o \in Tabs : o # u => tab'[o] = tab[o] /\ call'[o].read = call[o].read,
           ReadMove(u), OldNews(inbox') \/ NewsMove
    PROVE  Moved
<1>1. ASSUME NEW t \in Tabs, t # u PROVE ReadMove(t)
  BY <1>1 DEF ReadMove, Before, Calm, ReadsJustified
<1>2. NewsMove BY DEF OldNews, NewsMove, Before, Calm, NewsHarmless
<1> QED BY <1>1, <1>2 DEF Moved

LEMMA SameReadMoves ==
    ASSUME Before, NEW t \in Tabs, call'[t].read = call[t].read, NEW r, tab'[t] = r,
           tab[t].page = "app" => r.page = "app",
           r.data = tab[t].data \/ r.act = clock, r.act = tab[t].act \/ r.act = clock
    PROVE  ReadMove(t)
<1> SUFFICES ASSUME call[t].read.stage = "sent", Attended(tab[t], call[t].read), tab[t].page = "app"
             PROVE  Attended(r, call[t].read)
  BY DEF ReadMove, Before, Calm, ReadsJustified, Attended
<1>1. call[t].read.at <= clock /\ call[t].read.at \in Nat /\ clock \in Nat /\ ActivityWindow \in Nat
  BY WebAssumption DEF Before, WInv, CallsHonest, Asked, CallsOK, Call, IInv
<1>2. CASE r.act = clock BY <1>1, <1>2 DEF Attended
<1>3. CASE r.act = tab[t].act /\ r.data = tab[t].data BY <1>3 DEF Attended
<1> QED BY <1>2, <1>3

LEMMA EvaluateReads == ASSUME Before, NEW t \in Tabs, Evaluate(t) PROVE Moved
<1> USE DEF Before, WInv
<1>0. /\ clock' = clock /\ Watching(t) /\ tab[t] \in Tab /\ tab \in [Tabs -> Tab]
      /\ OldNews(inbox) /\ OldNews(RenewalOver(t)) /\ clock \in Nat
  BY NewsSources DEF Evaluate, sessionVars, BrowserTyped, IInv
<1>1. ASSUME NEW r, tab' = [tab EXCEPT ![t] = r], r.page = tab[t].page, r.data = tab[t].data, r.act = tab[t].act,
             \A o \in Tabs : call'[o].read = call[o].read, inbox' = inbox
      PROVE  Moved
  <2>1. tab'[t] = r /\ \A o \in Tabs : o # t => tab'[o] = tab[o] BY <1>0, <1>1
  <2>2. ReadMove(t) BY <1>1, <2>1, SameReadMoves
  <2> QED BY <1>0, <1>1, <2>1, <2>2, OneReadMoves
<1>2. CASE Expire(t)
  <2>1. PICK r : r = [tab[t] EXCEPT !.warning = FALSE, !.expiring = TRUE, !.due = FALSE] OBVIOUS
  <2>2. r.page = tab[t].page /\ r.data = tab[t].data /\ r.act = tab[t].act BY <1>0, <2>1 DEF Tab
  <2>3. tab' = [tab EXCEPT ![t] = r] /\ inbox' = inbox /\ \A o \in Tabs : call'[o].read = call[o].read
    BY <1>0, <1>2, <2>1 DEF Expire, CallsOK
  <2> QED BY <1>1, <2>2, <2>3
<1>3. CASE AwaitConfirmation(t)
  <2>1. PICK r : r = [tab[t] EXCEPT !.warning = FALSE, !.due = FALSE] OBVIOUS
  <2>2. r.page = tab[t].page /\ r.data = tab[t].data /\ r.act = tab[t].act BY <1>0, <2>1 DEF Tab
  <2>3. tab' = [tab EXCEPT ![t] = r] /\ inbox' = inbox /\ call' = call
    BY <1>0, <1>3, <2>1 DEF AwaitConfirmation
  <2> QED BY <1>1, <2>2, <2>3
<1>4. CASE Warn(t)
  <2>1. PICK w : tab' = [tab EXCEPT ![t].due = FALSE, ![t].warning = w] BY <1>4 DEF Warn
  <2>2. PICK r : r = [tab[t] EXCEPT !.due = FALSE, !.warning = w] OBVIOUS
  <2>3. r.page = tab[t].page /\ r.data = tab[t].data /\ r.act = tab[t].act BY <1>0, <2>2 DEF Tab
  <2>4. tab' = [tab EXCEPT ![t] = r] /\ inbox' = inbox /\ call' = call
    BY <1>0, <1>4, <2>1, <2>2 DEF Warn
  <2> QED BY <1>1, <2>3, <2>4
<1>5. CASE Renew(t)
  <2>1. PICK r : r = [tab[t] EXCEPT !.renewAt = clock, !.due = FALSE] OBVIOUS
  <2>2. r.page = tab[t].page /\ r.data = tab[t].data /\ r.act = tab[t].act BY <1>0, <2>1 DEF Tab
  <2>3. /\ tab'[t] = r /\ call'[t].read = Sent(cookie, TRUE) /\ inbox' = RenewalOver(t)
        /\ \A o \in Tabs : o # t => tab'[o] = tab[o] /\ call'[o].read = call[o].read
    BY <1>0, <1>5, <2>1 DEF Renew, Refetch, CallsOK
  <2>4. clock - tab[t].act <= ActivityWindow /\ tab[t].act \in Int BY <1>0, <1>5 DEF Renew, Renewable, Tab
  <2>5. r.page = "app" /\ Sent(cookie, TRUE).at = clock BY <1>0, <2>2 DEF Watching, Sent, NoCall
  <2>6. clock <= tab[t].act + ActivityWindow BY <1>0, <2>4, WebAssumption
  <2>7. ReadMove(t) BY <2>2, <2>3, <2>5, <2>6 DEF ReadMove, Attended
  <2> QED BY <1>0, <2>3, <2>7, OneReadMoves
<1> QED BY <1>2, <1>3, <1>4, <1>5 DEF Evaluate

LEMMA QuietReadMoves ==
    ASSUME Before, clock' = clock, UNCHANGED <<tab, inbox>>, \A o \in Tabs : call'[o].read = call[o].read
    PROVE  Moved
BY DEF Moved, ReadMove, NewsMove, Before, Calm, ReadsJustified, NewsHarmless

(* A tab that learns of a session: a mounted one keeps its activity, any     *)
(* other counts the moment.                                                  *)
LEMMA SignedInAct ==
    ASSUME IInv, NEW r \in Tab, NEW s \in Cookies, NEW e \in Nat, NEW capped \in BOOLEAN
    PROVE  LET q == SignedIn(r, s, e, capped) IN
           /\ r.page = "app" => q.page = "app"
           /\ (q.data = r.data /\ q.act = r.act) \/ q.act = clock
<1>1. LET q == SignedIn(r, s, e, capped) IN q.page = GuestPage(r) /\ q.data = "in" BY TabTypes
<1>2. CASE r.page = "app" /\ r.data = "in"
  <2>1. SignedIn(r, s, e, capped).act = r.act BY <1>2 DEF SignedIn, Tab
  <2> QED BY <1>1, <1>2, <2>1 DEF GuestPage
<1>3. CASE ~(r.page = "app" /\ r.data = "in")
  <2>1. \E b : SignedIn(r, s, e, capped) =
              [Away EXCEPT !.page = GuestPage(r), !.data = "in", !.of = s, !.expires = e, !.capped = capped,
                           !.act = clock, !.dismissed = FALSE, !.expiring = FALSE, !.due = b]
    BY <1>3, Zenon DEF SignedIn
  <2>2. "act" \in DOMAIN Away BY DEF Away
  <2>3. SignedIn(r, s, e, capped).act = clock BY <2>1, <2>2
  <2> QED BY <1>1, <2>3 DEF GuestPage
<1> QED BY <1>2, <1>3

LEMMA AnswersRead == ASSUME Before, NEW t \in Tabs, ReceiveRead(t) PROVE Moved
<1> USE DEF Before, WInv
<1>1. /\ clock' = clock /\ call'[t].read = NoCall
      /\ \A o \in Tabs : o # t => tab'[o] = tab[o] /\ call'[o].read = call[o].read
  BY DEF ReceiveRead, sessionVars, CallsOK, BrowserTyped
<1>2. ReadMove(t) BY <1>1 DEF ReadMove, NoCall
<1>3. call[t].read.left \in Nat /\ clock \in Nat BY DEF CallsOK, Call, IInv
<1>4. PICK e \in Nat : e = clock + call[t].read.left BY <1>3
<1>5. inbox' = inbox \/ inbox' = Published(t, [type |-> "session-renewed", expires |-> e])
  BY <1>4 DEF ReceiveRead
<1>6. OldNews(inbox') BY <1>5, NewsSources
<1> QED BY <1>1, <1>2, <1>6, OneReadMoves

LEMMA AnswersProbe == ASSUME Before, NEW t \in Tabs, ReceiveProbe(t) PROVE Moved
<1> USE DEF Before, WInv
<1>1. PICK r \in Call, p \in Call : r = call[t].read /\ p = call[t].probe BY DEF CallsOK
<1>2. /\ p.stage = "answered" /\ Asked(r) /\ Asked(p) /\ Answered(p)
      /\ OutOfDate(p) /\ Apart(r, p) /\ EndedTogether(p) /\ Heard(p)
  BY <1>1 DEF ReceiveProbe, CallsHonest, Calm, CallsInOrder
<1>3. /\ clock' = clock /\ call'[t].read = r
      /\ \A o \in Tabs : o # t => tab'[o] = tab[o] /\ call'[o].read = call[o].read
  BY <1>1 DEF ReceiveProbe, Confirm, sessionVars, CallsOK, BrowserTyped
<1>4. /\ clock \in Nat /\ Latency \in Nat /\ r.at \in Nat /\ p.left \in Nat /\ p.of \in Cookies
      /\ p.capped \in BOOLEAN /\ tab[t] \in Tab /\ tab \in [Tabs -> Tab]
  BY WebAssumption DEF IInv, Call, BrowserTyped
<1>5. CASE p.outcome = "ok" /\ p.left > MinUseful
  <2>1. PICK q : q = SignedIn(tab[t], p.of, clock + p.left, p.capped) OBVIOUS
  <2>2. tab'[t] = q /\ inbox' = inbox BY <1>1, <1>4, <1>5, <2>1 DEF ReceiveProbe, Confirm
  <2>3. clock + p.left \in Nat BY <1>4
  <2>4. /\ tab[t].page = "app" => q.page = "app"
        /\ (q.data = tab[t].data /\ q.act = tab[t].act) \/ q.act = clock
    BY <1>4, <2>1, <2>3, SignedInAct
  <2>5. ReadMove(t) BY <1>1, <1>3, <2>2, <2>4, SameReadMoves
  <2>6. OldNews(inbox') BY <2>2, NewsSources
  <2> QED BY <1>3, <2>5, <2>6, OneReadMoves
<1>6. CASE ~(p.outcome = "ok" /\ p.left > MinUseful)
  <2>1. ReadMove(t)
    <3> SUFFICES ASSUME r.stage = "sent", r.of \in Sessions PROVE Spent(r.of, r.at)
      BY <1>3 DEF ReadMove, Harmless, Spent
    <3>1. row[r.of].place \in {"stored", "purged"} /\ r.at <= clock /\ clock <= r.at + Latency BY <1>2 DEF Asked
    <3>2. r.of = p.of \/ Outcome(r.of) # "ok" \/ Since(r.of, p.at) \/ (p.of \in Sessions /\ Since(p.of, r.at))
      BY <1>2 DEF Apart
    <3> QED BY <1>2, <1>4, <1>6, <3>1, <3>2, OutMeansSpent
  <2>2. ASSUME cookie \in Sessions PROVE Spent(cookie, clock)
    <3>1. row[cookie].place \in {"stored", "purged"} BY <2>2 DEF CookieNewest
    <3>2. cookie = p.of \/ Since(cookie, p.at) BY <1>2, <2>2 DEF OutOfDate
    <3>3. clock <= clock /\ clock <= clock + Latency BY <1>4
    <3>4. PICK s \in Sessions, at \in Nat : s = cookie /\ at = clock BY <1>4, <2>2
    <3>5. Spent(s, at) BY <1>2, <1>6, <3>1, <3>2, <3>3, <3>4, OutMeansSpent
    <3> QED BY <3>4, <3>5
  <2>3. NewsMove BY <1>3, <2>2 DEF NewsMove, Spent
  <2> QED BY <1>3, <2>1, <2>3, OneReadMoves
<1> QED BY <1>5, <1>6

LEMMA DeliversReads == ASSUME Before, NEW t \in Tabs, Deliver(t) PROVE Moved
<1> USE DEF Before, WInv
<1>1. clock' = clock /\ clock \in Nat /\ inbox[t] # <<>> /\ inbox[t] \in Seq(Messages) /\ inbox \in [Tabs -> Seq(Messages)]
      /\ tab[t] \in Tab /\ tab \in [Tabs -> Tab]
  BY DEF Deliver, sessionVars, BrowserTyped, IInv
<1>2. CASE Head(inbox[t]).type = "session-renewed"
  <2>1. call' = call /\ inbox' = [inbox EXCEPT ![t] = Tail(inbox[t])] BY <1>1, <1>2 DEF Deliver
  <2>2. OldNews(inbox') BY <1>1, <2>1, NewsSources, NewsCut
  <2>3. PICK e : e = Head(inbox[t]).expires OBVIOUS
  <2>4. e \in Nat
    <3>1. Head(inbox[t]) \in Messages BY <1>1, TailTells
    <3> QED BY <1>2, <2>3, <3>1 DEF Messages
  <2>5. PICK q : q = SignedIn(tab[t], tab[t].of, e, tab[t].capped) OBVIOUS
  <2>6. /\ tab'[t] = tab[t] \/ tab'[t] = q
        /\ \A o \in Tabs : o # t => tab'[o] = tab[o]
    BY <1>1, <1>2, <2>3, <2>5 DEF Deliver
  <2>7. tab[t].of \in Cookies /\ tab[t].capped \in BOOLEAN BY <1>1 DEF Tab
  <2>8. /\ tab[t].page = "app" => q.page = "app"
        /\ (q.data = tab[t].data /\ q.act = tab[t].act) \/ q.act = clock
    BY <1>1, <2>4, <2>5, <2>7, SignedInAct
  <2>9. ReadMove(t) BY <2>1, <2>6, <2>8, SameReadMoves
  <2> QED BY <1>1, <2>1, <2>2, <2>6, <2>9, OneReadMoves
<1>3. CASE Head(inbox[t]).type # "session-renewed"
  <2>1. /\ tab' = tab /\ call'[t].read = Sent(cookie, FALSE)
        /\ \A o \in Tabs : o # t => call'[o].read = call[o].read
        /\ inbox' = [RenewalOver(t) EXCEPT ![t] = Tail(@)]
    BY <1>1, <1>3 DEF Deliver, CallsOK
  <2>2. /\ RenewalOver(t) \in [Tabs -> Seq(Messages)] /\ RenewalOver(t)[t] = inbox[t]
        /\ OldNews(RenewalOver(t))
    BY Sources, NewsSources DEF Sourced
  <2>3. inbox' = [RenewalOver(t) EXCEPT ![t] = Tail(RenewalOver(t)[t])] BY <2>1, <2>2
  <2>4. OldNews(inbox') BY <1>1, <2>2, <2>3, NewsCut
  <2>5. AsksAgain(inbox[t])
    <3>1. 1 \in DOMAIN inbox[t] /\ Head(inbox[t]) = inbox[t][1] BY <1>1
    <3> QED BY <1>3, <3>1 DEF AsksAgain
  <2>6. logout # NoSession \/ Spent(cookie, clock) BY <2>5 DEF Calm, NewsHarmless
  <2>7. Sent(cookie, FALSE).of = cookie /\ Sent(cookie, FALSE).at = clock BY DEF Sent, NoCall
  <2>8. ReadMove(t) BY <2>1, <2>6, <2>7 DEF ReadMove, Harmless, Calm, CookieWorks
  <2> QED BY <1>1, <2>1, <2>4, <2>8, OneReadMoves
<1> QED BY <1>2, <1>3

LEMMA PersonReads == ASSUME Before, NEW t \in Tabs, Person(t) PROVE Moved
<1> USE DEF Before, WInv
<1>0. /\ clock \in Nat /\ ActivityWindow \in Nat /\ tab[t] \in Tab /\ tab \in [Tabs -> Tab]
      /\ inbox \in [Tabs -> Seq(Messages)] /\ OldNews(inbox) /\ OldNews(RenewalOver(t))
  BY WebAssumption, NewsSources DEF IInv, BrowserTyped
<1>1. ASSUME NEW s, Load(t, s), clock' = clock PROVE Moved
  <2>1. PICK r : r = [Away EXCEPT !.page = "app"] OBVIOUS
  <2>2. r.page = "app" /\ r.data = "pending" BY <2>1 DEF Away
  <2>3. /\ tab'[t] = r /\ inbox' = [inbox EXCEPT ![t] = <<>>]
        /\ \A o \in Tabs : o # t => tab'[o] = tab[o] /\ call'[o].read = call[o].read
    BY <1>0, <1>1, <2>1 DEF Load, CallsOK
  <2>4. ReadMove(t) BY <2>2, <2>3 DEF ReadMove, Attended
  <2>5. OldNews(inbox') BY <1>0, <2>3, NewsCut
  <2> QED BY <1>1, <2>3, <2>4, <2>5, OneReadMoves
<1>2. CASE OpenTab(t) BY <1>1, <1>2 DEF OpenTab, sessionVars
<1>3. ASSUME NEW s \in Sessions, Arrive(t, s) PROVE Moved
  BY <1>1, <1>3 DEF Arrive, CreateSession
<1>12. ASSUME NEW s \in Sessions, SignIn(t, s) PROVE Moved
  <2>1. /\ clock' = clock /\ call'[t].read = NoCall /\ inbox' = [inbox EXCEPT ![t] = <<>>]
        /\ \A o \in Tabs : o # t => tab'[o] = tab[o] /\ call'[o].read = call[o].read
    BY <1>0, <1>12 DEF SignIn, Admit, CallsOK
  <2>2. ReadMove(t) BY <2>1 DEF ReadMove, NoCall
  <2>3. OldNews(inbox') BY <1>0, <2>1, NewsCut
  <2> QED BY <2>1, <2>2, <2>3, OneReadMoves
<1>4. CASE Retry(t)
  <2>1. /\ clock' = clock /\ tab' = tab /\ inbox' = RenewalOver(t)
        /\ \A o \in Tabs : o # t => call'[o].read = call[o].read
    BY <1>4 DEF Retry, Refetch, sessionVars, CallsOK
  <2>2. ReadMove(t) BY <1>4, <2>1 DEF Retry, ReadMove, Attended
  <2> QED BY <1>0, <2>1, <2>2, OneReadMoves
<1>5. ASSUME NEW r, tab' = [tab EXCEPT ![t] = r], r.page = tab[t].page, r.data = tab[t].data, r.act = clock,
             clock' = clock, inbox' = inbox, call' = call
      PROVE  Moved
  <2>1. tab'[t] = r /\ \A o \in Tabs : o # t => tab'[o] = tab[o] BY <1>0, <1>5
  <2>2. ReadMove(t) BY <1>5, <2>1, SameReadMoves
  <2> QED BY <1>0, <1>5, <2>1, <2>2, OneReadMoves
<1>6. CASE Interact(t)
  <2>1. PICK r : r = [tab[t] EXCEPT !.act = clock] OBVIOUS
  <2>2. r.page = tab[t].page /\ r.data = tab[t].data /\ r.act = clock BY <1>0, <2>1 DEF Tab
  <2>3. tab' = [tab EXCEPT ![t] = r] BY <1>0, <1>6, <2>1 DEF Interact
  <2> QED BY <1>5, <1>6, <2>2, <2>3 DEF Interact, sessionVars
<1>7. CASE DismissWarning(t)
  <2>1. PICK r : r = [tab[t] EXCEPT !.dismissed = TRUE, !.warning = FALSE, !.act = clock] OBVIOUS
  <2>2. r.page = tab[t].page /\ r.data = tab[t].data /\ r.act = clock BY <1>0, <2>1 DEF Tab
  <2>3. tab' = [tab EXCEPT ![t] = r] BY <1>0, <1>7, <2>1 DEF DismissWarning
  <2> QED BY <1>5, <1>7, <2>2, <2>3 DEF DismissWarning, sessionVars
<1>8. CASE ComeBack(t)
  <2>1. PICK r : r = [tab[t] EXCEPT !.due = TRUE] OBVIOUS
  <2>2. PICK c : c = [Sent(cookie, FALSE) EXCEPT !.shown = TRUE] OBVIOUS
  <2>3. r.page = "app" /\ c.shown BY <1>0, <1>8, <2>1, <2>2 DEF ComeBack, Watching, Tab, Sent, NoCall
  <2>4. /\ clock' = clock /\ inbox' = inbox /\ tab'[t] = r /\ call'[t].read = c
        /\ \A o \in Tabs : o # t => tab'[o] = tab[o] /\ call'[o].read = call[o].read
    BY <1>0, <1>8, <2>1, <2>2 DEF ComeBack, sessionVars, CallsOK
  <2>5. ReadMove(t) BY <2>3, <2>4 DEF ReadMove, Attended
  <2> QED BY <1>0, <2>4, <2>5, OneReadMoves
<1>9. CASE PageRequest(t) BY <1>9, QuietReadMoves DEF PageRequest, Authenticate
<1>10. CASE StaySignedIn(t)
  <2>1. PICK r : r = [tab[t] EXCEPT !.act = clock, !.dismissed = FALSE, !.renewAt = clock] OBVIOUS
  <2>2. r.page = "app" /\ r.act = clock BY <1>0, <1>10, <2>1 DEF StaySignedIn, Watching, Tab
  <2>3. /\ clock' = clock /\ inbox' = RenewalOver(t) /\ tab'[t] = r /\ call'[t].read = Sent(cookie, TRUE)
        /\ \A o \in Tabs : o # t => tab'[o] = tab[o] /\ call'[o].read = call[o].read
    BY <1>0, <1>10, <2>1 DEF StaySignedIn, Refetch, sessionVars, CallsOK
  <2>4. Sent(cookie, TRUE).at = clock BY DEF Sent, NoCall
  <2>5. Attended(tab'[t], call'[t].read)
    <3>1. clock <= clock + ActivityWindow BY <1>0
    <3>2. Attended(r, Sent(cookie, TRUE)) BY <2>2, <2>4, <3>1 DEF Attended
    <3> QED BY <2>3, <3>2
  <2>6. ReadMove(t) BY <2>5 DEF ReadMove
  <2> QED BY <1>0, <2>3, <2>6, OneReadMoves
<1>11. CASE SignOut(t)
  <2>1. /\ clock' = clock /\ logout' # NoSession /\ call'[t].read.stage = "none"
        /\ \A o \in Tabs : o # t => tab'[o] = tab[o] /\ call'[o].read = call[o].read
    BY <1>11 DEF SignOut, sessionVars, CallsOK, BrowserTyped, NoCall
  <2>2. ReadMove(t) /\ NewsMove BY <2>1 DEF ReadMove, NewsMove
  <2> QED BY <2>1, <2>2, OneReadMoves
<1> QED BY <1>2, <1>3, <1>4, <1>6, <1>7, <1>8, <1>9, <1>10, <1>11, <1>12 DEF Person

LEMMA PassReads == ASSUME Before, Pass PROVE Moved
<1> USE DEF Before, WInv
<1>1. ASSUME NEW t \in Tabs PROVE ReadMove(t)
  <2>1. PICK c \in Call : c = call[t].read BY DEF CallsOK
  <2>0. call' = call BY DEF Pass
  <2> SUFFICES ASSUME c.stage = "sent", Attended(tab[t], c) PROVE Attended(tab'[t], c)
    BY <2>0, <2>1 DEF ReadMove, Calm, ReadsJustified
  <2>2. clock < c.at + Latency /\ c.at \in Nat /\ clock \in Nat /\ Latency \in Nat /\ ActivityWindow \in Nat
        /\ RenewWithin \in Nat /\ tab[t] \in Tab /\ tab[t].act \in Int
    BY <2>1, WebAssumption DEF Pass, IInv, Call, BrowserTyped, Tab
  <2> DEFINE a == Recent(tab[t].act, Later(RenewWithin, ActivityWindow + Latency))
  <2>3. PICK b, n : tab'[t] = [tab[t] EXCEPT !.due = b, !.act = a, !.renewAt = n] BY DEF Pass
  <2>4. tab'[t].page = tab[t].page /\ tab'[t].data = tab[t].data /\ tab'[t].act = a BY <2>2, <2>3 DEF Tab
  <2>5. ASSUME c.at <= tab[t].act + ActivityWindow PROVE a = tab[t].act
    <3>1. clock - tab[t].act < ActivityWindow + Latency BY <2>2, <2>5
    <3>2. clock - tab[t].act < Later(RenewWithin, ActivityWindow + Latency) BY <2>2, <3>1 DEF Later
    <3> QED BY <3>2 DEF Recent
  <2> HIDE DEF a
  <2> QED BY <2>4, <2>5 DEF Attended
<1>2. \A t \in Tabs : inbox'[t] = <<>> BY DEF Pass
<1>3. \A t \in Tabs : ~AsksAgain(inbox'[t]) BY <1>2 DEF AsksAgain
<1>4. NewsMove BY <1>3 DEF NewsMove
<1> QED BY <1>1, <1>4 DEF Moved

LEMMA AllReadMoves == ASSUME Before, mishaps' = 0, [Next]_vars PROVE Moved
<1> USE DEF Before, WInv
<1>1. ASSUME NEW t \in Tabs, ServeRead(t) PROVE Moved
  <2>0. call[t].read \in Call BY DEF CallsOK
  <2>3. Answer(call[t].read).stage = "answered" BY <2>0 DEF Answer, Call
  <2>1. /\ clock' = clock /\ UNCHANGED <<tab, inbox>> /\ call'[t].read.stage = "answered"
        /\ \A o \in Tabs : o # t => call'[o].read = call[o].read
    BY <1>1, <2>3 DEF ServeRead, Serve, Authenticate, CallsOK
  <2>2. ReadMove(t) /\ OldNews(inbox') BY <2>1, NewsSources DEF ReadMove
  <2> QED BY <2>1, <2>2, OneReadMoves
<1>2. ASSUME NEW t \in Tabs, ServeProbe(t) PROVE Moved
  <2>1. clock' = clock /\ UNCHANGED <<tab, inbox>> /\ \A o \in Tabs : call'[o].read = call[o].read
    BY <1>2 DEF ServeProbe, Serve, Authenticate, CallsOK
  <2> QED BY <2>1, QuietReadMoves
<1>3. ~Mishap BY DEF Mishap
<1>4. CASE ServeLogout \/ Elsewhere \/ UNCHANGED vars
  <2>1. clock' = clock /\ UNCHANGED <<tab, inbox, call>>
    BY <1>4 DEF ServeLogout, SignOutEverywhere, Elsewhere, Deactivate, Reactivate, PurgeExpired, vars, sessionVars
  <2> QED BY <2>1, QuietReadMoves
<1>5. ASSUME NEW t \in Tabs, TabStep(t) PROVE Moved
  BY <1>1, <1>2, <1>5, EvaluateReads, AnswersRead, AnswersProbe, DeliversReads DEF TabStep
<1> QED BY <1>3, <1>4, <1>5, PersonReads, PassReads DEF Next, FailRead, FailProbe

-----------------------------------------------------------------------------
LEMMA XInvInit == Init => XInv
<1> SUFFICES ASSUME Init PROVE Calm BY DEF XInv
<1>1. CalmRows BY DEF Init, SessionsInit, CalmRows
<1>2. CookieWorks BY SessionsAssumption DEF Init, SessionsInit, CookieWorks, Outcome
<1>3. /\ NoCall.stage = "none"
      /\ \A t \in Tabs : call[t].read = NoCall /\ call[t].probe = NoCall /\ inbox[t] = <<>>
  BY DEF Init, NoCall
<1>4. CallsInOrder
  BY <1>3 DEF CallsInOrder, OutOfDate, Apart, EndedTogether, Heard
<1>5. ReadsJustified /\ NewsHarmless BY <1>3 DEF ReadsJustified, NewsHarmless, AsksAgain
<1> QED BY <1>1, <1>2, <1>4, <1>5 DEF Calm

(* Mishaps are counted, never uncounted.                                     *)
LEMMA MishapsGrow == ASSUME mishaps \in Nat, [Next]_vars PROVE mishaps' >= mishaps
<1>1. Mishap => mishaps' >= mishaps BY DEF Mishap
<1>2. UNCHANGED mishaps => mishaps' >= mishaps OBVIOUS
<1>3. ASSUME NEW t \in Tabs, TabStep(t) PROVE UNCHANGED mishaps
  BY <1>3 DEF TabStep, Evaluate, ServeRead, ServeProbe, ReceiveRead, ReceiveProbe, Deliver
<1>4. ASSUME NEW t \in Tabs, Person(t) PROVE UNCHANGED mishaps
  BY <1>4 DEF Person, OpenTab, SignIn, Arrive, Load, Retry, Interact, ComeBack, PageRequest, StaySignedIn,
     DismissWarning, SignOut
<1>5. ASSUME NEW t \in Tabs, FailRead(t) \/ FailProbe(t) PROVE Mishap BY <1>5 DEF FailRead, FailProbe
<1>6. CASE Elsewhere BY <1>1, <1>2, <1>6 DEF Elsewhere
<1>7. CASE ServeLogout \/ Pass \/ UNCHANGED vars BY <1>2, <1>7 DEF ServeLogout, Pass, vars
<1> QED BY <1>1, <1>2, <1>3, <1>4, <1>5, <1>6, <1>7 DEF Next

LEMMA XInvNext == IInv /\ CallsOK /\ WInv /\ XInv /\ [Next]_vars => XInv'
<1> SUFFICES ASSUME IInv, CallsOK, WInv, XInv, [Next]_vars, mishaps' = 0 PROVE Calm'
  BY DEF XInv
<1>1. [SessionsNext]_sessionVars BY BrowserSteps
<1>2. IInv' /\ CallsOK' /\ WInv' BY WInvNext
<1>3. mishaps = 0 /\ Calm
  <2>1. mishaps \in Nat BY DEF WInv, BrowserTyped
  <2>2. mishaps' >= mishaps BY <2>1, MishapsGrow
  <2> QED BY <2>1, <2>2 DEF XInv
<1>4. status' = "active" /\ (Served \/ Begun \/ Steady) BY <1>3, CalmSteps DEF Calm, CalmRows
<1>5. CalmRows' BY <1>1, <1>2, <1>3, <1>4, CalmRowsStep DEF WInv, Calm
<1>6. CookieWorks' BY <1>1, <1>2, <1>3, <1>4, CookieWorksStep DEF WInv, Calm, CallsOK
<1>7. Before BY <1>3 DEF Before
<1>8. Onward BY <1>1, <1>2, <1>4, <1>5, <1>6, <1>7 DEF Onward
<1>9. Moved BY <1>7, AllReadMoves
<1>10. CallsInOrder' /\ ReadsJustified' /\ NewsHarmless'
  BY <1>8, <1>9, CallsInOrderStep, ReadsJustifiedStep, NewsHarmlessStep DEF Moved
<1> QED BY <1>5, <1>6, <1>10 DEF Calm

LEMMA CalmInvariance == Spec => [](IInv /\ CallsOK /\ WInv /\ XInv)
BY WInvInit, WInvNext, XInvInit, XInvNext, PTL DEF Spec

(* The stamp moves only by a touch of a session that works.                  *)
Touched(s) == Outcome(s) = "ok" /\ clock - row[s].lastActive >= Resolution

(* A deadline rises by nothing but a touch.                                  *)
LEMMA RisesByTouch ==
    ASSUME IInv, NEW s \in Sessions, row[s].place = "stored", Deadline(s)' > Deadline(s),
           NEW r, NEW touch \in BOOLEAN, Authenticate(r, touch)
    PROVE  r = s /\ touch /\ Touched(s)
<1>0. Deadline(s) \in Nat BY SessionsAssumption DEF IInv, Deadline, IdleDeadline, Sooner
<1>1. ~(row' = row)
  <2>1. row' = row => Deadline(s)' = Deadline(s) BY DEF Deadline, IdleDeadline
  <2> QED BY <1>0, <2>1
<1>2. row' = [row EXCEPT ![r].lastActive = clock] /\ Touches(r, touch) BY <1>1 DEF Authenticate
<1>3. r = s
  <2>1. ASSUME r # s PROVE row'[s] = row[s] BY <1>2, <2>1 DEF IInv
  <2>2. ASSUME row'[s] = row[s] PROVE FALSE BY <2>2, SessionsAssumption DEF Deadline, IdleDeadline, Sooner, IInv
  <2> QED BY <2>1, <2>2
<1> QED BY <1>2, <1>3 DEF Touches, Touched

(* Other steps leave the deadlines of rows in use where they are.            *)
LEMMA RisesByRequest ==
    ASSUME IInv, WInv, NEW s \in Sessions, row[s].place = "stored", Deadline(s)' > Deadline(s), [Next]_vars
    PROVE  \E t \in Tabs : ServeRead(t) \/ ServeProbe(t) \/ PageRequest(t)
<1> DEFINE Goal == \E t \in Tabs : ServeRead(t) \/ ServeProbe(t) \/ PageRequest(t)
<1>1. Deadline(s) \in Nat /\ ~(Deadline(s)' = Deadline(s))
  <2>1. Deadline(s) \in Nat BY SessionsAssumption DEF IInv, Deadline, IdleDeadline, Sooner
  <2> QED BY <2>1
<1>2. ~(row'[s].absolute = row[s].absolute /\ row'[s].lastActive = row[s].lastActive)
  BY <1>1 DEF Deadline, IdleDeadline
<1>3. ~UNCHANGED row BY <1>2
<1>4. ~(row' = Revoked) BY <1>2, RevokedRows DEF IInv
<1>5. ASSUME NEW r, SignOutEverywhere(r) PROVE FALSE BY <1>3, <1>4, <1>5 DEF SignOutEverywhere
<1>6. ASSUME NEW S \in SUBSET Sessions, row'[s] = Purged(S)[s] PROVE FALSE
  BY <1>2, <1>6 DEF Purged, IInv
<1>7. ASSUME NEW t \in Tabs, TabStep(t) PROVE Goal
  BY <1>3, <1>7 DEF TabStep, Evaluate, ReceiveRead, ReceiveProbe, Confirm, Deliver, sessionVars
<1>8. ASSUME NEW t \in Tabs, Person(t) PROVE Goal
  <2>1. ASSUME NEW r \in Sessions, Arrive(t, r) PROVE FALSE
    <3> DEFINE S == {x \in Sessions : PastRetention(x)}
    <3>1. r # s /\ row'[s] = Purged(S)[s] BY <2>1 DEF Arrive, CreateSession, Purged
    <3> QED BY <1>6, <3>1
  <2>2. ASSUME NEW r \in Sessions, SignIn(t, r) PROVE FALSE
    BY <1>2, <2>2 DEF SignIn, Admit, IInv
  <2> QED BY <1>3, <1>8, <2>1, <2>2 DEF Person, OpenTab, Retry, Interact, ComeBack, StaySignedIn, DismissWarning,
      SignOut, sessionVars
<1>9. ASSUME NEW t \in Tabs, FailRead(t) \/ FailProbe(t) PROVE FALSE
  BY <1>3, <1>9 DEF FailRead, FailProbe, Confirm, sessionVars
<1>10. CASE ServeLogout BY <1>5, <1>10 DEF ServeLogout
<1>11. CASE Elsewhere
  <2>1. ASSUME NEW S \in SUBSET Sessions, PurgeExpired(S) PROVE FALSE BY <1>6, <2>1 DEF PurgeExpired
  <2> QED BY <1>3, <1>4, <1>5, <1>11, <2>1 DEF Elsewhere, Deactivate, Reactivate
<1>12. ~Pass /\ ~UNCHANGED vars BY <1>3 DEF Pass, Tick, vars, sessionVars
<1> QED BY <1>7, <1>8, <1>9, <1>10, <1>11, <1>12 DEF Next

(* Somebody is there.                                                        *)
Present(t) == tab[t].page = "app" /\
    (\/ tab[t].data = "pending" \/ call[t].read.shown
     \/ clock - tab[t].act <= ActivityWindow + Latency)
Extended(s) ==
    /\ logout = NoSession /\ mishaps = 0 /\ row[s].place = "stored" /\ call' # call
    /\ Deadline(s) > clock + MinUseful /\ Deadline(s)' > Deadline(s)

LEMMA ExtendedByPresent ==
    ASSUME IInv, CallsOK, WInv, XInv, [Next]_vars, NEW s \in Sessions, Extended(s)
    PROVE  \E t \in Tabs : Present(t)
<1> USE DEF WInv, Extended
<1>0. /\ clock \in Nat /\ Latency \in Nat /\ ActivityWindow \in Nat /\ MinUseful \in Nat /\ Resolution \in Nat
      /\ row[s] \in Row /\ 2 * Latency < Resolution
  BY SessionsAssumption, WebAssumption, TimesAssumption DEF IInv
<1>1. PICK t \in Tabs : ServeRead(t) \/ ServeProbe(t) \/ PageRequest(t) BY RisesByRequest
<1>2. tab[t] \in Tab BY DEF BrowserTyped
<1>3. tab[t].act \in Int BY <1>2 DEF Tab
<1>4. ~ServeProbe(t) BY RisesByTouch DEF ServeProbe, Serve
<1>5. ~PageRequest(t) BY DEF PageRequest
<1>6. CASE ServeRead(t)
  <2>1. PICK c \in Call : c = call[t].read BY DEF CallsOK
  <2>2. c.stage = "sent" /\ c.of = s /\ Touched(s) BY <1>6, <2>1, RisesByTouch DEF ServeRead, Serve
  <2>3. c.at \in Nat /\ c.at <= clock /\ clock <= c.at + Latency
    BY <2>1, <2>2 DEF CallsHonest, Asked, Call
  <2>4. ~Harmless(c)
    <3>1. Outcome(s) = "ok" /\ clock - row[s].lastActive >= Resolution BY <2>2 DEF Touched
    <3>2. ~(c.at <= row[s].lastActive + Latency) BY <1>0, <2>3, <3>1
    <3>3. Deadline(s) \in Nat BY <1>0, SessionsAssumption DEF Deadline, IdleDeadline, Sooner
    <3>4. ~(Deadline(s) <= clock + MinUseful) BY <1>0, <3>3
    <3> QED BY <2>2, <3>1, <3>2, <3>4 DEF Harmless, Spent
  <2>5. Attended(tab[t], c) BY <2>1, <2>2, <2>4 DEF XInv, Calm, ReadsJustified
  <2>6. c.at <= tab[t].act + ActivityWindow => clock - tab[t].act <= ActivityWindow + Latency
    BY <1>0, <1>3, <2>3
  <2> QED BY <2>1, <2>5, <2>6 DEF Attended, Present
<1> QED BY <1>1, <1>4, <1>5, <1>6

(* While requests come back, what tabs ask about the session extends it only *)
(* for somebody who is there: never the check at zero, the answer to another *)
(* tab's news or a request of the session before, for any limits of the kind *)
(* the code sets.  What a page asks for itself is not held back.             *)
THEOREM ExtensionTheorem == Spec => ExtendedForSomebody
<1> DEFINE Kept == \A s \in Sessions : Extended(s) => \E t \in Tabs : Present(t)
<1>1. IInv /\ CallsOK /\ WInv /\ XInv /\ [Next]_vars => [Kept]_vars BY ExtendedByPresent
<1>2. Spec => [][Kept]_vars BY <1>1, CalmInvariance, PTL DEF Spec
<1> QED BY <1>2 DEF ExtendedForSomebody, Extended, Present
=============================================================================
