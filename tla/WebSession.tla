----------------------------- MODULE WebSession -----------------------------
(* The tabs of one browser over Sessions: the cached session query           *)
(* (web/src/hooks/useAuth.ts), the countdown (useSessionLifecycle.ts,        *)
(* SessionSentinel.tsx), messages between tabs (lib/authChannel.ts), sign-in *)
(* and sign-out.  A request is sent, served and answered in three steps.     *)
EXTENDS Sessions, Sequences

CONSTANTS
    Tabs,
    PromptTabs,     \* tabs whose timer is not throttled in the background
    RenewWithin, WarnBefore, ActivityWindow, Cooldown, MinUseful,
    Latency,        \* the client gives a request up after this long
    MaxMishaps      \* bound: failing requests and what others do to the session

ASSUME WebAssumption ==
    /\ PromptTabs \subseteq Tabs
    /\ {RenewWithin, WarnBefore, ActivityWindow, Cooldown, MinUseful, Latency, MaxMishaps} \subseteq Nat
(* An answer takes less than half the resolution of the stamp (15 s of 60 s), *)
(* and a new session has a useful rest when the first answer about it comes. *)
ASSUME TimesAssumption ==
    /\ 2 * Latency < Resolution
    /\ MinUseful + Latency < IdleTTL /\ MinUseful + Latency < AbsoluteTTL

VARIABLES
    cookie,         \* the browser's one session cookie
    hint,           \* localStorage knows who signed in last
    logout,         \* the cookie of a sign-out on its way, or NoSession
    tab, call, inbox,
    mishaps

vars == <<sessionVars, cookie, hint, logout, tab, call, inbox, mishaps>>

Cookies == Sessions \cup {NoSession}

Call == [stage : {"none", "sent", "answered"}, at : Nat, of : Cookies, renewing : BOOLEAN,
         shown : BOOLEAN, outcome : Outcomes, left : Nat, capped : BOOLEAN]
NoCall == [stage |-> "none", at |-> 0, of |-> NoSession, renewing |-> FALSE,
           shown |-> FALSE, outcome |-> "none", left |-> 0, capped |-> FALSE]
Sent(s, renewing) ==
    [NoCall EXCEPT !.stage = "sent", !.at = clock, !.of = s, !.renewing = renewing]

(* page: the app, the login page with or without a reason, or no document.   *)
Tab == [page : {"app", "login", "notice", "away"}, data : {"pending", "in", "out"},
        of : Cookies, expires : Nat, capped : BOOLEAN, act : Int, renewAt : Int,
        dismissed : BOOLEAN, expiring : BOOLEAN, warning : BOOLEAN, due : BOOLEAN]
LongAgo == 0 - (ActivityWindow + Cooldown + 1)
Away == [page |-> "away", data |-> "pending", of |-> NoSession, expires |-> 0,
         capped |-> FALSE, act |-> LongAgo, renewAt |-> LongAgo, dismissed |-> FALSE,
         expiring |-> FALSE, warning |-> FALSE, due |-> FALSE]

Messages == [type : {"signed-out", "session-ended"}] \cup
            [type : {"session-renewed"}, expires : Nat]

TypeOK ==
    /\ SessionsTypeOK
    /\ cookie \in Cookies /\ logout \in Cookies /\ hint \in BOOLEAN
    /\ tab \in [Tabs -> Tab]
    /\ \A t \in Tabs : call[t].read \in Call /\ call[t].probe \in Call
                    /\ \A i \in DOMAIN inbox[t] : inbox[t][i] \in Messages
    /\ mishaps \in 0 .. MaxMishaps

Watching(t) == tab[t].page = "app" /\ tab[t].data = "in"
Later(a, b) == IF a >= b THEN a ELSE b

-----------------------------------------------------------------------------
(* Pieces of the handlers.                                                   *)

(* A message reaches every other tab that has a document, never its sender.  *)
Published(t, m) == [o \in Tabs |->
    IF o # t /\ tab[o].page # "away" THEN Append(inbox[o], m) ELSE inbox[o]]

(* A new session object: the effect starts over, flags and timer.  A tab     *)
(* that did not watch a session mounts the sentinel, which counts as         *)
(* activity; a login page that gives a reason stays where it is.             *)
GuestPage(r) == IF r.page = "login" THEN "app" ELSE r.page
SignedIn(r, s, expires, capped) ==
    LET mounted == r.page = "app" /\ r.data = "in"  page == GuestPage(r) IN
    [(IF mounted THEN r ELSE Away) EXCEPT
        !.page = page, !.data = "in", !.of = s, !.expires = expires, !.capped = capped,
        !.act = IF mounted THEN @ ELSE clock, !.dismissed = FALSE, !.expiring = FALSE,
        !.due = page = "app"]
(* ProtectedRoute leaves for the login page, which unmounts the sentinel.    *)
SignedOut(r, outcome) ==
    [Away EXCEPT !.data = "out",
        !.page = IF r.page = "notice" \/ outcome # "not_signed_in" \/ hint
                 THEN "notice" ELSE "login"]

(* A renewal whose fetch was dropped or failed goes on with the data it has. *)
RenewalOver(t) ==
    IF call[t].read.renewing /\ tab[t].data = "in"
    THEN Published(t, [type |-> "session-renewed", expires |-> tab[t].expires]) ELSE inbox

(* refetch() and invalidateQueries() drop the fetch before them.             *)
Refetch(t, renewing) ==
    /\ call' = [call EXCEPT ![t].read = Sent(cookie, renewing)]
    /\ inbox' = RenewalOver(t)

Serve(c, touch) ==
    /\ c.stage = "sent"
    /\ Authenticate(c.of, touch)
Answer_IdleOnly(c) ==
    LET ok == Outcome(c.of)' = "ok" IN
    [c EXCEPT !.stage = "answered", !.outcome = Outcome(c.of)',
              !.left = IF ok THEN IdleDeadline(c.of)' - clock ELSE 0,
              !.capped = ok /\ Capped(c.of)']
Answer(c) ==
    LET ok == Outcome(c.of)' = "ok" IN
    [c EXCEPT !.stage = "answered", !.outcome = Outcome(c.of)',
              !.left = IF ok THEN Deadline(c.of)' - clock ELSE 0,
              !.capped = ok /\ Capped(c.of)']

-----------------------------------------------------------------------------
Init ==
    /\ SessionsInit
    /\ cookie = NoSession /\ hint = FALSE /\ logout = NoSession
    /\ tab = [t \in Tabs |-> Away]
    /\ call = [t \in Tabs |-> [read |-> NoCall, probe |-> NoCall]]
    /\ inbox = [t \in Tabs |-> <<>>]
    /\ mishaps = 0

(* The document is loaded: the session query is empty and asks.  After a     *)
(* sign-in the callback has set the cookie.                                  *)
Load(t, s) ==
    /\ tab' = [tab EXCEPT ![t] = [Away EXCEPT !.page = "app"]]
    /\ call' = [call EXCEPT ![t] = [read |-> Sent(s, FALSE), probe |-> NoCall]]
    /\ inbox' = [inbox EXCEPT ![t] = <<>>]
    /\ UNCHANGED <<hint, logout, mishaps>>
OpenTab(t) == tab[t].page = "away" /\ Load(t, cookie) /\ UNCHANGED <<sessionVars, cookie>>
(* The tab goes to Auth0 and to the callback, which answers with the cookie  *)
(* when it has inserted the row.                                             *)
SignIn(t, s) ==
    /\ tab[t].page # "app"
    /\ clock + AbsoluteTTL + Latency < MaxClock     \* bound: it ends in time
    /\ Admit(s)
    /\ tab' = [tab EXCEPT ![t] = Away]
    /\ call' = [call EXCEPT ![t] = [read |-> NoCall, probe |-> NoCall]]
    /\ inbox' = [inbox EXCEPT ![t] = <<>>]
    /\ UNCHANGED <<cookie, hint, logout, mishaps>>
Arrive(t, s) ==
    /\ tab[t].page = "away" /\ logout = NoSession
    /\ clock + AbsoluteTTL + Latency < MaxClock     \* bound: it ends in time
    /\ CreateSession(s) /\ cookie' = s
    /\ Load(t, s)
(* The button of the error page, where the first read failed.                *)
Retry(t) ==
    /\ tab[t].page = "app" /\ tab[t].data = "pending" /\ call[t].read = NoCall
    /\ Refetch(t, FALSE)
    /\ UNCHANGED <<sessionVars, cookie, hint, logout, tab, mishaps>>

(* pointerdown, keydown, wheel, touchstart.                                  *)
Interact(t) ==
    /\ Watching(t) /\ tab[t].act # clock
    /\ tab' = [tab EXCEPT ![t].act = clock]
    /\ UNCHANGED <<sessionVars, cookie, hint, logout, call, inbox, mishaps>>
(* The document becomes visible again: the timer runs, and the query asks.   *)
ComeBack(t) ==
    /\ Watching(t) /\ call[t].read = NoCall
    /\ tab[t].act = LongAgo /\ ~tab[t].due         \* bound: to a tab left alone
    /\ tab' = [tab EXCEPT ![t].due = TRUE]
    /\ call' = [call EXCEPT ![t].read = [Sent(cookie, FALSE) EXCEPT !.shown = TRUE]]
    /\ UNCHANGED <<sessionVars, cookie, hint, logout, inbox, mishaps>>
(* A page asks for what it shows, also at intervals with nobody there: the   *)
(* detector's status every minute, a batch's progress.                       *)
PageRequest(t) ==
    /\ Watching(t) /\ Touches(cookie, TRUE)
    /\ Authenticate(cookie, TRUE)
    /\ UNCHANGED <<cookie, hint, logout, tab, call, inbox, mishaps>>

(* One pass of the effect's timer.                                           *)
MsLeft(t) == tab[t].expires - clock
Expire(t) ==
    /\ MsLeft(t) <= 0 /\ ~tab[t].expiring
    /\ tab' = [tab EXCEPT ![t].warning = FALSE, ![t].expiring = TRUE, ![t].due = FALSE]
    /\ call' = [call EXCEPT ![t].probe = Sent(cookie, FALSE)]
    /\ UNCHANGED inbox
AwaitConfirmation(t) ==
    /\ MsLeft(t) <= 0 /\ tab[t].expiring
    /\ tab' = [tab EXCEPT ![t].warning = FALSE, ![t].due = FALSE]
    /\ UNCHANGED <<call, inbox>>
Renewable_Unattended(t) ==
    /\ ~tab[t].capped /\ MsLeft(t) \in 1 .. RenewWithin
    /\ clock - tab[t].renewAt >= Cooldown
Renewable(t) ==
    /\ ~tab[t].capped /\ MsLeft(t) \in 1 .. RenewWithin
    /\ clock - tab[t].act <= ActivityWindow
    /\ clock - tab[t].renewAt >= Cooldown
Renew(t) ==
    /\ Renewable(t) /\ ~call[t].read.renewing
    /\ tab' = [tab EXCEPT ![t].renewAt = clock, ![t].due = FALSE]
    /\ Refetch(t, TRUE)
Warn(t) ==
    /\ MsLeft(t) > 0
    /\ ~Renewable(t) \/ call[t].read.renewing
    /\ tab' = [tab EXCEPT ![t].due = FALSE, ![t].warning =
                IF Renewable(t) THEN @
                ELSE IF MsLeft(t) <= WarnBefore THEN @ \/ ~tab[t].dismissed ELSE FALSE]
    /\ UNCHANGED <<call, inbox>>
Evaluate(t) ==
    /\ Watching(t) /\ tab[t].due
    /\ Expire(t) \/ AwaitConfirmation(t) \/ Renew(t) \/ Warn(t)
    /\ UNCHANGED <<sessionVars, cookie, hint, logout, mishaps>>

(* The two buttons of the warning.                                           *)
StaySignedIn(t) ==
    /\ Watching(t) /\ tab[t].warning /\ ~tab[t].capped /\ ~call[t].read.renewing
    /\ tab[t].renewAt # clock                      \* bound: once an instant
    /\ tab' = [tab EXCEPT ![t].act = clock, ![t].dismissed = FALSE, ![t].renewAt = clock]
    /\ Refetch(t, TRUE)
    /\ UNCHANGED <<sessionVars, cookie, hint, logout, mishaps>>
DismissWarning(t) ==
    /\ Watching(t) /\ tab[t].warning
    /\ tab' = [tab EXCEPT ![t].dismissed = TRUE, ![t].warning = FALSE, ![t].act = clock]
    /\ UNCHANGED <<sessionVars, cookie, hint, logout, call, inbox, mishaps>>

ServeRead_NoTouch(t) ==
    /\ Serve(call[t].read, FALSE)
    /\ call' = [call EXCEPT ![t].read = Answer(@)]
    /\ UNCHANGED <<cookie, hint, logout, tab, inbox, mishaps>>
ServeRead(t) ==
    /\ Serve(call[t].read, TRUE)
    /\ call' = [call EXCEPT ![t].read = Answer(@)]
    /\ UNCHANGED <<cookie, hint, logout, tab, inbox, mishaps>>
ServeProbe(t) ==
    /\ Serve(call[t].probe, FALSE)
    /\ call' = [call EXCEPT ![t].probe = Answer(@)]
    /\ UNCHANGED <<cookie, hint, logout, tab, inbox, mishaps>>

(* The answer replaces the cached data; a renewal tells the other tabs.      *)
ReceiveRead(t) ==
    LET c == call[t].read  expires == clock + c.left  ok == c.outcome = "ok" IN
    /\ c.stage = "answered"
    /\ tab' = [tab EXCEPT ![t] = IF ok THEN SignedIn(@, c.of, expires, c.capped)
                                       ELSE SignedOut(@, c.outcome)]
    /\ hint' = (hint \/ ok)
    /\ call' = [call EXCEPT ![t].read = NoCall]
    /\ inbox' = IF c.renewing /\ ok
                THEN Published(t, [type |-> "session-renewed", expires |-> expires]) ELSE inbox
    /\ UNCHANGED <<sessionVars, cookie, logout, mishaps>>

(* confirmExpiry: only a session with some time left is worth keeping.       *)
Confirm(t, c) ==
    /\ call' = [call EXCEPT ![t].probe = NoCall]
    /\ IF c.outcome = "ok" /\ c.left > MinUseful
       THEN /\ tab' = [tab EXCEPT ![t] = SignedIn(@, c.of, clock + c.left, c.capped)]
            /\ UNCHANGED inbox
       ELSE /\ tab' = [tab EXCEPT ![t] = SignedOut(@,
                        IF c.outcome = "not_signed_in" THEN c.outcome ELSE "session_expired")]
            /\ inbox' = Published(t, [type |-> "session-ended"])
    /\ UNCHANGED <<sessionVars, cookie, hint, logout>>
ReceiveProbe(t) ==
    call[t].probe.stage = "answered" /\ Confirm(t, call[t].probe) /\ UNCHANGED mishaps

(* Timeout, network or server error: the query asks again, and in the end    *)
(* keeps the data it had; the probe's caller takes it for the end.           *)
Mishap == mishaps < MaxMishaps /\ mishaps' = mishaps + 1
FailRead(t) ==
    /\ call[t].read.stage # "none" /\ Mishap
    /\ \/ /\ call' = [call EXCEPT ![t].read =
                [Sent(cookie, @.renewing) EXCEPT !.shown = call[t].read.shown]]
          /\ UNCHANGED inbox
       \/ /\ call' = [call EXCEPT ![t].read = NoCall]
          /\ inbox' = RenewalOver(t)
    /\ UNCHANGED <<sessionVars, cookie, hint, logout, tab>>
FailProbe(t) == call[t].probe.stage # "none" /\ Mishap /\ Confirm(t, NoCall)

(* A message of another tab: a renewal overwrites the deadline and nothing   *)
(* else, every other message has the session asked for again.                *)
Deliver_TakesItsWord(t) ==
    /\ inbox[t] # <<>>
    /\ tab' = [tab EXCEPT ![t] = IF Head(inbox[t]).type = "session-renewed" THEN @
                                 ELSE SignedOut(@, "session_expired")]
    /\ inbox' = [inbox EXCEPT ![t] = Tail(@)]
    /\ UNCHANGED <<sessionVars, cookie, hint, logout, call, mishaps>>
Deliver(t) ==
    LET m == Head(inbox[t]) IN
    /\ inbox[t] # <<>>
    /\ IF m.type = "session-renewed"
       THEN /\ tab' = [tab EXCEPT ![t] =
                IF @.data # "in" \/ @.expires = m.expires THEN @
                ELSE SignedIn(@, @.of, m.expires, @.capped)]
            /\ inbox' = [inbox EXCEPT ![t] = Tail(@)]
            /\ UNCHANGED call
       ELSE /\ call' = [call EXCEPT ![t].read = Sent(cookie, FALSE)]
            /\ inbox' = [RenewalOver(t) EXCEPT ![t] = Tail(@)]
            /\ UNCHANGED tab
    /\ UNCHANGED <<sessionVars, cookie, hint, logout, mishaps>>

(* SignOutForm: the others are told first, then the form navigates away.     *)
SignOut(t) ==
    /\ Watching(t) /\ logout = NoSession /\ cookie # NoSession
    /\ inbox' = [Published(t, [type |-> "signed-out"]) EXCEPT ![t] = <<>>]
    /\ logout' = cookie /\ hint' = FALSE
    /\ tab' = [tab EXCEPT ![t] = Away]
    /\ call' = [call EXCEPT ![t] = [read |-> NoCall, probe |-> NoCall]]
    /\ UNCHANGED <<sessionVars, cookie, mishaps>>
ServeLogout ==
    /\ logout # NoSession
    /\ SignOutEverywhere(logout)
    /\ cookie' = NoSession /\ logout' = NoSession
    /\ UNCHANGED <<hint, tab, call, inbox, mishaps>>

(* Another device of the user, an administrator, the daily purge.            *)
Elsewhere ==
    /\ \/ \E s \in Sessions : row[s].place = "stored" /\ ~row[s].revoked /\ SignOutEverywhere(s) /\ Mishap
       \/ Deactivate /\ Mishap
       \/ Reactivate /\ UNCHANGED mishaps
       \/ \E S \in SUBSET Sessions : PurgeExpired(S) /\ UNCHANGED mishaps
    /\ UNCHANGED <<cookie, hint, logout, tab, call, inbox>>

(* Time waits for messages, for requests the client has not given up, and    *)
(* for the timers of prompt tabs.  What is too old to matter is forgotten.   *)
Recent(at, age) == IF clock - at < age THEN at ELSE LongAgo
Pass ==
    /\ Tick /\ logout = NoSession
    /\ \A t \in Tabs :
        /\ inbox[t] = <<>>
        /\ t \in PromptTabs => ~tab[t].due
        /\ \A c \in {call[t].read, call[t].probe} : c.stage # "none" => clock < c.at + Latency
    /\ tab' = [t \in Tabs |-> [tab[t] EXCEPT !.due = Watching(t),
                !.act = Recent(@, Later(RenewWithin, ActivityWindow + Latency)),
                !.renewAt = Recent(@, Cooldown)]]
    /\ UNCHANGED <<cookie, hint, logout, call, inbox, mishaps>>

TabStep(t) ==
    \/ Evaluate(t) \/ ServeRead(t) \/ ServeProbe(t) \/ ReceiveRead(t) \/ ReceiveProbe(t)
    \/ Deliver(t)
Person(t) ==
    \/ OpenTab(t) \/ Retry(t) \/ Interact(t) \/ ComeBack(t) \/ PageRequest(t)
    \/ StaySignedIn(t) \/ DismissWarning(t) \/ SignOut(t)
    \/ \E s \in Sessions : SignIn(t, s) \/ Arrive(t, s)

Next ==
    \/ \E t \in Tabs : TabStep(t) \/ Person(t) \/ FailRead(t) \/ FailProbe(t)
    \/ ServeLogout \/ Elsewhere \/ Pass

Spec == Init /\ [][Next]_vars

-----------------------------------------------------------------------------
(* The deadline a tab counts down to is never later than the server's by     *)
(* more than the time an answer may take, whatever order answers and         *)
(* messages of other tabs arrive in.  And a session is not shown for ever    *)
(* past its countdown: the timer is about to run, or it has, and the answer  *)
(* to what it asked is still to come.                                        *)
CountdownHonest == \A t \in Tabs : Watching(t) =>
    /\ Outcome(cookie) = "ok" => tab[t].expires <= Deadline(cookie) + Latency
    /\ tab[t].expires <= clock /\ ~tab[t].due =>
           tab[t].expiring /\ call[t].probe.stage # "none" /\ clock <= call[t].probe.at + Latency

(* A tab leaves the app only on an answer about a session that has ended for *)
(* good (or for now, if it was made while its account was off), on one with  *)
(* nothing worth keeping, or when the server, asked, gave none; never on the *)
(* word of another tab.  The answer may be about the session before the one  *)
(* shown, if somebody signed in meanwhile.                                   *)
LeavesForAReason == [][\A t \in Tabs :
    Watching(t) /\ tab'[t].page \in {"login", "notice"} =>
        \/ \E c \in {call[t].read, call[t].probe} :
               c.stage = "answered" /\ (Outcome(c.of) # "ok" \/ c.of \in stray)
        \/ call[t].probe.outcome = "ok" \/ mishaps' > mishaps]_vars

(* Somebody whose last action fell in the renewal band, early enough for a   *)
(* renewal to be answered, is not signed out for idleness.  Where answers    *)
(* take time, early enough also means before another tab can find too little *)
(* left to keep: its news drops a renewal that is still on its way.          *)
PresentPersonStays == [][\A t \in PromptTabs :
    (/\ Watching(t) /\ tab'[t].page = "notice" /\ mishaps' = 0
     /\ Outcome(tab[t].of) = "session_expired") =>
        tab[t].act \notin tab[t].expires - RenewWithin ..
            tab[t].expires - 2 * (1 + Latency) - (IF Latency = 0 THEN 0 ELSE MinUseful)]_vars

(* As long as no request fails, what the tabs ask about the session itself   *)
(* extends one with a useful rest only while somebody is there: neither the  *)
(* check at zero nor what tabs tell each other keeps an abandoned one alive. *)
(* The requests of a page, which leave the tab's calls alone, do.            *)
ExtendedForSomebody == [][\A s \in Sessions :
    (/\ logout = NoSession /\ mishaps = 0 /\ row[s].place = "stored" /\ call' # call
     /\ Deadline(s) > clock + MinUseful /\ Deadline(s)' > Deadline(s)) =>
        \E t \in Tabs : tab[t].page = "app" /\
            (\/ tab[t].data = "pending" \/ call[t].read.shown
             \/ clock - tab[t].act <= ActivityWindow + Latency)]_vars

(* A session is extended only for somebody who is there, by whatever         *)
(* request: the probe is to keep it from being so that "an abandoned tab     *)
(* would never time out" (docs/openapi.yaml).  A page that polls touches the *)
(* session all the same, up to its absolute end.                             *)
AbandonedTabEnds == [][\A s \in Sessions :
    (logout = NoSession /\ mishaps = 0 /\ row[s].place = "stored" /\ Deadline(s)' > Deadline(s)) =>
        \E t \in Tabs : tab[t].page = "app" /\
            (\/ tab[t].data = "pending" \/ call[t].read.shown
             \/ clock - tab[t].act <= ActivityWindow + Latency)]_vars
=============================================================================
