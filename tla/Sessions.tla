------------------------------ MODULE Sessions ------------------------------
(* One user's rows in `sessions` (api/app/services/sessions.py): two         *)
(* deadlines, an activity stamp written at most once per Resolution,         *)
(* revocation and the purge of old rows.  Time is a number; a request reads  *)
(* it once, as the code does.                                                *)
EXTENDS Integers

\* An operator X_Slip is X with a plausible slip: the mutants of PROJECT.json.

CONSTANTS
    Sessions,       \* ids of rows, never used twice
    NoSession,      \* no cookie
    AbsoluteTTL, IdleTTL, Resolution, Retention,
    MaxClock        \* bound: time stops here

ASSUME SessionsAssumption ==
    /\ NoSession \notin Sessions
    /\ {AbsoluteTTL, IdleTTL, Resolution} \subseteq Nat \ {0}
    /\ {Retention, MaxClock} \subseteq Nat
    /\ Resolution <= IdleTTL

VARIABLES
    clock,
    row,            \* the table
    status,         \* users.status: "active" or not
    used,           \* history: when a request that counts was last served
    stray           \* history: rows inserted while the account was off

sessionVars == <<clock, row, status, used, stray>>

\* "admitted": a callback has found the user active and is about to insert it.
Row == [place : {"unused", "admitted", "stored", "purged"}, revoked : BOOLEAN,
        lastActive : Nat, absolute : Nat]

SessionsTypeOK ==
    /\ clock \in Nat
    /\ row \in [Sessions -> Row]
    /\ status \in {"active", "off"}
    /\ used \in [Sessions -> Nat]
    /\ stray \subseteq Sessions

Sooner(a, b) == IF a <= b THEN a ELSE b

IdleDeadline(s) == row[s].lastActive + IdleTTL
Deadline(s) == Sooner(row[s].absolute, IdleDeadline(s))
Capped(s) == row[s].absolute <= IdleDeadline(s)

Outcomes == {"none", "not_signed_in", "session_unknown", "account_deactivated",
             "session_revoked", "session_ended", "session_expired", "ok"}

(* What the session dependency answers, in the order it looks.               *)
Outcome(s) ==
    IF s = NoSession THEN "not_signed_in"
    ELSE IF row[s].place # "stored" THEN "session_unknown"
    ELSE IF status # "active" THEN "account_deactivated"
    ELSE IF row[s].revoked THEN "session_revoked"
    ELSE IF row[s].absolute <= clock THEN "session_ended"
    ELSE IF IdleDeadline(s) <= clock THEN "session_expired"
    ELSE "ok"

Revoked == [s \in Sessions |->
    IF row[s].place = "stored" THEN [row[s] EXCEPT !.revoked = TRUE] ELSE row[s]]
PastRetention(s) == row[s].place = "stored" /\ row[s].absolute + Retention < clock
Purged(S) == [s \in Sessions |->
    IF s \in S THEN [row[s] EXCEPT !.place = "purged"] ELSE row[s]]

-----------------------------------------------------------------------------
SessionsInit ==
    /\ clock = 0
    /\ row = [s \in Sessions |->
                [place |-> "unused", revoked |-> FALSE, lastActive |-> 0, absolute |-> 0]]
    /\ status = "active"
    /\ used = [s \in Sessions |-> 0]
    /\ stray = {}

(* The callback reads the status, and inserts in a later transaction that    *)
(* does not look at it again: a row of its own per sign-in, old rows of the  *)
(* user removed.                                                             *)
Admit(s) ==
    /\ status = "active" /\ row[s].place = "unused"
    /\ row' = [row EXCEPT ![s].place = "admitted"]
    /\ UNCHANGED <<clock, status, used, stray>>
CreateSession(s) ==
    /\ row[s].place = "admitted"
    /\ row' = [Purged({r \in Sessions : PastRetention(r)}) EXCEPT ![s] =
                [place |-> "stored", revoked |-> FALSE,
                 lastActive |-> clock, absolute |-> clock + AbsoluteTTL]]
    /\ used' = [used EXCEPT ![s] = clock]
    /\ stray' = IF status = "active" THEN stray ELSE stray \cup {s}
    /\ UNCHANGED <<clock, status>>

Touches_WhenFresh(s, touch) ==
    touch /\ Outcome(s) = "ok" /\ clock - row[s].lastActive <= Resolution
Touches(s, touch) ==
    touch /\ Outcome(s) = "ok" /\ clock - row[s].lastActive >= Resolution

(* Any request that carries the cookie.  The stamp moves only when the       *)
(* request counts as activity and the old stamp is old enough.               *)
Authenticate(s, touch) ==
    /\ row' = IF Touches(s, touch)
              THEN [row EXCEPT ![s].lastActive = clock] ELSE row
    /\ used' = IF touch /\ Outcome(s) = "ok" THEN [used EXCEPT ![s] = clock] ELSE used
    /\ UNCHANGED <<clock, status, stray>>

(* A token whose row is not revoked ends every session of its user.          *)
SignOutEverywhere(s) ==
    /\ row' = IF s \in Sessions /\ row[s].place = "stored" /\ ~row[s].revoked
              THEN Revoked ELSE row
    /\ UNCHANGED <<clock, status, used, stray>>

(* Deactivation and role changes revoke in the commit that makes them; the   *)
(* steps inside that transaction are in Teams.                               *)
Deactivate_NoRevoke ==
    /\ status = "active" /\ status' = "off" /\ UNCHANGED <<clock, row, used, stray>>
Deactivate ==
    /\ status = "active" /\ status' = "off" /\ row' = Revoked
    /\ UNCHANGED <<clock, used, stray>>
Reactivate ==
    /\ status = "off" /\ status' = "active" /\ UNCHANGED <<clock, row, used, stray>>

PurgeExpired(S) ==
    /\ S # {} /\ \A s \in S : PastRetention(s)
    /\ row' = Purged(S)
    /\ UNCHANGED <<clock, status, used, stray>>

Tick == clock < MaxClock /\ clock' = clock + 1 /\ UNCHANGED <<row, status, used, stray>>

SessionsNext ==
    \/ \E s \in Sessions : Admit(s) \/ CreateSession(s) \/ SignOutEverywhere(s)
    \/ \E s \in Sessions, touch \in BOOLEAN : Authenticate(s, touch)
    \/ Deactivate \/ Reactivate
    \/ \E S \in SUBSET Sessions : PurgeExpired(S)
    \/ Tick

SessionsSpec == SessionsInit /\ [][SessionsNext]_sessionVars

-----------------------------------------------------------------------------
(* The idle limit follows use, not the stamp: a session is refused as idle   *)
(* only after IdleTTL without a request, short of the Resolution by which    *)
(* the stamp may lag, and then it is refused for sure.                       *)
IdleLimitFollowsUse == \A s \in Sessions :
    row[s].place = "stored" =>
        /\ Outcome(s) = "session_expired" => clock - used[s] > IdleTTL - Resolution
        /\ clock - used[s] >= IdleTTL => Outcome(s) # "ok"

(* A session that has stopped working never works again, whatever touches,   *)
(* revocations, reactivations and purges follow.  Only a row that a callback *)
(* inserted after a deactivation it did not see waits for the reactivation.  *)
WaitsForAccount(s) == s \in stray /\ Outcome(s) = "account_deactivated"
DeadStaysDead == [][\A s \in Sessions :
    (row[s].place \in {"stored", "purged"} /\ Outcome(s) # "ok" /\ ~WaitsForAccount(s)) =>
        Outcome(s)' # "ok"]_sessionVars

=============================================================================
