---------------------------- MODULE BrowserSession ----------------------------
(***************************************************************************)
(* The login sessions of one user in one browser: the tabs, each with its  *)
(* own access token (tokenManager.ts, JwtAuthContext.tsx), the cookies they *)
(* share, and the session rows of the backend, which rotates the refresh   *)
(* token at every refresh and accepts the one before for a grace period    *)
(* (RefreshTokenRotationService, SessionManager).                          *)
(*                                                                         *)
(* A refresh is sent, read by the backend, written and answered in four    *)
(* steps, so refreshes of two tabs overlap, answers overtake one another,  *)
(* and a reload or a network failure may strike at any of them.            *)
(***************************************************************************)
EXTENDS Naturals, FiniteSets

CONSTANTS
    Tabs,         \* JavaScript contexts of one browser
    Polling,      \* those left open in front on the dashboard, the one page that polls
    MaxSessions,  \* bound: how often the user logs in
    MaxTokens,    \* refresh tokens that may be around at one time
    MaxRefreshes  \* bound: how often a page load or the time make a tab refresh

ASSUME PollingAssumption == Polling \subseteq Tabs
ASSUME BoundsAssumption == MaxSessions \in Nat /\ MaxTokens \in Nat /\ MaxRefreshes \in Nat

Sessions == 1..MaxSessions
NoSession == 0
NoToken == 0
Tokens == 1..MaxTokens

VARIABLES
    row,      \* user_sessions
    logins,   \* how many sessions were created; the last one is the newest
    jar,      \* cookies: refresh_token, and has_session as `mark`
    access,   \* per tab: the access token in memory
    user,     \* per tab: whether it shows a signed-in user
    refresh,  \* per tab: the refresh under way
    rounds,   \* bound: page loads and lapses so far
    mishap    \* history: what went wrong between the browser and the backend

vars == <<row, logins, jar, access, user, refresh, rounds, mishap>>

States == {"none", "active", "expired", "revoked", "compromised", "deleted"}
Mishaps == {"none", "race", "slow"}

TypeOK ==
    /\ row \in [Sessions -> [current: Tokens \cup {NoToken}, previous: Tokens \cup {NoToken},
                             fresh: BOOLEAN, state: States]]
    /\ logins \in 0..MaxSessions
    /\ jar \in [refresh: Tokens \cup {NoToken}, mark: BOOLEAN]
    /\ access \in [Tabs -> [session: Sessions \cup {NoSession}, lapsed: BOOLEAN]]
    /\ user \in [Tabs -> BOOLEAN]
    /\ refresh \in [Tabs -> [stage: {"idle", "sent", "read", "answered"}, init: BOOLEAN,
                             sent: Tokens \cup {NoToken}, session: Sessions \cup {NoSession},
                             seen: Tokens \cup {NoToken}, answer: Tokens \cup {NoToken}]]
    /\ rounds \in 0..MaxRefreshes
    /\ mishap \in Mishaps

NoRow == [current |-> NoToken, previous |-> NoToken, fresh |-> FALSE, state |-> "none"]
NoAccess == [session |-> NoSession, lapsed |-> FALSE]
Idle == [stage |-> "idle", init |-> FALSE, sent |-> NoToken, session |-> NoSession,
         seen |-> NoToken, answer |-> NoToken]
Forgotten == [refresh |-> NoToken, mark |-> FALSE]

-----------------------------------------------------------------------------
(* Predicates of the backend *)

Exists(s) == row[s].state \notin {"none", "deleted"}
Ended(s) == row[s].state \in {"revoked", "compromised"}

\* JwtGuard refuses a lapsed token and the token of a row that says revoked or
\* compromised. It does not ask whether there is a row.
Accepted(t) ==
    /\ access[t].session # NoSession
    /\ ~access[t].lapsed
    /\ ~Ended(access[t].session)

\* A token is looked up in every row, whatever became of the session.
ByCurrent(k) == {s \in Sessions : Exists(s) /\ row[s].current = k}
PreviousUnknown(k) == {}
ByPrevious(k) == {s \in Sessions : Exists(s) /\ row[s].previous = k}

WithinGrace(s) == row[s].state = "active" /\ row[s].fresh

\* A token nobody holds any more is as good as a new one.
InUse ==
    {row[s].current : s \in Sessions} \cup {row[s].previous : s \in Sessions}
        \cup {jar.refresh} \cup {refresh[t].sent : t \in Tabs}
        \cup {refresh[t].seen : t \in Tabs} \cup {refresh[t].answer : t \in Tabs}
NewTokens == LET free == Tokens \ InUse IN {k \in free : \A j \in free : k <= j}

InFlight(t) == refresh[t].stage # "idle"

Upset == IF mishap = "slow" THEN "slow" ELSE "race"

\* Two rotations were answered and neither answer has arrived: the cookie may be
\* older than both tokens of the row.
Behind == \E o, p \in Tabs : o # p /\ refresh[o].answer # NoToken /\ refresh[p].answer # NoToken

-----------------------------------------------------------------------------
(* What the handlers do to the rows *)

RotatedWhole(s, seen, k) ==
    [current |-> k, previous |-> seen, fresh |-> TRUE, state |-> "active"]
RotatedUndated(s, seen, k) == [row[s] EXCEPT !.previous = seen, !.current = k]

\* rotateRefreshToken updates the token columns only, from the row it was given.
\* The grace period of a row that is not active is never asked for.
Rotated(s, seen, k) ==
    [row[s] EXCEPT !.previous = seen, !.current = k, !.fresh = row[s].state = "active"]

\* A session that is over keeps its tokens.
Left(r, state) == [r EXCEPT !.state = state, !.fresh = FALSE]
Deleted == [NoRow EXCEPT !.state = "deleted"]

RevokedUnknown(r) == IF r.state \in {"active", "expired"} THEN Left(r, "closed") ELSE r
Revoked(r) == IF r.state \in {"active", "expired"} THEN Left(r, "revoked") ELSE r

RevokedExcept(kept) == [s \in Sessions |-> IF s \in kept THEN row[s] ELSE Revoked(row[s])]

(* What the tab does to itself *)

\* logout, logoutAll and handleForceLogout drop the token and the user. A
\* refresh under way is not cancelled.
SignOut(t) ==
    /\ access' = [access EXCEPT ![t] = NoAccess]
    /\ user' = [user EXCEPT ![t] = FALSE]

\* refreshAccessToken with the has_session cookie there
Sending(init) == [Idle EXCEPT !.stage = "sent", !.init = init, !.sent = jar.refresh]

Init ==
    /\ row = [s \in Sessions |-> NoRow]
    /\ logins = 0
    /\ jar = Forgotten
    /\ access = [t \in Tabs |-> NoAccess]
    /\ user = [t \in Tabs |-> FALSE]
    /\ refresh = [t \in Tabs |-> Idle]
    /\ rounds = 0
    /\ mishap = "none"

-----------------------------------------------------------------------------
(* The user *)

\* A page load is a new JavaScript context: memory is gone, a refresh under way
\* is aborted and its answer, with the cookie it would have set, is not seen.
\* The provider refreshes once if the browser remembers a session.
Load(t) ==
    /\ refresh[t].stage # "read"
    /\ jar.mark => rounds < MaxRefreshes
    /\ rounds' = IF jar.mark THEN rounds + 1 ELSE rounds
    /\ access' = [access EXCEPT ![t] = NoAccess]
    /\ user' = [user EXCEPT ![t] = FALSE]
    /\ refresh' = [refresh EXCEPT ![t] = IF jar.mark THEN Sending(TRUE) ELSE Idle]
    /\ mishap' = IF refresh[t].answer # NoToken \/ (jar.mark /\ Behind) THEN Upset ELSE mishap
    /\ UNCHANGED <<row, logins, jar>>

Login(t) ==
    /\ ~user[t]
    /\ ~refresh[t].init
    /\ logins < MaxSessions
    /\ logins' = logins + 1
    /\ \E k \in NewTokens :
        /\ row' = [row EXCEPT ![logins'] = [current |-> k, previous |-> NoToken,
                                            fresh |-> TRUE, state |-> "active"]]
        /\ jar' = [refresh |-> k, mark |-> TRUE]
    /\ access' = [access EXCEPT ![t] = [session |-> logins', lapsed |-> FALSE]]
    /\ user' = [user EXCEPT ![t] = TRUE]
    /\ mishap' = IF \E o \in Tabs : InFlight(o) THEN Upset ELSE mishap
    /\ UNCHANGED <<refresh, rounds>>

\* The tab forgets the user whether the request arrives or not.
Logout(t) ==
    /\ user[t]
    /\ SignOut(t)
    /\ \/ /\ Accepted(t)
          /\ row' = [row EXCEPT ![access[t].session] = Revoked(@)]
          /\ jar' = Forgotten
          /\ UNCHANGED mishap
       \/ /\ mishap' = Upset
          /\ UNCHANGED <<row, jar>>
    /\ UNCHANGED <<logins, refresh, rounds>>

\* Ends every session but the one that asks, and forgets the cookies of this.
LogoutAll(t) ==
    /\ user[t]
    /\ SignOut(t)
    /\ \/ /\ Accepted(t)
          /\ row' = RevokedExcept({access[t].session})
          /\ jar' = Forgotten
          /\ UNCHANGED mishap
       \/ /\ mishap' = Upset
          /\ UNCHANGED <<row, jar>>
    /\ UNCHANGED <<logins, refresh, rounds>>

RevokeAllOthers(t) ==
    /\ user[t] /\ Accepted(t)
    /\ row' = RevokedExcept({access[t].session})
    /\ UNCHANGED <<logins, jar, access, user, refresh, rounds, mishap>>

Revoke(t, s) ==
    /\ user[t] /\ Accepted(t)
    /\ Exists(s) /\ s # access[t].session
    /\ row' = [row EXCEPT ![s] = Revoked(@)]
    /\ UNCHANGED <<logins, jar, access, user, refresh, rounds, mishap>>

PermanentDelete(t, s) ==
    /\ user[t] /\ Accepted(t)
    /\ Ended(s) /\ s # access[t].session
    /\ row' = [row EXCEPT ![s] = Deleted]
    /\ UNCHANGED <<logins, jar, access, user, refresh, rounds, mishap>>

\* A password reset ends every session of the user.
PasswordReset ==
    /\ row' = RevokedExcept({})
    /\ UNCHANGED <<logins, jar, access, user, refresh, rounds, mishap>>

-----------------------------------------------------------------------------
(* A tab that is refused asks for a new access token *)

\* Any API call, or the authorisation of a websocket channel. While a refresh is
\* under way the caller waits for that one.
Request(t) ==
    /\ user[t]
    /\ ~Accepted(t)
    /\ ~InFlight(t)
    /\ IF jar.mark
       THEN /\ refresh' = [refresh EXCEPT ![t] = Sending(FALSE)]
            /\ UNCHANGED <<access, user>>
       ELSE SignOut(t) /\ UNCHANGED refresh
    /\ mishap' = IF jar.mark /\ Behind THEN Upset ELSE mishap
    /\ UNCHANGED <<row, logins, jar, rounds>>

Refuse(t) ==
    refresh' = [refresh EXCEPT ![t] = [Idle EXCEPT !.stage = "answered", !.init = refresh[t].init]]

Read(t, s) ==
    refresh' = [refresh EXCEPT ![t] = [Idle EXCEPT !.stage = "read", !.init = refresh[t].init,
                                                   !.session = s, !.seen = row[s].current]]

\* validateAndRotate up to the update. The current token of a session that is over
\* is refused; the token before marks the session compromised in every case but the
\* grace period of an active one, also if it was revoked or has expired.
HandleRead(t) ==
    LET k == refresh[t].sent
    IN  /\ refresh[t].stage = "sent"
        /\ \/ \E s \in ByCurrent(k) :
                /\ IF row[s].state = "active" THEN Read(t, s) ELSE Refuse(t)
                /\ UNCHANGED row
           \/ \E s \in ByPrevious(k) :
                /\ ByCurrent(k) = {}
                /\ IF WithinGrace(s)
                   THEN Read(t, s) /\ UNCHANGED row
                   ELSE Refuse(t) /\ row' = [row EXCEPT ![s] = Left(@, "compromised")]
           \/ /\ ByCurrent(k) = {} /\ ByPrevious(k) = {}
              /\ Refuse(t)
              /\ UNCHANGED row
        /\ UNCHANGED <<logins, jar, access, user, rounds, mishap>>

\* The rotation for t forgets the token another request is on its way with.
Overtakes(t) ==
    \E o \in Tabs \ {t} : /\ refresh[o].stage = "sent"
                          /\ refresh[o].sent # refresh[t].seen

\* The update, and the answer. A row that was deleted meanwhile is not updated,
\* and the history row that refers to it cannot be stored.
HandleWrite(t) ==
    LET s == refresh[t].session
    IN  /\ refresh[t].stage = "read"
        /\ IF Exists(s)
           THEN /\ \E k \in NewTokens :
                    /\ row' = [row EXCEPT ![s] = Rotated(s, refresh[t].seen, k)]
                    /\ refresh' = [refresh EXCEPT ![t] = [@ EXCEPT !.stage = "answered",
                                                                  !.answer = k, !.seen = NoToken]]
                /\ mishap' = IF row[s].current # refresh[t].seen \/ Overtakes(t)
                             THEN Upset ELSE mishap
           ELSE Refuse(t) /\ UNCHANGED <<row, mishap>>
        /\ UNCHANGED <<logins, jar, access, user, rounds>>

RefreshFailsQuietly(t) ==
    /\ refresh' = [refresh EXCEPT ![t] = Idle]
    /\ UNCHANGED <<access, user>>

\* doRefresh gives up: the token is dropped, and who waited for it signs out.
RefreshFails(t) ==
    /\ refresh' = [refresh EXCEPT ![t] = Idle]
    /\ SignOut(t)

\* The answer with its cookie. The provider then asks who the user is, the other
\* callers repeat their request.
Deliver(t) ==
    LET k == refresh[t].answer
        s == refresh[t].session
    IN  /\ refresh[t].stage = "answered"
        /\ IF k = NoToken
           THEN RefreshFails(t) /\ UNCHANGED <<jar, mishap>>
           ELSE /\ jar' = [jar EXCEPT !.refresh = k]
                /\ refresh' = [refresh EXCEPT ![t] = Idle]
                /\ IF refresh[t].init /\ Ended(s)
                   THEN SignOut(t)
                   ELSE /\ access' = [access EXCEPT ![t] = [session |-> s, lapsed |-> FALSE]]
                        /\ user' = [user EXCEPT ![t] = @ \/ refresh[t].init]
                /\ mishap' = IF /\ k \in {row[s].current, row[s].previous}
                                /\ \E o \in Tabs : refresh[o].answer = row[s].current
                             THEN mishap ELSE Upset
        /\ UNCHANGED <<row, logins, rounds>>

\* The network fails before the request or before its answer arrives.
NetworkFailure(t) ==
    /\ refresh[t].stage \in {"sent", "answered"}
    /\ RefreshFails(t)
    /\ mishap' = Upset
    /\ UNCHANGED <<row, logins, jar, rounds>>

-----------------------------------------------------------------------------
(* Time *)

AccessLapses(t) ==
    /\ user[t] /\ ~access[t].lapsed
    /\ LET counts == row[access[t].session].state = "active"
       IN  /\ counts => rounds < MaxRefreshes
           /\ rounds' = IF counts THEN rounds + 1 ELSE rounds
    /\ access' = [access EXCEPT ![t].lapsed = TRUE]
    /\ UNCHANGED <<row, logins, jar, user, refresh, mishap>>

\* Who could still present the token before the current one of s.
HoldsPrevious(s) ==
    \/ jar.refresh = row[s].previous
    \/ \E t \in Tabs : \/ refresh[t].stage = "sent" /\ refresh[t].sent = row[s].previous
                       \/ refresh[t].answer = row[s].previous

GraceEnds(s) ==
    /\ row[s].fresh
    /\ row' = [row EXCEPT ![s].fresh = FALSE]
    /\ mishap' = IF row[s].previous # NoToken /\ HoldsPrevious(s)
                  THEN "slow" ELSE mishap
    /\ UNCHANGED <<logins, jar, access, user, refresh, rounds>>

SessionExpires(s) ==
    /\ row[s].state = "active"
    /\ row' = [row EXCEPT ![s] = Left(@, "expired")]
    /\ UNCHANGED <<logins, jar, access, user, refresh, rounds, mishap>>

-----------------------------------------------------------------------------

Answering(t) == HandleRead(t) \/ HandleWrite(t) \/ Deliver(t)
Refreshing(t) == Request(t) \/ Answering(t)

Tab(t) ==
    \/ Load(t) \/ Login(t) \/ Logout(t) \/ LogoutAll(t) \/ RevokeAllOthers(t)
    \/ \E s \in Sessions : Revoke(t, s) \/ PermanentDelete(t, s)
    \/ Refreshing(t) \/ NetworkFailure(t) \/ AccessLapses(t)

Next ==
    \/ \E t \in Tabs : Tab(t)
    \/ PasswordReset
    \/ \E s \in Sessions : GraceEnds(s) \/ SessionExpires(s)

\* The backend answers and access tokens have 15 minutes. Only the dashboard asks
\* again and again; a tab on any other page waits for its user.
Fairness ==
    /\ \A t \in Polling : WF_vars(Refreshing(t) \/ AccessLapses(t))
    /\ \A t \in Tabs \ Polling : WF_vars(Answering(t) \/ AccessLapses(t))

Spec == Init /\ [][Next]_vars /\ Fairness

-----------------------------------------------------------------------------
(* Properties *)

\* A refresh of t is refused or found to be pointless: the tab lands on the login page.
TurnedAway(t) ==
    \/ Deliver(t) /\ ~user'[t] /\ refresh[t].answer = NoToken
    \/ Request(t) /\ ~user'[t]

\* Tabs that refresh at the same time do each other no harm: while the browser
\* remembers a session and the session last logged in is active, no refresh sends
\* a tab to the login page, unless one of these happened before: two refreshes
\* read the same row, a third tab asked while two rotations were still on their way
\* back, an answer crossed a login or a later rotation or was dropped by a reload,
\* the grace period ended while the token before was still held, the network failed.
TurnedAwayForCause ==
    [][\A t \in Tabs : TurnedAway(t) =>
            \/ mishap # "none" \/ ~jar.mark
            \/ logins = 0 \/ row[logins].state # "active"]_vars

\* Rotation takes an honest browser of an active session for a replay only if it
\* took longer than the grace period to pick up a rotated token. A session that was
\* revoked or has expired is marked compromised by the token before without delay.
CompromiseNeedsDelay ==
    [][\A s \in Sessions :
            row[s].state # "compromised" /\ row'[s].state = "compromised"
                => mishap = "slow" \/ row[s].state \in {"revoked", "expired"}]_vars

\* A session that was ended stays ended, also if a refresh read its row before.
EndedStaysEnded ==
    [][\A s \in Sessions : Ended(s) => row'[s].state \in {"revoked", "compromised", "deleted"}]_vars

\* A tab on the dashboard whose session has ended notices, and signs out or moves to
\* another session: it does not show an ended one for ever. Any other page sends
\* nothing of its own accord and may.
ShowsEnded(t) == user[t] /\ row[access[t].session].state # "active"
EndedSessionSignsOut == \A t \in Polling : []<>~ShowsEnded(t)

=============================================================================
