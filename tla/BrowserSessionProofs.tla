------------------------ MODULE BrowserSessionProofs ------------------------
(***************************************************************************)
(* Theorems about BrowserSession, for any number of tabs, sessions and     *)
(* tokens.                                                                 *)
(***************************************************************************)
EXTENDS BrowserSession, TLAPS

Token == Tokens \cup {NoToken}
Row == [current: Token, previous: Token, fresh: BOOLEAN, state: States]
Flight == [stage: {"idle", "sent", "read", "answered"}, init: BOOLEAN, sent: Token,
           session: Sessions \cup {NoSession}, seen: Token, answer: Token]
AccessToken == [session: Sessions \cup {NoSession}, lapsed: BOOLEAN]

\* What the handlers make of a row, column by column.
LEMMA RowColumns ==
  ASSUME NEW r \in Row
  PROVE  /\ \A state : /\ Left(r, state).current = r.current
                       /\ Left(r, state).previous = r.previous
                       /\ Left(r, state).state = state
         /\ r.state \in {"active", "expired"} => Revoked(r) = Left(r, "revoked")
         /\ r.state \notin {"active", "expired"} => Revoked(r) = r
BY DEF Row, Left, Revoked

LEMMA RotatedColumns ==
  ASSUME TypeOK, NEW s \in Sessions, NEW seen, NEW k
  PROVE  /\ Rotated(s, seen, k).current = k
         /\ Rotated(s, seen, k).previous = seen
         /\ Rotated(s, seen, k).state = row[s].state
         /\ row[s].state = "active" => Rotated(s, seen, k).fresh
<1>1. row[s] \in Row
  BY DEF TypeOK, Row, Token
<1> QED
  BY <1>1 DEF Rotated, Row

\* What the handlers make of a row is a row.
LEMMA RowTypes ==
  ASSUME TypeOK, NEW s \in Sessions
  PROVE  /\ row[s] \in Row
         /\ Revoked(row[s]) \in Row
         /\ \A state \in States : Left(row[s], state) \in Row
         /\ \A seen, k \in Token : Rotated(s, seen, k) \in Row
         /\ Deleted \in Row
<1>1. row[s] \in Row
  BY DEF TypeOK, Row, Token
<1>2. \A state \in States : Left(row[s], state) \in Row
  BY <1>1 DEF Row, Left
<1>3. Revoked(row[s]) \in Row
  BY <1>1, <1>2 DEF Revoked, States
<1>4. \A seen, k \in Token : Rotated(s, seen, k) \in Row
  BY <1>1 DEF Row, Rotated
<1>5. Deleted \in Row
  BY DEF Row, Deleted, NoRow, States, Token, NoToken
<1> QED
  BY <1>1, <1>2, <1>3, <1>4, <1>5

LEMMA RevokedExceptType ==
  ASSUME TypeOK, NEW kept
  PROVE  RevokedExcept(kept) \in [Sessions -> Row]
BY RowTypes DEF RevokedExcept

\* The values a tab takes, whatever it does.
LEMMA TabTypes ==
  ASSUME TypeOK
  PROVE  /\ NoAccess \in AccessToken
         /\ Idle \in Flight
         /\ \A init \in BOOLEAN : Sending(init) \in Flight
         /\ Upset \in Mishaps
         /\ Forgotten \in [refresh: Token, mark: BOOLEAN]
BY DEF TypeOK, NoAccess, AccessToken, Idle, Flight, Sending, Upset, Mishaps, Forgotten,
       Token, NoToken, NoSession

\* The type invariant, with the record sets by their names.
LEMMA TypeOKNamed ==
  TypeOK <=> /\ row \in [Sessions -> Row]
             /\ logins \in 0..MaxSessions
             /\ jar \in [refresh: Token, mark: BOOLEAN]
             /\ access \in [Tabs -> AccessToken]
             /\ user \in [Tabs -> BOOLEAN]
             /\ refresh \in [Tabs -> Flight]
             /\ rounds \in 0..MaxRefreshes
             /\ mishap \in Mishaps
BY DEF TypeOK, Row, Token, Flight, AccessToken

LEMMA TypeOKNamedNext ==
  TypeOK' <=> /\ row' \in [Sessions -> Row]
              /\ logins' \in 0..MaxSessions
              /\ jar' \in [refresh: Token, mark: BOOLEAN]
              /\ access' \in [Tabs -> AccessToken]
              /\ user' \in [Tabs -> BOOLEAN]
              /\ refresh' \in [Tabs -> Flight]
              /\ rounds' \in 0..MaxRefreshes
              /\ mishap' \in Mishaps
BY DEF TypeOK, Row, Token, Flight, AccessToken

LEMMA SignOutType ==
  ASSUME TypeOK, NEW t \in Tabs, SignOut(t)
  PROVE  access' \in [Tabs -> AccessToken] /\ user' \in [Tabs -> BOOLEAN]
BY TypeOKNamed, TabTypes DEF SignOut

LEMMA RefuseType ==
  ASSUME TypeOK, NEW t \in Tabs, Refuse(t)
  PROVE  refresh' \in [Tabs -> Flight]
BY TypeOKNamed DEF Refuse, Idle, Flight, Token, NoToken, NoSession

LEMMA ReadType ==
  ASSUME TypeOK, NEW t \in Tabs, NEW s \in Sessions, Read(t, s)
  PROVE  refresh' \in [Tabs -> Flight]
<1>1. row[s].current \in Token /\ refresh[t].init \in BOOLEAN
  BY TypeOKNamed DEF Row, Flight
<1> QED
  BY <1>1, TypeOKNamed DEF Read, Idle, Flight, Token, NoToken, NoSession

-----------------------------------------------------------------------------
(* One lemma per group of actions *)

LEMMA UserType ==
  ASSUME TypeOK, NEW t \in Tabs,
         \/ Load(t) \/ Login(t) \/ Logout(t) \/ LogoutAll(t) \/ RevokeAllOthers(t)
         \/ \E s \in Sessions : Revoke(t, s) \/ PermanentDelete(t, s)
  PROVE  TypeOK'
<1> USE TypeOKNamed, TypeOKNamedNext
<1>1. CASE Load(t)
  <2>1. rounds' \in 0..MaxRefreshes
    BY <1>1, BoundsAssumption DEF Load
  <2>2. /\ access' \in [Tabs -> AccessToken] /\ user' \in [Tabs -> BOOLEAN]
        /\ refresh' \in [Tabs -> Flight] /\ mishap' \in Mishaps
    BY <1>1, TabTypes DEF Load
  <2> QED
    BY <1>1, <2>1, <2>2 DEF Load
<1>2. CASE Login(t)
  <2>1. logins' \in Sessions /\ logins' \in 0..MaxSessions
    BY <1>2, BoundsAssumption DEF Login, Sessions
  <2>2. PICK k \in NewTokens :
          /\ row' = [row EXCEPT ![logins'] = [current |-> k, previous |-> NoToken,
                                              fresh |-> TRUE, state |-> "active"]]
          /\ jar' = [refresh |-> k, mark |-> TRUE]
    BY <1>2 DEF Login
  <2>3. k \in Tokens
    BY DEF NewTokens
  <2>4. row' \in [Sessions -> Row] /\ jar' \in [refresh: Token, mark: BOOLEAN]
    BY <2>1, <2>2, <2>3 DEF Row, Token, States, NoToken
  <2>5. access' \in [Tabs -> AccessToken] /\ user' \in [Tabs -> BOOLEAN]
    BY <1>2, <2>1 DEF Login, AccessToken
  <2> QED
    BY <1>2, <2>1, <2>4, <2>5, TabTypes DEF Login
<1>3. CASE Logout(t)
  <2>1. row' \in [Sessions -> Row]
    BY <1>3, RowTypes DEF Logout, Accepted, AccessToken
  <2> QED
    BY <1>3, <2>1, SignOutType, TabTypes DEF Logout
<1>4. CASE LogoutAll(t)
  BY <1>4, SignOutType, RevokedExceptType, TabTypes DEF LogoutAll
<1>5. CASE RevokeAllOthers(t)
  BY <1>5, RevokedExceptType DEF RevokeAllOthers
<1>6. ASSUME NEW s \in Sessions, Revoke(t, s) \/ PermanentDelete(t, s)
      PROVE  TypeOK'
  <2>1. row' \in [Sessions -> Row]
    BY <1>6, RowTypes DEF Revoke, PermanentDelete, States
  <2> QED
    BY <1>6, <2>1 DEF Revoke, PermanentDelete
<1> QED
  BY <1>1, <1>2, <1>3, <1>4, <1>5, <1>6

LEMMA RefreshType ==
  ASSUME TypeOK, NEW t \in Tabs, Refreshing(t) \/ NetworkFailure(t)
  PROVE  TypeOK'
<1> USE TypeOKNamed, TypeOKNamedNext
<1>1. CASE Request(t)
  BY <1>1, TabTypes, SignOutType DEF Request
<1>2. CASE HandleRead(t)
  <2>1. row' \in [Sessions -> Row]
    BY <1>2, RowTypes DEF HandleRead, ByPrevious, States
  <2>2. refresh' \in [Tabs -> Flight]
    BY <1>2, ReadType, RefuseType DEF HandleRead, ByCurrent, ByPrevious
  <2> QED
    BY <1>2, <2>1, <2>2 DEF HandleRead
<1>3. CASE HandleWrite(t)
  <2>1. CASE Exists(refresh[t].session)
    <3>1. PICK k \in NewTokens :
            /\ row' = [row EXCEPT ![refresh[t].session] =
                         Rotated(refresh[t].session, refresh[t].seen, k)]
            /\ refresh' = [refresh EXCEPT ![t] = [@ EXCEPT !.stage = "answered",
                                                          !.answer = k, !.seen = NoToken]]
      BY <1>3, <2>1 DEF HandleWrite
    <3>2. k \in Token /\ refresh[t].seen \in Token
      BY DEF NewTokens, Token, Flight
    <3>3. row' \in [Sessions -> Row]
      BY <3>1, <3>2, RowTypes
    <3>4. refresh' \in [Tabs -> Flight]
      <4>1. [refresh[t] EXCEPT !.stage = "answered", !.answer = k, !.seen = NoToken] \in Flight
        BY <3>2 DEF Flight, Token
      <4> QED
        BY <3>1, <4>1
    <3> QED
      BY <1>3, <2>1, <3>3, <3>4, TabTypes DEF HandleWrite
  <2>2. CASE ~Exists(refresh[t].session)
    BY <1>3, <2>2, RefuseType DEF HandleWrite
  <2> QED
    BY <2>1, <2>2
<1>4. CASE Deliver(t)
  <2>1. CASE refresh[t].answer = NoToken
    BY <1>4, <2>1, SignOutType, TabTypes DEF Deliver, RefreshFails
  <2>2. CASE refresh[t].answer # NoToken
    <3>1. /\ refresh[t].answer \in Token
          /\ refresh[t].session \in Sessions \cup {NoSession}
          /\ refresh[t].init \in BOOLEAN
      BY DEF Flight
    <3>2. jar' \in [refresh: Token, mark: BOOLEAN]
      BY <1>4, <2>2, <3>1 DEF Deliver
    <3>3. access' \in [Tabs -> AccessToken] /\ user' \in [Tabs -> BOOLEAN]
      <4>1. CASE refresh[t].init /\ Ended(refresh[t].session)
        BY <1>4, <2>2, <4>1, SignOutType DEF Deliver
      <4>2. CASE ~(refresh[t].init /\ Ended(refresh[t].session))
        <5>1. [session |-> refresh[t].session, lapsed |-> FALSE] \in AccessToken
          BY <3>1 DEF AccessToken
        <5>2. (user[t] \/ refresh[t].init) \in BOOLEAN
          BY <3>1
        <5>3. /\ access' = [access EXCEPT ![t] = [session |-> refresh[t].session, lapsed |-> FALSE]]
              /\ user' = [user EXCEPT ![t] = @ \/ refresh[t].init]
          BY <1>4, <2>2, <4>2 DEF Deliver
        <5>4. access' \in [Tabs -> AccessToken]
          BY <5>1, <5>3
        <5>5. user' \in [Tabs -> BOOLEAN]
          BY <5>2, <5>3, Zenon
        <5> QED
          BY <5>4, <5>5
      <4> QED
        BY <4>1, <4>2
    <3>4. refresh' \in [Tabs -> Flight] /\ mishap' \in Mishaps
      BY <1>4, <2>2, TabTypes DEF Deliver
    <3> QED
      BY <1>4, <3>2, <3>3, <3>4 DEF Deliver
  <2> QED
    BY <2>1, <2>2
<1>5. CASE NetworkFailure(t)
  BY <1>5, SignOutType, TabTypes DEF NetworkFailure, RefreshFails
<1> QED
  BY <1>1, <1>2, <1>3, <1>4, <1>5 DEF Refreshing, Answering

LEMMA TimeType ==
  ASSUME TypeOK,
         \/ \E t \in Tabs : AccessLapses(t)
         \/ PasswordReset
         \/ \E s \in Sessions : GraceEnds(s) \/ SessionExpires(s)
  PROVE  TypeOK'
<1> USE TypeOKNamed, TypeOKNamedNext
<1>1. ASSUME NEW t \in Tabs, AccessLapses(t) PROVE TypeOK'
  <2>1. access' \in [Tabs -> AccessToken]
    BY <1>1 DEF AccessLapses, AccessToken
  <2>2. rounds' \in 0..MaxRefreshes
    BY <1>1, BoundsAssumption DEF AccessLapses
  <2> QED
    BY <1>1, <2>1, <2>2 DEF AccessLapses
<1>2. CASE PasswordReset
  BY <1>2, RevokedExceptType DEF PasswordReset
<1>3. ASSUME NEW s \in Sessions, GraceEnds(s) PROVE TypeOK'
  <2>1. row' \in [Sessions -> Row]
    BY <1>3 DEF GraceEnds, Row
  <2> QED
    BY <1>3, <2>1 DEF GraceEnds, Mishaps
<1>4. ASSUME NEW s \in Sessions, SessionExpires(s) PROVE TypeOK'
  <2>1. row' \in [Sessions -> Row]
    BY <1>4, RowTypes DEF SessionExpires, States
  <2> QED
    BY <1>4, <2>1 DEF SessionExpires
<1> QED
  BY <1>1, <1>2, <1>3, <1>4

\* Rows, cookies, tabs and refreshes keep their types.
THEOREM TypeCorrect == Spec => []TypeOK
<1>1. Init => TypeOK
  <2> SUFFICES ASSUME Init PROVE TypeOK
    OBVIOUS
  <2> QED
    BY BoundsAssumption
    DEF Init, TypeOK, NoRow, NoAccess, Idle, Forgotten, States, Mishaps, NoToken, NoSession
<1>2. TypeOK /\ [Next]_vars => TypeOK'
  <2>1. TypeOK /\ UNCHANGED vars => TypeOK'
    BY DEF TypeOK, vars, Exists
  <2> QED
    BY <2>1, UserType, RefreshType, TimeType DEF Next, Tab
<1> QED
  BY <1>1, <1>2, PTL DEF Spec

-----------------------------------------------------------------------------
(* What was ended stays ended: every handler names the state it starts     *)
(* from, and a login takes a row that was never used.                      *)

Settled == {"revoked", "compromised", "deleted"}

SessionInv ==
  /\ TypeOK
  /\ \A s \in Sessions : s > logins => row[s].state = "none"

\* No step brings a row back that was ended, and none but a login opens one.
LEMMA RowSteps ==
  ASSUME SessionInv, Next, NEW s \in Sessions
  PROVE  /\ Ended(s) => row'[s].state \in Settled
         /\ s > logins' => row'[s].state = "none"
<1> USE DEF Ended, Settled
<1>0. /\ row \in [Sessions -> Row] /\ logins \in 0..MaxSessions
      /\ s > logins => row[s].state = "none"
  BY TypeOKNamed DEF SessionInv
<1>1. ASSUME UNCHANGED <<row, logins>>
      PROVE  /\ Ended(s) => row'[s].state \in Settled
             /\ s > logins' => row'[s].state = "none"
  BY <1>0, <1>1
<1>2. ASSUME NEW kept, row' = RevokedExcept(kept), UNCHANGED logins
      PROVE  /\ Ended(s) => row'[s].state \in Settled
             /\ s > logins' => row'[s].state = "none"
  BY <1>0, <1>2, RowColumns DEF RevokedExcept
<1>3. ASSUME NEW t \in Tabs, Login(t)
      PROVE  /\ Ended(s) => row'[s].state \in Settled
             /\ s > logins' => row'[s].state = "none"
  <2>1. logins' = logins + 1
    BY <1>3 DEF Login
  <2>2. s # logins' => row'[s] = row[s]
    BY <1>0, <1>3 DEF Login
  <2>3. s = logins' => row[s].state = "none"
    BY <1>0, <2>1
  <2> QED
    BY <1>0, <2>1, <2>2, <2>3 DEF Sessions
<1>4. ASSUME NEW t \in Tabs, Logout(t)
      PROVE  /\ Ended(s) => row'[s].state \in Settled
             /\ s > logins' => row'[s].state = "none"
  BY <1>0, <1>4, RowColumns DEF Logout
<1>5. ASSUME NEW t \in Tabs, NEW r \in Sessions, Revoke(t, r) \/ PermanentDelete(t, r)
      PROVE  /\ Ended(s) => row'[s].state \in Settled
             /\ s > logins' => row'[s].state = "none"
  BY <1>0, <1>5, RowColumns DEF Revoke, PermanentDelete, Exists, Deleted, NoRow
<1>6. ASSUME NEW t \in Tabs, HandleRead(t)
      PROVE  /\ Ended(s) => row'[s].state \in Settled
             /\ s > logins' => row'[s].state = "none"
  BY <1>0, <1>6, RowColumns DEF HandleRead, ByPrevious, Exists
<1>7. ASSUME NEW t \in Tabs, HandleWrite(t)
      PROVE  /\ Ended(s) => row'[s].state \in Settled
             /\ s > logins' => row'[s].state = "none"
  <2>1. row'[s].state = row[s].state
    <3>1. CASE Exists(refresh[t].session)
      <4>1. PICK k \in NewTokens :
              row' = [row EXCEPT ![refresh[t].session] =
                        Rotated(refresh[t].session, refresh[t].seen, k)]
        BY <1>7, <3>1 DEF HandleWrite
      <4> QED
        BY <1>0, <4>1, RotatedColumns DEF SessionInv
    <3>2. CASE ~Exists(refresh[t].session)
      BY <1>7, <3>2 DEF HandleWrite
    <3> QED
      BY <3>1, <3>2
  <2> QED
    BY <1>0, <1>7, <2>1 DEF HandleWrite
<1>8. ASSUME NEW r \in Sessions, GraceEnds(r) \/ SessionExpires(r)
      PROVE  /\ Ended(s) => row'[s].state \in Settled
             /\ s > logins' => row'[s].state = "none"
  BY <1>0, <1>8, RowColumns DEF GraceEnds, SessionExpires, Row
<1>9. ASSUME NEW t \in Tabs, LogoutAll(t) \/ RevokeAllOthers(t)
      PROVE  /\ Ended(s) => row'[s].state \in Settled
             /\ s > logins' => row'[s].state = "none"
  BY <1>1, <1>2, <1>9 DEF LogoutAll, RevokeAllOthers
<1>10. CASE PasswordReset
  BY <1>2, <1>10 DEF PasswordReset
<1>11. ASSUME NEW t \in Tabs,
              Load(t) \/ Request(t) \/ Deliver(t) \/ NetworkFailure(t) \/ AccessLapses(t)
       PROVE  UNCHANGED <<row, logins>>
  BY <1>11 DEF Load, Request, Deliver, NetworkFailure, AccessLapses
<1> QED
  BY <1>1, <1>3, <1>4, <1>5, <1>6, <1>7, <1>8, <1>9, <1>10, <1>11 DEF Next, Tab, Refreshing, Answering

LEMMA SessionInvAlways == Spec => []SessionInv
<1>1. Init => SessionInv
  BY TypeCorrect, BoundsAssumption DEF Init, SessionInv, TypeOK, NoRow, NoAccess, Idle, Forgotten,
     States, Mishaps, NoToken, NoSession
<1>2. SessionInv /\ TypeOK' /\ [Next]_vars => SessionInv'
  <2>1. SessionInv /\ UNCHANGED vars /\ TypeOK' => SessionInv'
    BY DEF SessionInv, vars
  <2> QED
    BY <2>1, RowSteps DEF SessionInv
<1> QED
  BY <1>1, <1>2, TypeCorrect, PTL DEF Spec

\* A session that was ended stays ended in every step: a refresh that read its row
\* before the revocation writes the tokens, not the state.
THEOREM EndedStays == Spec => EndedStaysEnded
<1> DEFINE Stays == \A s \in Sessions :
                      Ended(s) => row'[s].state \in {"revoked", "compromised", "deleted"}
<1>1. SessionInv /\ [Next]_vars => [Stays]_vars
  BY RowSteps DEF Settled
<1> QED
  BY <1>1, SessionInvAlways, PTL DEF Spec, EndedStaysEnded

-----------------------------------------------------------------------------
(* Which tokens are where. A token is in one row at most; a refresh that   *)
(* was read holds a token no other row has; who could still present the    *)
(* token before the current one does so within the grace period.           *)

Places(s) == {row[s].current, row[s].previous} \ {NoToken}
Reading(t) == refresh[t].stage = "read"

RowApart(s) ==
  /\ row[s].state = "active" => row[s].current # NoToken /\ row[s].current # row[s].previous
  /\ \A r \in Sessions : s # r => Places(s) \cap Places(r) = {}

SeenApart(t) ==
  /\ refresh[t].seen # NoToken /\ refresh[t].session \in Sessions
  /\ \A r \in Sessions : r # refresh[t].session => refresh[t].seen \notin Places(r)
  /\ \A o \in Tabs : Reading(o) /\ refresh[o].session # refresh[t].session
                       => refresh[o].seen # refresh[t].seen

TokensApart ==
  /\ \A s \in Sessions : RowApart(s)
  /\ \A t \in Tabs : Reading(t) => SeenApart(t)

CookieInv ==
  /\ jar.mark => jar.refresh # NoToken
  /\ \A t \in Tabs : refresh[t].stage = "sent" => refresh[t].sent # NoToken
  /\ \A t \in Tabs : refresh[t].stage # "answered" => refresh[t].answer = NoToken

Stale(s) == row[s].state = "active" /\ row[s].previous # NoToken /\ ~row[s].fresh
GraceInv == mishap # "slow" => \A s \in Sessions : Stale(s) => ~HoldsPrevious(s)

\* What may still be presented: by the cookie, a request or an answer.
Holders ==
  {jar.refresh} \cup {refresh[t].sent : t \in {o \in Tabs : refresh[o].stage = "sent"}}
                \cup {refresh[t].answer : t \in Tabs}

LEMMA HeldIsHolder ==
  ASSUME NEW s \in Sessions
  PROVE  /\ HoldsPrevious(s) <=> row[s].previous \in Holders
         /\ HoldsPrevious(s)' <=> row'[s].previous \in Holders'
BY DEF HoldsPrevious, Holders

\* A new token is nowhere yet.
LEMMA NewTokenIsNew ==
  ASSUME NEW k \in NewTokens
  PROVE  /\ k \in Tokens /\ k # NoToken
         /\ \A s \in Sessions : k # row[s].current /\ k # row[s].previous /\ k \notin Places(s)
         /\ k # jar.refresh
         /\ \A t \in Tabs : k # refresh[t].sent /\ k # refresh[t].seen /\ k # refresh[t].answer
<1>1. k \in Tokens /\ k \notin InUse
  BY DEF NewTokens
<1>2. k # NoToken
  BY <1>1 DEF Tokens, NoToken
<1> QED
  BY <1>1, <1>2 DEF InUse, Places

-----------------------------------------------------------------------------
(* What the steps do to the rows and the refreshes                         *)

RowKept(s) ==
  row'[s].current = row[s].current /\ row'[s].previous = row[s].previous
    /\ row'[s].state = row[s].state
RowDated(s) == row'[s].fresh = row[s].fresh
RowLeft(s) ==
  row'[s].current \in {row[s].current, NoToken} /\ row'[s].previous \in {row[s].previous, NoToken}
    /\ row'[s].state # "active"

FlightSame(t) == refresh'[t] = refresh[t]
FlightEnds(t) ==
  refresh'[t].stage \in {"idle", "answered"} /\ refresh'[t].answer = NoToken
FlightStarts(t) ==
  jar.mark /\ refresh'[t].stage = "sent" /\ refresh'[t].sent = jar.refresh
    /\ refresh'[t].answer = NoToken

Signing == \E t \in Tabs : Login(t)
Rotating == \E t \in Tabs : HandleWrite(t) /\ Exists(refresh[t].session)
Looking == \E t \in Tabs : HandleRead(t) /\ refresh'[t].stage = "read"

\* Only a login and a rotation put a token into a row.
LEMMA RowsKeptOrLeft ==
  ASSUME TypeOK, Next, ~Signing, ~Rotating, NEW s \in Sessions
  PROVE  /\ RowKept(s) \/ RowLeft(s)
         /\ RowDated(s) \/ RowLeft(s) \/ \E r \in Sessions : GraceEnds(r)
<1> USE DEF RowKept, RowDated, RowLeft
<1>0. row \in [Sessions -> Row]
  BY TypeOKNamed
<1>1. CASE UNCHANGED row
  BY <1>1
<1>2. ASSUME NEW kept, row' = RevokedExcept(kept)
      PROVE  (RowKept(s) /\ RowDated(s)) \/ RowLeft(s)
  BY <1>0, <1>2, RowColumns DEF RevokedExcept
<1>3. ASSUME NEW t \in Tabs, Logout(t)
      PROVE  (RowKept(s) /\ RowDated(s)) \/ RowLeft(s)
  BY <1>0, <1>3, RowColumns DEF Logout
<1>4. ASSUME NEW t \in Tabs, NEW r \in Sessions, Revoke(t, r) \/ PermanentDelete(t, r)
      PROVE  (RowKept(s) /\ RowDated(s)) \/ RowLeft(s)
  BY <1>0, <1>4, RowColumns DEF Revoke, PermanentDelete, Deleted, NoRow
<1>5. ASSUME NEW t \in Tabs, HandleRead(t)
      PROVE  (RowKept(s) /\ RowDated(s)) \/ RowLeft(s)
  BY <1>0, <1>5, RowColumns DEF HandleRead
<1>6. ASSUME NEW r \in Sessions, SessionExpires(r)
      PROVE  (RowKept(s) /\ RowDated(s)) \/ RowLeft(s)
  BY <1>0, <1>6, RowColumns DEF SessionExpires
<1>11. ASSUME NEW r \in Sessions, GraceEnds(r)
       PROVE  RowKept(s)
  BY <1>0, <1>11 DEF GraceEnds, Row
<1>7. ASSUME NEW t \in Tabs, LogoutAll(t) \/ RevokeAllOthers(t)
      PROVE  (RowKept(s) /\ RowDated(s)) \/ RowLeft(s)
  BY <1>1, <1>2, <1>7 DEF LogoutAll, RevokeAllOthers
<1>8. CASE PasswordReset
  BY <1>2, <1>8 DEF PasswordReset
<1>9. ASSUME NEW t \in Tabs, HandleWrite(t), ~Rotating
      PROVE  UNCHANGED row
  BY <1>9 DEF HandleWrite, Rotating
<1>10. ASSUME NEW t \in Tabs,
             Load(t) \/ Request(t) \/ Deliver(t) \/ NetworkFailure(t) \/ AccessLapses(t)
      PROVE  UNCHANGED row
  BY <1>10 DEF Load, Request, Deliver, NetworkFailure, AccessLapses
<1> QED
  BY <1>1, <1>3, <1>4, <1>5, <1>6, <1>7, <1>8, <1>9, <1>10, <1>11
  DEF Next, Tab, Refreshing, Answering, Signing, Rotating

\* A refresh starts with the cookie, is read, rotated and over.
LEMMA FlightSteps ==
  ASSUME TypeOK, Next, ~Rotating, ~Looking, NEW o \in Tabs
  PROVE  FlightSame(o) \/ FlightEnds(o) \/ FlightStarts(o)
<1> USE DEF FlightSame, FlightEnds, FlightStarts
<1>0. refresh \in [Tabs -> Flight] /\ Idle.stage = "idle" /\ Idle.answer = NoToken
  BY TypeOKNamed DEF Idle
<1>1. CASE UNCHANGED refresh
  BY <1>1
<1>2. ASSUME NEW t \in Tabs, Load(t) \/ Request(t)
      PROVE  FlightSame(o) \/ FlightEnds(o) \/ FlightStarts(o)
  <2>1. ~jar.mark => FlightSame(o) \/ FlightEnds(o)
    BY <1>0, <1>2 DEF Load, Request
  <2>2. ASSUME jar.mark, NEW init, refresh' = [refresh EXCEPT ![t] = Sending(init)]
        PROVE  FlightSame(o) \/ FlightStarts(o)
    <3>1. Sending(init).stage = "sent" /\ Sending(init).sent = jar.refresh
          /\ Sending(init).answer = NoToken
      BY DEF Sending, Idle
    <3> QED
      BY <1>0, <2>2, <3>1
  <2> QED
    BY <1>2, <2>1, <2>2 DEF Load, Request
<1>3. ASSUME NEW t \in Tabs, HandleRead(t), ~Looking
      PROVE  FlightSame(o) \/ FlightEnds(o)
  <2>1. Refuse(t)
    <3>1. ASSUME NEW s, Read(t, s) PROVE FALSE
      BY <1>0, <1>3, <3>1 DEF Read, Looking, Idle
    <3> QED
      BY <1>3, <3>1 DEF HandleRead
  <2> QED
    BY <1>0, <2>1 DEF Refuse, Idle
<1>4. ASSUME NEW t \in Tabs, HandleWrite(t), ~Rotating
      PROVE  FlightSame(o) \/ FlightEnds(o)
  <2>1. CASE ~Exists(refresh[t].session)
    BY <1>0, <1>4, <2>1 DEF HandleWrite, Refuse, Idle
  <2> QED
    BY <1>0, <1>4, <2>1 DEF HandleWrite, Rotating
<1>5. ASSUME NEW t \in Tabs, Deliver(t) \/ NetworkFailure(t)
      PROVE  FlightSame(o) \/ FlightEnds(o)
  BY <1>0, <1>5 DEF Deliver, NetworkFailure, RefreshFails
<1>6. ASSUME NEW t \in Tabs,
             \/ Login(t) \/ Logout(t) \/ LogoutAll(t) \/ RevokeAllOthers(t) \/ AccessLapses(t)
             \/ \E s \in Sessions : Revoke(t, s) \/ PermanentDelete(t, s)
      PROVE  UNCHANGED refresh
  BY <1>6 DEF Login, Logout, LogoutAll, RevokeAllOthers, AccessLapses, Revoke, PermanentDelete
<1>7. ASSUME \/ PasswordReset
             \/ \E s \in Sessions : GraceEnds(s) \/ SessionExpires(s)
      PROVE  UNCHANGED refresh
  BY <1>7 DEF PasswordReset, GraceEnds, SessionExpires
<1> QED
  BY <1>1, <1>2, <1>3, <1>4, <1>5, <1>6, <1>7 DEF Next, Tab, Refreshing, Answering

\* The read of an active row, and the rotation of it.
LookedAt(t, s) ==
  /\ row[s].state = "active" /\ UNCHANGED <<row, logins, jar, mishap>>
  /\ refresh[t].stage = "sent" /\ refresh[t].sent \in Places(s)
  /\ \A o \in Tabs : o # t => refresh'[o] = refresh[o]
  /\ refresh'[t].stage = "read" /\ refresh'[t].session = s
  /\ refresh'[t].seen = row[s].current /\ refresh'[t].answer = NoToken

RotatedTo(t, k) ==
  /\ refresh[t].session \in Sessions /\ refresh[t].stage = "read"
  /\ \A s \in Sessions : s # refresh[t].session => row'[s] = row[s]
  /\ LET s == refresh[t].session
     IN  /\ row'[s].current = k /\ row'[s].previous = refresh[t].seen
         /\ row'[s].state = row[s].state /\ (row[s].state = "active" => row'[s].fresh)
  /\ \A o \in Tabs : o # t => refresh'[o] = refresh[o]
  /\ refresh'[t].stage = "answered" /\ refresh'[t].answer = k
  /\ refresh'[t].session = refresh[t].session
  /\ UNCHANGED <<logins, jar>>
  /\ mishap' # "slow" => mishap # "slow"
  /\ mishap' = "none" => /\ mishap = "none" /\ row[refresh[t].session].current = refresh[t].seen
                         /\ ~Overtakes(t)

LEMMA LookingIs ==
  ASSUME TypeOK, CookieInv, NEW t \in Tabs, HandleRead(t), refresh'[t].stage = "read"
  PROVE  \E s \in Sessions : LookedAt(t, s)
<1>0. refresh \in [Tabs -> Flight] /\ Idle.stage = "idle" /\ Idle.answer = NoToken
  BY TypeOKNamed DEF Idle
<1>1. ~Refuse(t)
  BY <1>0 DEF Refuse, Idle
<1>2. refresh[t].sent # NoToken /\ refresh[t].stage = "sent"
  BY DEF CookieInv, HandleRead
<1>3. PICK s \in Sessions : /\ row[s].state = "active" /\ refresh[t].sent \in Places(s)
                            /\ Read(t, s) /\ UNCHANGED row
  <2>1. \E s \in ByCurrent(refresh[t].sent) \cup ByPrevious(refresh[t].sent) :
          row[s].state = "active" /\ Read(t, s) /\ UNCHANGED row
    BY <1>1 DEF HandleRead, WithinGrace
  <2> QED
    BY <1>2, <2>1 DEF ByCurrent, ByPrevious, Places
<1>4. /\ \A o \in Tabs : o # t => refresh'[o] = refresh[o]
      /\ refresh'[t].session = s
      /\ refresh'[t].seen = row[s].current /\ refresh'[t].answer = NoToken
  BY <1>0, <1>3 DEF Read, Idle
<1> QED
  BY <1>2, <1>3, <1>4 DEF LookedAt, HandleRead

LEMMA RotatingIs ==
  ASSUME TypeOK, TokensApart, NEW t \in Tabs, HandleWrite(t), Exists(refresh[t].session)
  PROVE  \E k \in NewTokens : RotatedTo(t, k)
<1> DEFINE s == refresh[t].session
<1>0. refresh \in [Tabs -> Flight] /\ row \in [Sessions -> Row] /\ mishap \in Mishaps
  BY TypeOKNamed
<1>1. PICK k \in NewTokens :
        /\ row' = [row EXCEPT ![s] = Rotated(s, refresh[t].seen, k)]
        /\ refresh' = [refresh EXCEPT ![t] = [@ EXCEPT !.stage = "answered",
                                                      !.answer = k, !.seen = NoToken]]
        /\ mishap' = IF row[s].current # refresh[t].seen \/ Overtakes(t) THEN Upset ELSE mishap
  BY DEF HandleWrite
<1>2. s \in Sessions /\ refresh[t].stage = "read"
  BY DEF HandleWrite, TokensApart, SeenApart, Reading
<1>3. /\ \A o \in Tabs : o # t => refresh'[o] = refresh[o]
      /\ refresh'[t].stage = "answered" /\ refresh'[t].answer = k /\ refresh'[t].session = s
  BY <1>0, <1>1 DEF Flight
<1>4. /\ \A r \in Sessions : r # s => row'[r] = row[r]
      /\ row'[s] = Rotated(s, refresh[t].seen, k)
  BY <1>0, <1>1, <1>2
<1>5. /\ row'[s].current = k /\ row'[s].previous = refresh[t].seen
      /\ row'[s].state = row[s].state /\ (row[s].state = "active" => row'[s].fresh)
  BY <1>0, <1>2, <1>4, RotatedColumns
<1>6. /\ mishap' # "slow" => mishap # "slow"
      /\ mishap' = "none" => mishap = "none" /\ row[s].current = refresh[t].seen /\ ~Overtakes(t)
  BY <1>0, <1>1 DEF Upset, Mishaps
<1> QED
  BY <1>2, <1>3, <1>4, <1>5, <1>6 DEF RotatedTo, HandleWrite

\* The cookie is what it was, forgotten, an answer or a new login's.
JarAnswered(t) ==
  /\ Deliver(t) /\ refresh[t].answer # NoToken
  /\ jar'.refresh = refresh[t].answer /\ jar'.mark = jar.mark
JarRenewed == \E k \in NewTokens : jar' = [refresh |-> k, mark |-> TRUE]

LEMMA JarSteps ==
  ASSUME TypeOK, Next
  PROVE  \/ jar' = jar
         \/ jar'.refresh = NoToken /\ ~jar'.mark
         \/ \E t \in Tabs : JarAnswered(t)
         \/ Signing /\ JarRenewed
<1>0. jar \in [refresh: Token, mark: BOOLEAN]
  BY TypeOKNamed
<1>1. ASSUME NEW t \in Tabs, Deliver(t)
      PROVE  jar' = jar \/ JarAnswered(t)
  BY <1>0, <1>1 DEF Deliver, JarAnswered
<1>2. ASSUME NEW t \in Tabs, Login(t)
      PROVE  Signing /\ JarRenewed
  BY <1>2 DEF Login, Signing, JarRenewed
<1>3. ASSUME NEW t \in Tabs, Logout(t) \/ LogoutAll(t)
      PROVE  jar' = jar \/ (jar'.refresh = NoToken /\ ~jar'.mark)
  BY <1>3 DEF Logout, LogoutAll, Forgotten
<1>4. ASSUME NEW t \in Tabs,
             \/ Load(t) \/ RevokeAllOthers(t) \/ Request(t) \/ HandleRead(t) \/ HandleWrite(t)
             \/ NetworkFailure(t) \/ AccessLapses(t)
             \/ \E s \in Sessions : Revoke(t, s) \/ PermanentDelete(t, s)
      PROVE  jar' = jar
  BY <1>4 DEF Load, RevokeAllOthers, Request, HandleRead, HandleWrite, NetworkFailure,
              AccessLapses, Revoke, PermanentDelete
<1>5. ASSUME \/ PasswordReset
             \/ \E s \in Sessions : GraceEnds(s) \/ SessionExpires(s)
      PROVE  jar' = jar
  BY <1>5 DEF PasswordReset, GraceEnds, SessionExpires
<1> QED
  BY <1>1, <1>2, <1>3, <1>4, <1>5 DEF Next, Tab, Refreshing, Answering

\* A login takes the next row, a new token and the cookies, and no refresh along.
SignedIn(k) ==
  /\ logins' = logins + 1 /\ logins' \in Sessions
  /\ \A s \in Sessions : s # logins' => row'[s] = row[s]
  /\ row'[logins'] = [current |-> k, previous |-> NoToken, fresh |-> TRUE, state |-> "active"]
  /\ jar' = [refresh |-> k, mark |-> TRUE]
  /\ UNCHANGED refresh
  /\ mishap' = "none" => \A o \in Tabs : refresh[o].stage = "idle"

LEMMA SigningIs ==
  ASSUME TypeOK, NEW t \in Tabs, Login(t)
  PROVE  \E k \in NewTokens : SignedIn(k)
<1>0. row \in [Sessions -> Row] /\ logins \in 0..MaxSessions /\ mishap \in Mishaps
  BY TypeOKNamed
<1>1. PICK k \in NewTokens :
        /\ row' = [row EXCEPT ![logins'] = [current |-> k, previous |-> NoToken,
                                            fresh |-> TRUE, state |-> "active"]]
        /\ jar' = [refresh |-> k, mark |-> TRUE]
  BY DEF Login
<1>2. logins' = logins + 1 /\ logins' \in Sessions /\ UNCHANGED refresh
  BY <1>0, BoundsAssumption DEF Login, Sessions
<1>3. mishap' = "none" => \A o \in Tabs : refresh[o].stage = "idle"
  BY <1>0 DEF Login, Upset, Mishaps, InFlight
<1> QED
  BY <1>0, <1>1, <1>2, <1>3 DEF SignedIn

\* A mishap is not forgotten, and "slow" not replaced.
LEMMA MishapSteps ==
  ASSUME TypeOK, Next
  PROVE  /\ mishap = "slow" => mishap' = "slow"
         /\ mishap' = "none" => mishap = "none"
<1>0. mishap \in Mishaps /\ (mishap = "slow" => Upset = "slow") /\ Upset # "none"
  BY TypeOKNamed DEF Upset, Mishaps
<1>1. ASSUME NEW t \in Tabs, Tab(t)
      PROVE  mishap' = mishap \/ mishap' = Upset
  <2>1. CASE Load(t) \/ Login(t) \/ Request(t) \/ HandleWrite(t) \/ NetworkFailure(t)
    BY <2>1 DEF Load, Login, Request, HandleWrite, NetworkFailure
  <2>2. CASE Logout(t) \/ LogoutAll(t) \/ Deliver(t)
    BY <2>2 DEF Logout, LogoutAll, Deliver
  <2>3. CASE \/ RevokeAllOthers(t) \/ HandleRead(t) \/ AccessLapses(t)
             \/ \E s \in Sessions : Revoke(t, s) \/ PermanentDelete(t, s)
    BY <2>3 DEF RevokeAllOthers, HandleRead, AccessLapses, Revoke, PermanentDelete
  <2> QED
    BY <1>1, <2>1, <2>2, <2>3 DEF Tab, Refreshing, Answering
<1>2. ASSUME PasswordReset \/ \E s \in Sessions : GraceEnds(s) \/ SessionExpires(s)
      PROVE  mishap' = mishap \/ mishap' = "slow"
  BY <1>2 DEF PasswordReset, GraceEnds, SessionExpires
<1> QED
  BY <1>0, <1>1, <1>2 DEF Next

\* A token comes to be held by being handed on or by being new.
LEMMA HoldersSteps ==
  ASSUME TypeOK, TokensApart, CookieInv, Next
  PROVE  \A h \in Holders' : h = NoToken \/ h \in Holders \/ h \in NewTokens
<1> DEFINE Fine(h) == h = NoToken \/ h \in Holders \/ h \in NewTokens
<1>1. Fine(jar'.refresh)
  BY JarSteps DEF Holders, JarAnswered, JarRenewed
<1>2. ASSUME NEW o \in Tabs
      PROVE  /\ refresh'[o].stage = "sent" => Fine(refresh'[o].sent)
             /\ Fine(refresh'[o].answer)
  <2>1. CASE Rotating
    <3>1. PICK t \in Tabs : HandleWrite(t) /\ Exists(refresh[t].session)
      BY <2>1 DEF Rotating
    <3>2. PICK k \in NewTokens : RotatedTo(t, k)
      BY <3>1, RotatingIs
    <3> QED
      BY <3>2 DEF RotatedTo, Holders
  <2>2. CASE Looking
    <3>1. PICK t \in Tabs : HandleRead(t) /\ refresh'[t].stage = "read"
      BY <2>2 DEF Looking
    <3>2. PICK s \in Sessions : LookedAt(t, s)
      BY <3>1, LookingIs
    <3> QED
      BY <3>2 DEF LookedAt, Holders
  <2>3. CASE ~Rotating /\ ~Looking
    BY <2>3, FlightSteps DEF FlightSame, FlightEnds, FlightStarts, Holders
  <2> QED
    BY <2>1, <2>2, <2>3
<1> QED
  BY <1>1, <1>2 DEF Holders

LEMMA CookieStep ==
  ASSUME TypeOK, TokensApart, CookieInv, Next
  PROVE  CookieInv'
<1>1. jar'.mark => jar'.refresh # NoToken
  <2>1. CASE jar' = jar
    BY <2>1 DEF CookieInv
  <2>2. CASE JarRenewed
    BY <2>2, NewTokenIsNew DEF JarRenewed
  <2>3. CASE \E t \in Tabs : JarAnswered(t)
    BY <2>3 DEF JarAnswered
  <2> QED
    BY <2>1, <2>2, <2>3, JarSteps
<1>2. ASSUME NEW o \in Tabs
      PROVE  /\ refresh'[o].stage = "sent" => refresh'[o].sent # NoToken
             /\ refresh'[o].stage # "answered" => refresh'[o].answer = NoToken
  <2>1. CASE Rotating
    <3>1. PICK t \in Tabs : HandleWrite(t) /\ Exists(refresh[t].session)
      BY <2>1 DEF Rotating
    <3>2. PICK k \in NewTokens : RotatedTo(t, k)
      BY <3>1, RotatingIs
    <3> QED
      BY <3>2 DEF RotatedTo, CookieInv
  <2>2. CASE Looking
    <3>1. PICK t \in Tabs : HandleRead(t) /\ refresh'[t].stage = "read"
      BY <2>2 DEF Looking
    <3>2. PICK s \in Sessions : LookedAt(t, s)
      BY <3>1, LookingIs
    <3> QED
      BY <3>2 DEF LookedAt, CookieInv
  <2>3. CASE ~Rotating /\ ~Looking
    BY <2>3, FlightSteps DEF FlightSame, FlightEnds, FlightStarts, CookieInv
  <2> QED
    BY <2>1, <2>2, <2>3
<1> QED
  BY <1>1, <1>2 DEF CookieInv

\* A token before the current one that nobody holds is never held again, and the
\* grace period that ends while one is held is a mishap.
LEMMA GraceStep ==
  ASSUME TypeOK, TokensApart, CookieInv, GraceInv, Next
  PROVE  GraceInv'
<1> SUFFICES ASSUME mishap' # "slow", NEW s \in Sessions, Stale(s)'
             PROVE  ~HoldsPrevious(s)'
  BY DEF GraceInv
<1>0. row \in [Sessions -> Row] /\ mishap # "slow"
  BY TypeOKNamed, MishapSteps
<1>1. CASE \E r \in Sessions : GraceEnds(r)
  <2>1. PICK r \in Sessions : GraceEnds(r)
    BY <1>1
  <2>2. UNCHANGED <<jar, refresh>> /\ row'[s].previous = row[s].previous
    BY <1>0, <2>1 DEF GraceEnds, Row
  <2>3. HoldsPrevious(s)' <=> HoldsPrevious(s)
    BY <2>2 DEF HoldsPrevious
  <2>4. s # r => Stale(s)
    BY <1>0, <2>1 DEF GraceEnds, Stale
  <2>5. s = r => ~HoldsPrevious(s)
    BY <2>1, <2>2 DEF GraceEnds, Stale
  <2> QED
    BY <1>0, <2>3, <2>4, <2>5 DEF GraceInv
<1>2. ASSUME row'[s].previous = row[s].previous, row'[s].fresh = row[s].fresh,
             row'[s].state = row[s].state
      PROVE  ~HoldsPrevious(s)'
  <2>1. row[s].previous # NoToken /\ row[s].previous \notin Holders
    BY <1>0, <1>2, HeldIsHolder DEF GraceInv, Stale
  <2>2. row[s].previous \notin NewTokens
    BY NewTokenIsNew
  <2> QED
    BY <1>2, <2>1, <2>2, HoldersSteps, HeldIsHolder
<1>3. CASE Signing
  <2>1. PICK t \in Tabs : Login(t)
    BY <1>3 DEF Signing
  <2>2. PICK k \in NewTokens : SignedIn(k)
    BY <2>1, SigningIs
  <2>3. s # logins'
    BY <2>2 DEF SignedIn, Stale
  <2> QED
    BY <1>2, <2>2, <2>3 DEF SignedIn
<1>4. CASE Rotating
  <2>1. PICK t \in Tabs : HandleWrite(t) /\ Exists(refresh[t].session)
    BY <1>4 DEF Rotating
  <2>2. PICK k \in NewTokens : RotatedTo(t, k)
    BY <2>1, RotatingIs
  <2>3. row'[s] = row[s]
    BY <2>2 DEF RotatedTo, Stale
  <2> QED
    BY <1>2, <2>3
<1>5. CASE ~Signing /\ ~Rotating /\ ~(\E r \in Sessions : GraceEnds(r))
  BY <1>2, <1>5, RowsKeptOrLeft DEF RowKept, RowDated, RowLeft, Stale
<1> QED
  BY <1>1, <1>3, <1>4, <1>5

LEMMA ApartStep ==
  ASSUME TypeOK, TokensApart, CookieInv, Next
  PROVE  TokensApart'
<1> USE DEF TokensApart
<1>1. CASE Signing
  <2>1. PICK t \in Tabs : Login(t)
    BY <1>1 DEF Signing
  <2>2. PICK k \in NewTokens : SignedIn(k)
    BY <2>1, SigningIs
  <2>3. /\ k # NoToken
        /\ \A s \in Sessions : k \notin Places(s)
        /\ \A o \in Tabs : k # refresh[o].seen
    BY NewTokenIsNew
  <2>4. /\ \A s \in Sessions : s = logins' => Places(s)' = {k}
        /\ \A s \in Sessions : s # logins' => Places(s)' = Places(s)
    BY <2>2, <2>3 DEF SignedIn, Places, NoToken
  <2>5. ASSUME NEW s \in Sessions
        PROVE  RowApart(s)'
    <3>1. CASE s = logins'
      <4>1. row'[s].state = "active" /\ row'[s].current = k /\ row'[s].previous = NoToken
        BY <2>2, <3>1 DEF SignedIn
      <4> QED
        BY <2>3, <2>4, <3>1, <4>1 DEF RowApart
    <3>2. CASE s # logins'
      <4>1. row'[s] = row[s] /\ RowApart(s)
        BY <2>2, <3>2 DEF SignedIn
      <4> QED
        BY <2>3, <2>4, <3>2, <4>1 DEF RowApart
    <3> QED
      BY <3>1, <3>2
  <2>6. ASSUME NEW o \in Tabs, Reading(o)'
        PROVE  SeenApart(o)'
    <3>1. Reading(o) /\ SeenApart(o) /\ refresh' = refresh
      BY <2>2, <2>6 DEF SignedIn, Reading
    <3> QED
      BY <2>3, <2>4, <3>1 DEF SeenApart, Reading
  <2> QED
    BY <2>5, <2>6
<1>2. CASE Rotating
  <2>1. PICK t \in Tabs : HandleWrite(t) /\ Exists(refresh[t].session)
    BY <1>2 DEF Rotating
  <2>2. PICK k \in NewTokens : RotatedTo(t, k)
    BY <2>1, RotatingIs
  <2>0. PICK r \in Sessions, n \in Token : r = refresh[t].session /\ n = refresh[t].seen
    BY <2>2, TypeOKNamed DEF RotatedTo, Flight
  <2>3. /\ k # NoToken /\ k # n
        /\ \A s \in Sessions : k \notin Places(s)
        /\ \A o \in Tabs : k # refresh[o].seen
    BY <2>0, NewTokenIsNew
  <2>4. r \in Sessions /\ Reading(t) /\ SeenApart(t)
    BY <2>0, <2>2 DEF RotatedTo, Reading
  <2>5. /\ Places(r)' = {k, n}
        /\ \A s \in Sessions : s # r => Places(s)' = Places(s)
    BY <2>0, <2>2, <2>3, <2>4 DEF RotatedTo, Places, SeenApart
  <2>6. \A s \in Sessions : s # r => Places(r)' \cap Places(s)' = {}
    BY <2>0, <2>3, <2>4, <2>5 DEF RowApart, SeenApart
  <2>7. ASSUME NEW s \in Sessions
        PROVE  RowApart(s)'
    <3>1. CASE s = r
      BY <2>0, <2>2, <2>3, <2>6, <3>1 DEF RotatedTo, RowApart
    <3>2. CASE s # r
      <4>1. row'[s] = row[s] /\ RowApart(s)
        BY <2>0, <2>2, <3>2 DEF RotatedTo
      <4>2. Places(s)' = Places(s) /\ Places(s)' \cap Places(r)' = {}
        BY <2>5, <2>6, <3>2
      <4>3. \A q \in Sessions : s # q => Places(s)' \cap Places(q)' = {}
        BY <2>5, <4>1, <4>2 DEF RowApart
      <4> QED
        BY <4>1, <4>2, <4>3 DEF RowApart
    <3> QED
      BY <3>1, <3>2
  <2>8. ASSUME NEW o \in Tabs, Reading(o)'
        PROVE  SeenApart(o)'
    <3>1. o # t
      BY <2>2, <2>8 DEF RotatedTo, Reading
    <3>2. Reading(o) /\ SeenApart(o) /\ refresh'[o] = refresh[o]
      BY <2>2, <2>8, <3>1 DEF RotatedTo, Reading
    <3>3. \A s \in Sessions : s # refresh[o].session => refresh[o].seen \notin Places(s)'
      <4>1. r # refresh[o].session => refresh[o].seen # n /\ refresh[o].seen # k
        BY <2>0, <2>3, <2>4, <3>2 DEF SeenApart
      <4>2. r # refresh[o].session => refresh[o].seen \notin Places(r)'
        BY <2>4, <2>5, <3>2, <4>1 DEF SeenApart
      <4> QED
        BY <2>5, <3>2, <4>2 DEF SeenApart
    <3>4. \A p \in Tabs : Reading(p)' => Reading(p) /\ refresh'[p] = refresh[p]
      BY <2>2 DEF RotatedTo, Reading
    <3> QED
      BY <3>2, <3>3, <3>4 DEF SeenApart
  <2> QED
    BY <2>7, <2>8
<1>3. CASE Looking
  <2>1. PICK t \in Tabs : HandleRead(t) /\ refresh'[t].stage = "read"
    BY <1>3 DEF Looking
  <2>2. PICK r \in Sessions : LookedAt(t, r)
    BY <2>1, LookingIs
  <2>3. \A s \in Sessions : Places(s)' = Places(s) /\ RowApart(s)'
    BY <2>2 DEF LookedAt, Places, RowApart
  <2>4. /\ row[r].current # NoToken /\ row[r].current \in Places(r)
        /\ \A s \in Sessions : s # r => row[r].current \notin Places(s)
    BY <2>2 DEF LookedAt, RowApart, Places
  <2>5. \A o \in Tabs : o # t /\ Reading(o)' =>
           /\ Reading(o) /\ refresh'[o] = refresh[o] /\ SeenApart(o)
           /\ refresh[o].session # r => refresh[o].seen # row[r].current
    BY <2>2, <2>4 DEF LookedAt, Reading, SeenApart
  <2>6. ASSUME NEW o \in Tabs, Reading(o)'
        PROVE  SeenApart(o)'
    <3>1. refresh'[t].seen = row[r].current /\ refresh'[t].session = r
      BY <2>2 DEF LookedAt
    <3>2. CASE o = t
      BY <2>3, <2>4, <2>5, <3>1, <3>2 DEF SeenApart
    <3>3. CASE o # t
      BY <2>3, <2>5, <2>6, <3>1, <3>3 DEF SeenApart
    <3> QED
      BY <3>2, <3>3
  <2> QED
    BY <2>3, <2>6
<1>4. CASE ~Signing /\ ~Rotating /\ ~Looking
  <2>1. \A s \in Sessions : RowKept(s) \/ RowLeft(s)
    BY <1>4, RowsKeptOrLeft
  <2>2. \A s \in Sessions : Places(s)' \subseteq Places(s)
    BY <2>1 DEF RowKept, RowLeft, Places
  <2>3. ASSUME NEW s \in Sessions
        PROVE  RowApart(s)'
    <3>1. \A r \in Sessions : s # r => Places(s)' \cap Places(r)' = {}
      BY <2>2 DEF RowApart
    <3> QED
      BY <2>1, <3>1 DEF RowKept, RowLeft, RowApart, Places
  <2>4. \A o \in Tabs : Reading(o)' => Reading(o) /\ refresh'[o] = refresh[o]
    BY <1>4, FlightSteps DEF FlightSame, FlightEnds, FlightStarts, Reading
  <2>5. ASSUME NEW o \in Tabs, Reading(o)'
        PROVE  SeenApart(o)'
    <3>1. Reading(o) /\ SeenApart(o) /\ refresh'[o] = refresh[o]
      BY <2>4, <2>5
    <3>2. \A r \in Sessions : r # refresh[o].session => refresh[o].seen \notin Places(r)'
      BY <2>2, <3>1 DEF SeenApart
    <3> QED
      BY <2>4, <3>1, <3>2 DEF SeenApart
  <2> QED
    BY <2>3, <2>5
<1> QED
  BY <1>1, <1>2, <1>3, <1>4

TokenInv == TypeOK /\ TokensApart /\ CookieInv /\ GraceInv

LEMMA TokenInvAlways == Spec => []TokenInv
<1>1. Init /\ TypeOK => TokenInv
  BY DEF Init, TokenInv, TokensApart, RowApart, SeenApart, Reading, Places, CookieInv, GraceInv,
         Stale, NoRow, Idle, Forgotten, NoToken
<1>2. TokenInv /\ TypeOK' /\ [Next]_vars => TokenInv'
  <2>1. TokenInv /\ TypeOK' /\ UNCHANGED vars => TokenInv'
    BY DEF vars, TokenInv, TokensApart, RowApart, SeenApart, Reading, Places, CookieInv, GraceInv,
           Stale, HoldsPrevious
  <2> QED
    BY <2>1, ApartStep, CookieStep, GraceStep DEF TokenInv
<1> QED
  BY <1>1, <1>2, TypeCorrect, PTL DEF Spec

\* Only the read of a refresh takes a session for stolen.
LEMMA CompromisedByRead ==
  ASSUME TypeOK, Next, NEW s \in Sessions,
         row[s].state # "compromised", row'[s].state = "compromised"
  PROVE  \E t \in Tabs : HandleRead(t)
<1>0. row \in [Sessions -> Row]
  BY TypeOKNamed
<1>1. ~UNCHANGED row
  OBVIOUS
<1>2. ASSUME NEW kept, row' = RevokedExcept(kept)
      PROVE  FALSE
  BY <1>0, <1>2, RowColumns DEF RevokedExcept
<1>3. ASSUME NEW t \in Tabs, Tab(t), ~HandleRead(t)
      PROVE  FALSE
  <2>1. CASE \/ Load(t) \/ Request(t) \/ Deliver(t) \/ NetworkFailure(t) \/ AccessLapses(t)
    BY <1>1, <2>1 DEF Load, Request, Deliver, NetworkFailure, AccessLapses
  <2>2. CASE Login(t)
    BY <1>0, <2>2 DEF Login
  <2>3. CASE Logout(t) \/ \E r \in Sessions : Revoke(t, r) \/ PermanentDelete(t, r)
    BY <1>0, <2>3, RowColumns DEF Logout, Revoke, PermanentDelete, Deleted, NoRow
  <2>4. CASE LogoutAll(t) \/ RevokeAllOthers(t)
    BY <1>1, <1>2, <2>4 DEF LogoutAll, RevokeAllOthers
  <2>5. CASE HandleWrite(t)
    <3>1. PICK k \in NewTokens :
            row' = [row EXCEPT ![refresh[t].session] =
                      Rotated(refresh[t].session, refresh[t].seen, k)]
      BY <1>1, <2>5 DEF HandleWrite
    <3> QED
      BY <1>0, <3>1, RotatedColumns
  <2> QED
    BY <1>3, <2>1, <2>2, <2>3, <2>4, <2>5 DEF Tab, Refreshing, Answering
<1>4. ASSUME NEW r \in Sessions, GraceEnds(r) \/ SessionExpires(r)
      PROVE  FALSE
  BY <1>0, <1>4, RowColumns DEF GraceEnds, SessionExpires, Row
<1> QED
  BY <1>2, <1>3, <1>4 DEF Next, PasswordReset

\* An honest browser of an active session is taken for a thief only if it still held
\* the token before the current one when its grace period ended. A session that was
\* over already is marked by that token at once.
THEOREM CompromiseIsSlow == Spec => CompromiseNeedsDelay
<1> DEFINE Delayed == \A s \in Sessions :
              row[s].state # "compromised" /\ row'[s].state = "compromised"
                => mishap = "slow" \/ row[s].state \in {"revoked", "expired"}
<1>1. TokenInv /\ [Next]_vars => [Delayed]_vars
  <2> SUFFICES ASSUME TokenInv, Next, NEW s \in Sessions,
                      row[s].state # "compromised", row'[s].state = "compromised",
                      row[s].state \notin {"revoked", "expired"}
               PROVE  mishap = "slow"
    OBVIOUS
  <2>0. row \in [Sessions -> Row]
    BY TypeOKNamed DEF TokenInv
  <2>1. PICK t \in Tabs : HandleRead(t)
    BY CompromisedByRead DEF TokenInv
  <2>2. PICK r \in ByPrevious(refresh[t].sent) :
          ~WithinGrace(r) /\ row' = [row EXCEPT ![r] = Left(@, "compromised")]
    BY <2>1 DEF HandleRead
  <2>3. r = s
    BY <2>0, <2>2 DEF ByPrevious
  <2>4. row[s].state = "active"
    BY <2>0, <2>2, <2>3 DEF ByPrevious, Exists, Row, States
  <2>5. refresh[t].stage = "sent" /\ row[s].previous = refresh[t].sent /\ ~row[s].fresh
    BY <2>1, <2>2, <2>3, <2>4 DEF HandleRead, ByPrevious, WithinGrace
  <2>6. HoldsPrevious(s) /\ Stale(s)
    BY <2>4, <2>5 DEF HoldsPrevious, Stale, TokenInv, CookieInv
  <2> QED
    BY <2>6 DEF TokenInv, GraceInv
<1> QED
  BY <1>1, TokenInvAlways, PTL DEF Spec, CompromiseNeedsDelay

-----------------------------------------------------------------------------
(* While all goes well: the session logged in last is active, the browser  *)
(* remembers it, and no mishap happened. Then every refresh under way has  *)
(* a token its row knows, and the cookie is one rotation behind at most    *)
(* unless two answers are still on their way.                              *)

Calm == mishap = "none" /\ jar.mark /\ logins # 0 /\ row[logins].state = "active"

InStep(t) ==
  /\ refresh[t].stage = "sent"
       => refresh[t].sent \in {row[logins].current, row[logins].previous}
  /\ refresh[t].stage \in {"read", "answered"} => refresh[t].session = logins
  /\ refresh[t].stage = "answered" => refresh[t].answer # NoToken

Answered(k) == \E o \in Tabs : refresh[o].answer = k

CookieInStep ==
  \/ jar.refresh = row[logins].current
  \/ jar.refresh = row[logins].previous /\ Answered(row[logins].current)
  \/ Behind

CalmInv == Calm => CookieInStep /\ \A t \in Tabs : InStep(t)

\* A step that leaves the cookies and the tokens of the row alone, and either no
\* refresh or one that was not answered, leaves the rest in step as well.
NowKept == /\ UNCHANGED <<logins, jar>>
           /\ row'[logins].current = row[logins].current
           /\ row'[logins].previous = row[logins].previous
           /\ row'[logins].state = row[logins].state

LEMMA CookieStaysInStep ==
  ASSUME CookieInStep, NowKept, \A o \in Tabs : refresh'[o].answer = refresh[o].answer
  PROVE  CookieInStep'
BY DEF CookieInStep, NowKept, Behind, Answered

LEMMA OthersStayInStep ==
  ASSUME NEW o \in Tabs, InStep(o), NowKept, refresh'[o] = refresh[o]
  PROVE  InStep(o)'
BY DEF InStep, NowKept

\* Nothing but a login makes all well again.
LEMMA CalmBefore ==
  ASSUME TypeOK, Next, Calm', ~Signing
  PROVE  Calm /\ logins \in Sessions /\ UNCHANGED logins
<1>1. mishap = "none"
  BY MishapSteps DEF Calm
<1>2. UNCHANGED logins
  <2>1. ASSUME NEW t \in Tabs, Tab(t)
        PROVE  UNCHANGED logins
    <3>1. CASE \/ Load(t) \/ Logout(t) \/ LogoutAll(t) \/ RevokeAllOthers(t) \/ AccessLapses(t)
               \/ \E s \in Sessions : Revoke(t, s) \/ PermanentDelete(t, s)
      BY <3>1 DEF Load, Logout, LogoutAll, RevokeAllOthers, AccessLapses, Revoke, PermanentDelete
    <3>2. CASE Refreshing(t) \/ NetworkFailure(t)
      BY <3>2 DEF Refreshing, Answering, Request, HandleRead, HandleWrite, Deliver, NetworkFailure
    <3> QED
      BY <2>1, <3>1, <3>2 DEF Tab, Signing
  <2> QED
    BY <2>1 DEF Next, PasswordReset, GraceEnds, SessionExpires
<1>3. logins \in Sessions
  BY <1>2, TypeOKNamed, BoundsAssumption DEF Calm, Sessions
<1>4. jar.mark
  BY JarSteps DEF Calm, JarAnswered
<1>5. row[logins].state = "active"
  <2>1. CASE Rotating
    <3>1. PICK t \in Tabs : HandleWrite(t) /\ Exists(refresh[t].session)
      BY <2>1 DEF Rotating
    <3>2. PICK k \in NewTokens :
            row' = [row EXCEPT ![refresh[t].session] =
                      Rotated(refresh[t].session, refresh[t].seen, k)]
      BY <3>1 DEF HandleWrite
    <3> QED
      BY <1>2, <1>3, <3>2, TypeOKNamed, RotatedColumns DEF Calm
  <2>2. CASE ~Rotating
    BY <1>2, <1>3, <2>2, RowsKeptOrLeft DEF RowKept, RowLeft, Calm
  <2> QED
    BY <2>1, <2>2
<1> QED
  BY <1>1, <1>2, <1>3, <1>4, <1>5 DEF Calm

\* A step of none of the tabs' refreshes
LEMMA CalmRest ==
  ASSUME TypeOK, CalmInv, Next, Calm', ~Signing, ~Rotating, UNCHANGED <<jar, refresh>>
  PROVE  CookieInStep' /\ \A t \in Tabs : InStep(t)'
<1>1. Calm /\ logins \in Sessions /\ UNCHANGED logins
  BY CalmBefore
<1>2. NowKept
  BY <1>1, RowsKeptOrLeft DEF RowKept, RowLeft, NowKept, Calm
<1> QED
  BY <1>1, <1>2, CookieStaysInStep, OthersStayInStep DEF CalmInv

\* A refresh that starts takes the cookie, which the row knows unless two answers
\* are on their way; a reload in that case, or of an answered tab, is a mishap.
LEMMA CalmSending ==
  ASSUME TokenInv, CalmInv, Next, Calm', NEW t \in Tabs, Load(t) \/ Request(t)
  PROVE  CookieInStep' /\ \A o \in Tabs : InStep(o)'
<1>0. refresh \in [Tabs -> Flight] /\ TypeOK
  BY TypeOKNamed DEF TokenInv
<1>1. ~Signing /\ ~Rotating /\ UNCHANGED <<row, logins, jar>>
  <2>1. UNCHANGED <<row, logins, jar>>
    BY DEF Load, Request
  <2>2. ~Signing
    BY <1>0, <2>1, TypeOKNamed DEF Signing, Login
  <2>3. ~Rotating
    <3>1. SUFFICES ASSUME NEW o \in Tabs, HandleWrite(o), Exists(refresh[o].session)
                   PROVE  FALSE
      BY DEF Rotating
    <3>2. refresh'[o].stage = "answered" /\ refresh[o].stage = "read"
      BY <1>0, <3>1 DEF HandleWrite, Flight
    <3> QED
      BY <1>0, <3>1, <3>2 DEF Load, Request, Sending, Idle, InFlight
  <2> QED
    BY <2>1, <2>2, <2>3
<1>2. Calm /\ logins \in Sessions
  BY <1>0, <1>1, CalmBefore
<1>3. CookieInStep /\ \A o \in Tabs : InStep(o)
  BY <1>2 DEF CalmInv
<1>4. refresh[t].answer = NoToken /\ ~Behind
  <2>1. Upset # "none"
    BY DEF Upset
  <2>2. CASE Load(t)
    BY <1>2, <2>1, <2>2 DEF Load, Calm
  <2>3. CASE Request(t)
    BY <1>2, <2>1, <2>3 DEF Request, Calm, InFlight, TokenInv, CookieInv
  <2> QED
    BY <2>2, <2>3
<1>5. PICK init : refresh' = [refresh EXCEPT ![t] = Sending(init)]
  BY <1>2 DEF Load, Request, Calm
<1>6. /\ refresh'[t].stage = "sent" /\ refresh'[t].sent = jar.refresh
      /\ refresh'[t].answer = NoToken
      /\ \A o \in Tabs : o # t => refresh'[o] = refresh[o]
  BY <1>0, <1>5 DEF Sending, Idle
<1>7. NowKept
  BY <1>1 DEF NowKept
<1>8. CookieInStep'
  BY <1>3, <1>4, <1>6, <1>7, CookieStaysInStep
<1>9. InStep(t)'
  BY <1>3, <1>4, <1>6, <1>7 DEF InStep, CookieInStep, NowKept
<1> QED
  BY <1>3, <1>6, <1>7, <1>8, <1>9, OthersStayInStep

\* A token the row of the last login knows is in no other row: the read finds it.
LEMMA CalmReading ==
  ASSUME TokenInv, CalmInv, Next, Calm', NEW t \in Tabs, HandleRead(t), ~Signing
  PROVE  CookieInStep' /\ \A o \in Tabs : InStep(o)'
<1>0. refresh \in [Tabs -> Flight] /\ row \in [Sessions -> Row] /\ TypeOK
  BY TypeOKNamed DEF TokenInv
<1>1. Calm /\ logins \in Sessions /\ UNCHANGED logins
  BY <1>0, CalmBefore
<1>2. CookieInStep /\ \A o \in Tabs : InStep(o)
  BY <1>1 DEF CalmInv
<1> DEFINE k == refresh[t].sent
<1>3. k # NoToken /\ k \in Places(logins) /\ refresh[t].stage = "sent"
  BY <1>2 DEF HandleRead, InStep, TokenInv, CookieInv, Places
<1>4. \A s \in Sessions : k \in Places(s) => s = logins
  BY <1>1, <1>3 DEF TokenInv, TokensApart, RowApart
<1>5. \A s \in ByCurrent(k) \cup ByPrevious(k) : s = logins
  BY <1>3, <1>4 DEF ByCurrent, ByPrevious, Places
<1>6. logins \in ByCurrent(k) \cup ByPrevious(k)
  BY <1>1, <1>3 DEF Calm, ByCurrent, ByPrevious, Places, Exists
<1>7. Read(t, logins) /\ UNCHANGED row
  <2>1. ASSUME row' = [row EXCEPT ![logins] = Left(@, "compromised")]
        PROVE  FALSE
    BY <1>0, <1>1, <2>1, RowColumns DEF Calm
  <2> QED
    BY <1>1, <1>5, <1>6, <2>1 DEF HandleRead, Calm
<1>8. /\ refresh'[t].stage = "read" /\ refresh'[t].session = logins
      /\ refresh'[t].answer = NoToken
      /\ \A o \in Tabs : o # t => refresh'[o] = refresh[o]
  BY <1>0, <1>7 DEF Read, Idle
<1>9. refresh[t].answer = NoToken
  BY <1>3 DEF TokenInv, CookieInv
<1>10. NowKept
  BY <1>1, <1>7 DEF NowKept, HandleRead
<1>11. CookieInStep'
  BY <1>2, <1>8, <1>9, <1>10, CookieStaysInStep
<1>12. InStep(t)'
  BY <1>1, <1>8 DEF InStep
<1> QED
  BY <1>2, <1>8, <1>10, <1>11, <1>12, OthersStayInStep

\* A rotation of what was read makes it the token before, the one others still hold.
LEMMA CalmRotating ==
  ASSUME TokenInv, CalmInv, Next, Calm', NEW t \in Tabs, HandleWrite(t), ~Signing
  PROVE  CookieInStep' /\ \A o \in Tabs : InStep(o)'
<1>0. refresh \in [Tabs -> Flight] /\ TypeOK
  BY TypeOKNamed DEF TokenInv
<1>1. Calm /\ logins \in Sessions /\ UNCHANGED logins
  BY <1>0, CalmBefore
<1>2. CookieInStep /\ \A o \in Tabs : InStep(o)
  BY <1>1 DEF CalmInv
<1>3. refresh[t].stage = "read" /\ refresh[t].session = logins /\ refresh[t].answer = NoToken
  BY <1>2 DEF HandleWrite, InStep, TokenInv, CookieInv
<1>4. Exists(refresh[t].session)
  BY <1>1, <1>3 DEF Exists, Calm
<1>5. PICK k \in NewTokens : RotatedTo(t, k)
  BY <1>0, <1>4, RotatingIs DEF TokenInv
<1>6. /\ row'[logins].current = k /\ row'[logins].previous = refresh[t].seen
      /\ row[logins].current = refresh[t].seen /\ ~Overtakes(t)
      /\ \A o \in Tabs : o # t => refresh'[o] = refresh[o]
      /\ refresh'[t].stage = "answered" /\ refresh'[t].answer = k
      /\ refresh'[t].session = logins /\ jar' = jar
  BY <1>1, <1>3, <1>5 DEF RotatedTo, Calm
<1>7. k # NoToken
  BY NewTokenIsNew
<1>8. CookieInStep'
  <2>1. CASE jar.refresh = row[logins].current
    BY <1>1, <1>6, <2>1 DEF CookieInStep, Answered
  <2>2. CASE Answered(row[logins].current)
    <3>1. PICK o \in Tabs : refresh[o].answer = row[logins].current
      BY <2>2 DEF Answered
    <3>2. refresh[o].answer # NoToken
      BY <1>1, <3>1 DEF Calm, TokenInv, TokensApart, RowApart
    <3>3. o # t /\ refresh'[o] = refresh[o]
      BY <1>3, <1>6, <3>2
    <3>4. Behind'
      BY <1>6, <1>7, <3>2, <3>3 DEF Behind
    <3> QED
      BY <3>4 DEF CookieInStep
  <2>3. CASE Behind
    BY <1>3, <1>6, <2>3 DEF Behind, CookieInStep
  <2> QED
    BY <1>2, <2>1, <2>2, <2>3 DEF CookieInStep
<1>9. ASSUME NEW o \in Tabs
      PROVE  InStep(o)'
  <2>1. CASE o = t
    BY <1>1, <1>6, <1>7, <2>1 DEF InStep
  <2>2. CASE o # t
    <3>1. refresh[o].stage = "sent" => refresh[o].sent = refresh[t].seen
      BY <1>6, <2>2 DEF Overtakes
    <3> QED
      BY <1>1, <1>2, <1>6, <2>2, <3>1 DEF InStep
  <2> QED
    BY <2>1, <2>2
<1> QED
  BY <1>8, <1>9

\* An answer that is one of the row's tokens, while the current one is on its way.
LEMMA CalmDelivering ==
  ASSUME TokenInv, CalmInv, Next, Calm', NEW t \in Tabs, Deliver(t), ~Signing
  PROVE  CookieInStep' /\ \A o \in Tabs : InStep(o)'
<1>0. /\ refresh \in [Tabs -> Flight] /\ row \in [Sessions -> Row] /\ TypeOK
      /\ jar \in [refresh: Token, mark: BOOLEAN]
  BY TypeOKNamed DEF TokenInv
<1>1. Calm /\ logins \in Sessions /\ UNCHANGED logins
  BY <1>0, CalmBefore
<1>2. CookieInStep /\ \A o \in Tabs : InStep(o)
  BY <1>1 DEF CalmInv
<1>3. /\ refresh[t].session = logins /\ refresh[t].answer # NoToken
      /\ refresh[t].stage = "answered"
  BY <1>2 DEF Deliver, InStep
<1>4. /\ jar'.refresh = refresh[t].answer /\ refresh' = [refresh EXCEPT ![t] = Idle]
      /\ UNCHANGED row
  BY <1>0, <1>3 DEF Deliver
<1>5. /\ refresh[t].answer \in {row[logins].current, row[logins].previous}
      /\ Answered(row[logins].current)
  <2>1. Upset # "none" /\ mishap' = "none"
    BY DEF Upset, Calm
  <2> QED
    BY <1>3, <2>1 DEF Deliver, Answered
<1>6. Idle.stage = "idle" /\ row[logins].current # row[logins].previous
  BY <1>1 DEF Idle, Calm, TokenInv, TokensApart, RowApart
<1>7. CookieInStep'
  <2>1. CASE refresh[t].answer = row[logins].current
    BY <1>1, <1>4, <2>1 DEF CookieInStep
  <2>2. CASE refresh[t].answer = row[logins].previous
    <3>1. PICK o \in Tabs : refresh[o].answer = row[logins].current
      BY <1>5 DEF Answered
    <3>2. refresh'[o].answer = row'[logins'].current
      BY <1>0, <1>1, <1>4, <1>6, <2>2, <3>1
    <3> QED
      BY <1>1, <1>4, <2>2, <3>2 DEF CookieInStep, Answered
  <2> QED
    BY <1>5, <2>1, <2>2
<1>8. ASSUME NEW o \in Tabs
      PROVE  InStep(o)'
  BY <1>0, <1>1, <1>2, <1>4, <1>6 DEF InStep
<1> QED
  BY <1>7, <1>8

LEMMA UnchangedIsNotRotating ==
  ASSUME TypeOK, UNCHANGED refresh
  PROVE  ~Rotating
<1> SUFFICES ASSUME NEW t \in Tabs, HandleWrite(t), Exists(refresh[t].session)
             PROVE  FALSE
  BY DEF Rotating
<1>1. refresh \in [Tabs -> Flight]
  BY TypeOKNamed
<1>2. refresh'[t].stage = "answered" /\ refresh[t].stage = "read"
  BY <1>1 DEF HandleWrite, Flight
<1> QED
  BY <1>2

LEMMA CalmStep ==
  ASSUME TokenInv, CalmInv, Next
  PROVE  CalmInv'
<1> SUFFICES ASSUME Calm'
             PROVE  CookieInStep' /\ \A o \in Tabs : InStep(o)'
  BY DEF CalmInv
<1>0. TypeOK /\ Upset # "none" /\ mishap' = "none" /\ jar'.mark
  BY DEF TokenInv, Upset, Calm
<1>1. CASE Signing
  <2>1. PICK t \in Tabs : Login(t)
    BY <1>1 DEF Signing
  <2>2. PICK k \in NewTokens : SignedIn(k)
    BY <1>0, <2>1, SigningIs
  <2>3. CookieInStep'
    BY <2>2 DEF SignedIn, CookieInStep
  <2>4. \A o \in Tabs : InStep(o)'
    BY <1>0, <2>2 DEF SignedIn, InStep
  <2> QED
    BY <2>3, <2>4
<1>2. ASSUME NEW t \in Tabs, Tab(t), ~Signing
      PROVE  CookieInStep' /\ \A o \in Tabs : InStep(o)'
  <2>1. CASE Load(t) \/ Request(t)
    BY <2>1, CalmSending
  <2>2. CASE HandleRead(t)
    BY <1>2, <2>2, CalmReading
  <2>3. CASE HandleWrite(t)
    BY <1>2, <2>3, CalmRotating
  <2>4. CASE Deliver(t)
    BY <1>2, <2>4, CalmDelivering
  <2>5. ~(Logout(t) \/ LogoutAll(t) \/ NetworkFailure(t))
    BY <1>0 DEF Logout, LogoutAll, NetworkFailure, Forgotten
  <2>6. CASE \/ RevokeAllOthers(t) \/ AccessLapses(t)
             \/ \E s \in Sessions : Revoke(t, s) \/ PermanentDelete(t, s)
    <3>1. UNCHANGED <<jar, refresh>>
      BY <2>6 DEF RevokeAllOthers, AccessLapses, Revoke, PermanentDelete
    <3>2. ~Rotating
      BY <1>0, <3>1, UnchangedIsNotRotating
    <3> QED
      BY <1>0, <1>2, <3>1, <3>2, CalmRest
  <2> QED
    BY <1>2, <2>1, <2>2, <2>3, <2>4, <2>5, <2>6 DEF Tab, Refreshing, Answering, Signing
<1>3. CASE ~Signing /\ (PasswordReset \/ \E s \in Sessions : GraceEnds(s) \/ SessionExpires(s))
  <2>1. UNCHANGED <<jar, refresh>>
    BY <1>3 DEF PasswordReset, GraceEnds, SessionExpires
  <2> QED
    BY <1>0, <1>3, <2>1, UnchangedIsNotRotating, CalmRest
<1> QED
  BY <1>1, <1>2, <1>3 DEF Next

LEMMA CalmInvAlways == Spec => []CalmInv
<1>1. Init => CalmInv
  BY DEF Init, CalmInv, Calm, Forgotten
<1>2. TokenInv /\ CalmInv /\ [Next]_vars => CalmInv'
  <2>1. CalmInv /\ UNCHANGED vars => CalmInv'
    BY DEF vars, CalmInv, Calm, CookieInStep, Answered, Behind, InStep
  <2> QED
    BY <2>1, CalmStep
<1> QED
  BY <1>1, <1>2, TokenInvAlways, PTL DEF Spec

\* Tabs that refresh together do each other no harm: without a mishap, a refresh that
\* was answered has a token, so none sends a tab to the login page while the session
\* is active and remembered.
THEOREM NoTabTurnedAway == Spec => TurnedAwayForCause
<1> DEFINE Harmless == \A t \in Tabs : TurnedAway(t) =>
              \/ mishap # "none" \/ ~jar.mark
              \/ logins = 0 \/ row[logins].state # "active"
<1>1. TokenInv /\ CalmInv /\ [Next]_vars => [Harmless]_vars
  <2> SUFFICES ASSUME TokenInv, CalmInv, Next, NEW t \in Tabs, TurnedAway(t), Calm
               PROVE  FALSE
    BY DEF Calm
  <2>1. InStep(t)
    BY DEF CalmInv
  <2>2. CASE Request(t) /\ ~user'[t]
    BY <2>2 DEF Request, Calm
  <2>3. CASE Deliver(t) /\ refresh[t].answer = NoToken
    BY <2>1, <2>3 DEF Deliver, InStep
  <2> QED
    BY <2>2, <2>3 DEF TurnedAway
<1> QED
  BY <1>1, TokenInvAlways, CalmInvAlways, PTL DEF Spec, TurnedAwayForCause
=============================================================================
