------------------------------ MODULE AuthProofs ------------------------------
(***************************************************************************)
(* The theorems of Auth, for any number of accounts, sessions and requests *)
(* at a time: whole accounts, logouts that are final, sessions that an     *)
(* active player keeps.                                                    *)
(***************************************************************************)
EXTENDS Auth, TLAPS

\* Requests do not outlive the bound on their time; no session was used in the future.
Timely ==
  /\ \A r \in Requests :
       request[r] # Idle => request[r].since <= clock /\ clock <= request[r].since + Latency
  /\ \A s \in Sessions : activeAt[s] <= clock

\* A sign-up owns its row from the choice of the id to the commit, a login's is there.
SignupsApart ==
  /\ \A r \in Requests :
       /\ request[r].at = "insert" => account[request[r].user] = NoRow
       /\ request[r].at = "fill" => account[request[r].user].state = "inserted"
       /\ request[r].at \in {"rehash", "issue"} => account[request[r].user].state = "committed"
  /\ \A r, q \in Requests :
       r # q /\ request[r].at \in {"insert", "fill"} /\ request[q].at = request[r].at =>
         request[r].user # request[q].user

\* The unique keys hold of every row, committed or not; a committed one is complete.
RowsWhole ==
  /\ \A u, v \in Users :
       u # v /\ account[u] # NoRow /\ account[v] # NoRow =>
         account[u].email # account[v].email /\ account[u].handle # account[v].handle
  /\ \A u \in Users :
       account[u].state = "committed" => account[u].profile /\ account[u].hash # "none"

\* The history of logouts agrees with the rows, and no id is issued twice.
EndsRecorded ==
  \A s \in Sessions :
    /\ session[s] # NoRow => cookie[s] # Never
    /\ s \in ended => cookie[s] # Never /\ (session[s] = NoRow \/ session[s].revoked)
    /\ session[s] # NoRow /\ session[s].revoked => s \in ended
    /\ s \in ended => activeAt[s] = -1

\* The session's row lasts until the threshold after t.
Lasts(s, t) == session[s] # NoRow /\ session[s].expires >= t + Threshold

\* What a session was used for, and is about to be, it lives long enough for.
ActiveLasts ==
  /\ \A s \in Sessions :
       activeAt[s] >= 0 /\ clock < activeAt[s] + Threshold => Lasts(s, activeAt[s])
  /\ \A r \in Requests :
       request[r].at = "act" /\ request[r].renewed /\ clock < request[r].since + Threshold =>
         Lasts(request[r].session, request[r].since)
  /\ \A r \in Requests :
       request[r].at = "renew" =>
         /\ session[request[r].session] # NoRow
         /\ session[request[r].session].expires > request[r].since

AuthInv == TypeOK /\ Timely /\ SignupsApart /\ RowsWhole /\ EndsRecorded /\ ActiveLasts

\* The assumptions in the form the steps use.
LEMMA Constants ==
  /\ TTL \in Nat /\ Threshold \in Nat /\ PurgeAge \in Nat /\ MaxTime \in Nat /\ Latency \in Nat
  /\ 1 <= Threshold /\ Latency + Threshold <= TTL /\ Latency <= PurgeAge + 1
BY TimesAssumption, BoundsAssumption, LatencyAssumption

\* Where a request is tells which record it is.
LEMMA Shape ==
  ASSUME TypeOK, NEW r \in Requests
  PROVE  /\ request[r] = Idle \/ request[r] \in Signing \cup Entering \cup Presenting
         /\ request[r] # Idle => request[r].since \in Times
         /\ request[r].at \in {"insert", "fill"} => request[r] \in Signing
         /\ request[r].at \in {"rehash", "issue"} => request[r] \in Entering
         /\ request[r].at \in {"renew", "act"} => request[r] \in Presenting
         /\ (request[r] = Idle) = (request[r].at = "idle")
BY DEF TypeOK, Idle, Signing, Entering, Presenting

\* A row of users or sessions is told from no row by its state.
LEMMA Rows ==
  ASSUME TypeOK
  PROVE  /\ \A u \in Users : account[u] = NoRow \/ account[u] \in Account
         /\ \A u \in Users : (account[u] = NoRow) = (account[u].state = "none")
         /\ \A s \in Sessions : session[s] = NoRow \/ session[s] \in Session
         /\ \A s \in Sessions : (session[s] = NoRow) = (session[s].state = "none")
         /\ \A s \in Sessions : session[s] # NoRow => session[s].expires \in Int
BY DEF TypeOK, NoRow, Account, Session

\* Every action is one of a request's, or of a session's cookie, or of the clock.
LEMMA Cases ==
  ASSUME [Next]_vars
  PROVE  \/ Purge \/ Tick \/ UNCHANGED vars
         \/ \E s \in Sessions : LogoutUnidentified(s)
         \/ \E r \in Requests :
              \/ Signup(r) \/ InsertUser(r) \/ CommitSignup(r)
              \/ Login(r) \/ Rehash(r) \/ IssueSession(r)
              \/ Authenticate(r) \/ Renew(r) \/ Use(r) \/ Revoke(r)
BY DEF Next

-----------------------------------------------------------------------------
(* Types                                                                   *)

\* A request that is put somewhere it can be keeps the requests' type.
LEMMA GoType ==
  ASSUME TypeOK, NEW r \in Requests, NEW x \in {Idle} \cup Signing \cup Entering \cup Presenting,
         Go(r, x)
  PROVE  request' \in [Requests -> {Idle} \cup Signing \cup Entering \cup Presenting]
BY DEF Go, TypeOK

\* Every step keeps the types.
LEMMA TypeStep == TypeOK /\ SignupsApart /\ [Next]_vars => TypeOK'
<1> SUFFICES ASSUME TypeOK, SignupsApart, [Next]_vars
             PROVE  TypeOK'
  OBVIOUS
<1> DEFINE Places == {Idle} \cup Signing \cup Entering \cup Presenting
<1>0. /\ clock \in Times /\ Idle \in Places
      /\ \A t \in Times : t + TTL \in 0 .. MaxTime + TTL
      /\ Cleared \in Never .. MaxTime + TTL
      /\ \A t \in 0 .. MaxTime + TTL : t \in Never .. MaxTime + TTL
  BY Constants DEF TypeOK, Times, Never, Cleared
<1>1. ASSUME NEW r \in Requests, Signup(r)
      PROVE  TypeOK'
  <2>1. PICK u \in Users, e \in Emails, h \in Handles :
          Go(r, [at |-> "insert", user |-> u, email |-> e, handle |-> h, since |-> clock])
    BY <1>1 DEF Signup
  <2>2. request' \in [Requests -> Places]
    BY <1>0, <2>1, GoType DEF Signing
  <2> QED
    BY <1>1, <2>2 DEF Signup, sessions, TypeOK
<1>2. ASSUME NEW r \in Requests, InsertUser(r)
      PROVE  TypeOK'
  <2>1. request[r] \in Signing
    BY <1>2, Shape DEF InsertUser
  <2>2. request' \in [Requests -> Places]
    <3>1. [request[r] EXCEPT !.at = "fill"] \in Signing
      BY <2>1 DEF Signing
    <3> QED
      BY <1>0, <1>2, <3>1, GoType DEF InsertUser, Fail
  <2>3. account' \in [Users -> Account \cup {NoRow}]
    <3>1. [state |-> "inserted", email |-> request[r].email, handle |-> request[r].handle,
           profile |-> FALSE, hash |-> "none"] \in Account
      BY <2>1 DEF Signing, Account
    <3> QED
      BY <1>2, <3>1 DEF InsertUser, TypeOK
  <2> QED
    BY <1>2, <2>2, <2>3 DEF InsertUser, sessions, TypeOK
<1>3. ASSUME NEW r \in Requests, CommitSignup(r)
      PROVE  TypeOK'
  <2>1. request[r] \in Signing
    BY <1>3, Shape DEF CommitSignup
  <2>2. request' \in [Requests -> Places]
    <3>1. [at |-> "issue", user |-> request[r].user, since |-> request[r].since] \in Entering
      BY <2>1 DEF Signing, Entering
    <3> QED
      BY <1>0, <1>3, <3>1, GoType DEF CommitSignup, Fail
  <2>3. account' \in [Users -> Account \cup {NoRow}]
    <3>1. request[r].user \in Users /\ account[request[r].user] \in Account
      BY <1>3, <2>1, Rows DEF Signing, NoRow, SignupsApart, CommitSignup
    <3> QED
      BY <1>3, <3>1 DEF CommitSignup, TypeOK, Account
  <2> QED
    BY <1>3, <2>2, <2>3 DEF CommitSignup, sessions, TypeOK
<1>4. ASSUME NEW r \in Requests, Login(r)
      PROVE  TypeOK'
  <2>1. PICK u \in Users :
          Go(r, [at |-> IF account[u].hash = "weak" THEN "rehash" ELSE "issue",
                 user |-> u, since |-> clock])
    BY <1>4 DEF Login
  <2>2. request' \in [Requests -> Places]
    BY <1>0, <2>1, GoType DEF Entering
  <2> QED
    BY <1>4, <2>2 DEF Login, sessions, TypeOK
<1>5. ASSUME NEW r \in Requests, Rehash(r)
      PROVE  TypeOK'
  <2>1. request[r] \in Entering
    BY <1>5, Shape DEF Rehash
  <2>2. request' \in [Requests -> Places]
    <3>1. [request[r] EXCEPT !.at = "issue"] \in Entering
      BY <2>1 DEF Entering
    <3> QED
      BY <1>5, <3>1, GoType DEF Rehash
  <2>3. account' \in [Users -> Account \cup {NoRow}]
    <3>1. request[r].user \in Users /\ account[request[r].user] \in Account
      BY <1>5, <2>1, Rows DEF Entering, NoRow, SignupsApart, Rehash
    <3> QED
      BY <1>5, <3>1 DEF Rehash, TypeOK, Account
  <2> QED
    BY <1>5, <2>2, <2>3 DEF Rehash, sessions, TypeOK
<1>6. ASSUME NEW r \in Requests, IssueSession(r)
      PROVE  TypeOK'
  <2>1. request[r] \in Entering
    BY <1>6, Shape DEF IssueSession
  <2>2. request' \in [Requests -> Places]
    BY <1>0, <1>6, GoType DEF IssueSession
  <2>3. CASE UNCHANGED <<session, cookie, activeAt>>
    BY <1>6, <2>2, <2>3 DEF IssueSession, TypeOK
  <2>4. CASE \E s \in Sessions :
               /\ session' = [session EXCEPT ![s] = [state |-> "row", user |-> request[r].user,
                                                     expires |-> clock + TTL, revoked |-> FALSE]]
               /\ SetSessionCookie(s)
               /\ activeAt' = [activeAt EXCEPT ![s] = clock]
    <3>1. [state |-> "row", user |-> request[r].user, expires |-> clock + TTL, revoked |-> FALSE] \in Session
      BY <1>0, <2>1 DEF Entering, Session
    <3>2. session' \in [Sessions -> Session \cup {NoRow}]
      BY <2>4, <3>1 DEF TypeOK
    <3>3. cookie' \in [Sessions -> Never .. MaxTime + TTL]
      BY <1>0, <2>4 DEF TypeOK, SetSessionCookie
    <3>4. activeAt' \in [Sessions -> Times \cup {-1}]
      BY <1>0, <2>4 DEF TypeOK
    <3> QED
      BY <1>6, <2>2, <3>2, <3>3, <3>4 DEF IssueSession, TypeOK
  <2> QED
    BY <1>6, <2>3, <2>4 DEF IssueSession
<1>7. ASSUME NEW r \in Requests, Authenticate(r)
      PROVE  TypeOK'
  <2>1. PICK s \in Sessions, op \in {"use", "logout", "logoutAll"} :
          /\ Live(s)
          /\ Go(r, [at |-> IF Due(s) THEN "renew" ELSE "act", op |-> op, session |-> s,
                    user |-> session[s].user, since |-> clock, renewed |-> TRUE])
    BY <1>7 DEF Authenticate
  <2>2. session[s].user \in Users
    BY <2>1, Rows DEF Live, Session
  <2>3. [at |-> IF Due(s) THEN "renew" ELSE "act", op |-> op, session |-> s,
         user |-> session[s].user, since |-> clock, renewed |-> TRUE] \in Presenting
    BY <1>0, <2>2 DEF Presenting
  <2>4. request' \in [Requests -> Places]
    BY <2>1, <2>3, GoType
  <2> QED
    BY <1>7, <2>4 DEF Authenticate, sessions, TypeOK
<1>8. ASSUME NEW r \in Requests, Renew(r)
      PROVE  TypeOK'
  <2>1. request[r] \in Presenting
    BY <1>8, Shape DEF Renew
  <2>2. request' \in [Requests -> Places]
    <3>1. /\ [request[r] EXCEPT !.at = "act"] \in Presenting
          /\ [request[r] EXCEPT !.at = "act", !.renewed = FALSE] \in Presenting
      BY <2>1 DEF Presenting
    <3> QED
      BY <1>8, <3>1, GoType DEF Renew
  <2>3. session' \in [Sessions -> Session \cup {NoRow}]
    <3>1. request[r].session \in Sessions /\ request[r].since \in Times
      BY <2>1 DEF Presenting
    <3>2. session[request[r].session] # NoRow => Touched(r) \in Session
      BY <1>0, <3>1, Rows DEF Touched, Session
    <3> QED
      BY <1>8, <3>1, <3>2 DEF Renew, TypeOK
  <2> QED
    BY <1>8, <2>2, <2>3 DEF Renew, TypeOK
<1>9. ASSUME NEW r \in Requests, Use(r)
      PROVE  TypeOK'
  <2>1. request[r] \in Presenting
    BY <1>9, Shape DEF Use
  <2>2. request' \in [Requests -> Places]
    BY <1>0, <1>9, GoType DEF Use
  <2>3. activeAt' \in [Sessions -> Times \cup {-1}]
    BY <1>9, <2>1 DEF Use, TypeOK, Presenting
  <2> QED
    BY <1>9, <2>2, <2>3 DEF Use, TypeOK
<1>10. ASSUME NEW r \in Requests, Revoke(r)
       PROVE  TypeOK'
  <2>1. request[r] \in Presenting
    BY <1>10, Shape DEF Revoke
  <2>2. request' \in [Requests -> Places]
    BY <1>0, <1>10, GoType DEF Revoke
  <2>3. CASE UNCHANGED <<session, ended, activeAt, cookie>>
    BY <1>10, <2>2, <2>3 DEF Revoke, TypeOK
  <2>4. CASE /\ session' = [s \in Sessions |->
                   IF s \in Marked(r) THEN [session[s] EXCEPT !.revoked = TRUE] ELSE session[s]]
             /\ ended' = ended \cup Marked(r)
             /\ activeAt' = [s \in Sessions |-> IF s \in Marked(r) THEN -1 ELSE activeAt[s]]
             /\ ClearSessionCookie(request[r].session)
    <3>1. \A s \in Marked(r) : s \in Sessions /\ [session[s] EXCEPT !.revoked = TRUE] \in Session
      BY Rows DEF Marked, Session
    <3>2. session' \in [Sessions -> Session \cup {NoRow}]
      BY <2>4, <3>1 DEF TypeOK
    <3>3. ended' \subseteq Sessions
      BY <2>4, <3>1 DEF TypeOK
    <3>4. activeAt' \in [Sessions -> Times \cup {-1}]
      BY <2>4 DEF TypeOK
    <3>5. cookie' \in [Sessions -> Never .. MaxTime + TTL]
      BY <1>0, <2>4 DEF TypeOK, ClearSessionCookie
    <3> QED
      BY <1>10, <2>2, <3>2, <3>3, <3>4, <3>5 DEF Revoke, TypeOK
  <2> QED
    BY <1>10, <2>3, <2>4 DEF Revoke
<1>11. ASSUME NEW s \in Sessions, LogoutUnidentified(s)
       PROVE  TypeOK'
  <2>1. cookie' \in [Sessions -> Never .. MaxTime + TTL]
    BY <1>0, <1>11 DEF LogoutUnidentified, ClearSessionCookie, TypeOK
  <2>2. activeAt' \in [Sessions -> Times \cup {-1}]
    BY <1>11 DEF LogoutUnidentified, TypeOK
  <2> QED
    BY <1>11, <2>1, <2>2 DEF LogoutUnidentified, TypeOK
<1>12. CASE Purge
  <2>1. session' \in [Sessions -> Session \cup {NoRow}]
    BY <1>12 DEF Purge, TypeOK
  <2> QED
    BY <1>12, <2>1 DEF Purge, TypeOK
<1>13. CASE Tick
  <2>1. clock' \in Times
    BY <1>0, <1>13, Constants DEF Tick, Times
  <2> QED
    BY <1>13, <2>1 DEF Tick, sessions, TypeOK
<1>14. CASE UNCHANGED vars
  BY <1>14 DEF vars, TypeOK
<1> QED
  BY <1>1, <1>2, <1>3, <1>4, <1>5, <1>6, <1>7, <1>8, <1>9, <1>10, <1>11, <1>12, <1>13, <1>14, Cases

-----------------------------------------------------------------------------
(* The other parts of the invariant                                        *)

\* Only the request that takes a step moves.
LEMMA GoOnly ==
  ASSUME TypeOK, NEW r \in Requests, NEW x, Go(r, x)
  PROVE  request'[r] = x /\ \A q \in Requests : q # r => request'[q] = request[q]
BY DEF Go, TypeOK

\* The clock only runs while every request has time left, and no history is ahead of it.
LEMMA TimelyStep == AuthInv /\ [Next]_vars => Timely'
<1> SUFFICES ASSUME AuthInv, [Next]_vars
             PROVE  Timely'
  OBVIOUS
<1>0. TypeOK /\ Timely /\ clock \in Nat
  BY DEF AuthInv, TypeOK, Times
<1>1. ASSUME NEW r \in Requests, clock' = clock, NEW x, Go(r, x),
             \/ x = Idle
             \/ x.since = clock
             \/ request[r] # Idle /\ x.since = request[r].since
      PROVE  \A q \in Requests :
               request'[q] # Idle => request'[q].since <= clock' /\ clock' <= request'[q].since + Latency
  <2>1. request'[r] = x /\ \A q \in Requests : q # r => request'[q] = request[q]
    BY <1>0, <1>1, GoOnly
  <2> QED
    BY <1>0, <1>1, <2>1, Constants DEF Timely
<1>2. ASSUME NEW r \in Requests, Signup(r) \/ Login(r) \/ Authenticate(r)
      PROVE  Timely'
  <2>1. clock' = clock /\ activeAt' = activeAt
    BY <1>2 DEF Signup, Login, Authenticate, sessions
  <2>2. \E x : Go(r, x) /\ x.since = clock
    <3>1. CASE Signup(r)
      BY <3>1 DEF Signup
    <3>2. CASE Login(r)
      BY <3>2 DEF Login
    <3>3. CASE Authenticate(r)
      BY <3>3 DEF Authenticate
    <3> QED
      BY <1>2, <3>1, <3>2, <3>3
  <2>3. PICK x : Go(r, x) /\ x.since = clock
    BY <2>2
  <2>4. \A q \in Requests :
          request'[q] # Idle => request'[q].since <= clock' /\ clock' <= request'[q].since + Latency
    BY <1>1, <2>1, <2>3
  <2> QED
    BY <1>0, <2>1, <2>4 DEF Timely
<1>3. ASSUME NEW r \in Requests,
             InsertUser(r) \/ CommitSignup(r) \/ Rehash(r) \/ IssueSession(r) \/ Renew(r) \/ Use(r) \/ Revoke(r)
      PROVE  Timely'
  <2>1. request[r] # Idle /\ clock' = clock
    BY <1>3 DEF Idle, InsertUser, CommitSignup, Rehash, IssueSession, Renew, Use, Revoke
  <2>2. request[r] \in Signing \cup Entering \cup Presenting /\ request[r].since \in Times
    BY <1>0, <2>1, Shape
  <2>3. \E x : Go(r, x) /\ (x = Idle \/ x.since = request[r].since)
    <3>1. CASE InsertUser(r)
      BY <2>2, <3>1 DEF InsertUser, Fail, Signing, Entering, Presenting
    <3>2. CASE CommitSignup(r)
      BY <3>2 DEF CommitSignup, Fail
    <3>3. CASE Rehash(r)
      BY <2>2, <3>3 DEF Rehash, Signing, Entering, Presenting
    <3>4. CASE IssueSession(r) \/ Use(r) \/ Revoke(r)
      BY <3>4 DEF IssueSession, Use, Revoke
    <3>5. CASE Renew(r)
      <4>1. request[r] \in Presenting
        BY <1>0, <3>5, Shape DEF Renew
      <4>2. /\ [request[r] EXCEPT !.at = "act"].since = request[r].since
            /\ [request[r] EXCEPT !.at = "act", !.renewed = FALSE].since = request[r].since
        BY <4>1 DEF Presenting
      <4> QED
        BY <3>5, <4>2 DEF Renew
    <3> QED
      BY <1>3, <3>1, <3>2, <3>3, <3>4, <3>5
  <2>4. \A q \in Requests :
          request'[q] # Idle => request'[q].since <= clock' /\ clock' <= request'[q].since + Latency
    <3>1. PICK x : Go(r, x) /\ (x = Idle \/ x.since = request[r].since)
      BY <2>3
    <3> QED
      BY <1>1, <2>1, <3>1
  <2>5. \A s \in Sessions : activeAt'[s] <= clock'
    <3>1. CASE InsertUser(r) \/ CommitSignup(r) \/ Rehash(r) \/ Renew(r)
      BY <1>0, <2>1, <3>1 DEF Timely, InsertUser, CommitSignup, Rehash, Renew, sessions
    <3>2. CASE IssueSession(r)
      BY <1>0, <2>1, <3>2 DEF Timely, TypeOK, IssueSession
    <3>3. CASE Use(r)
      BY <1>0, <2>1, <3>3 DEF Timely, TypeOK, Use
    <3>4. CASE Revoke(r)
      BY <1>0, <2>1, <3>4 DEF Timely, Revoke
    <3> QED
      BY <1>3, <3>1, <3>2, <3>3, <3>4
  <2> QED
    BY <2>4, <2>5 DEF Timely
<1>4. ASSUME NEW s \in Sessions, LogoutUnidentified(s)
      PROVE  Timely'
  BY <1>0, <1>4 DEF Timely, TypeOK, LogoutUnidentified
<1>5. CASE Tick
  <2>1. \A r \in Requests : request[r] # Idle => request[r].since \in Nat /\ clock + 1 <= request[r].since + Latency
    BY <1>0, <1>5, Shape, Constants DEF Tick, Times
  <2>2. \A s \in Sessions : activeAt[s] \in Int
    BY <1>0 DEF TypeOK, Times
  <2> QED
    BY <1>0, <1>5, <2>1, <2>2 DEF Timely, Tick, sessions
<1>6. CASE Purge \/ UNCHANGED vars
  BY <1>0, <1>6 DEF Timely, Purge, vars
<1> QED
  BY <1>2, <1>3, <1>4, <1>5, <1>6, Cases

\* The sign-ups stay apart, and the logins' accounts there.
LEMMA ApartStep == AuthInv /\ [Next]_vars => SignupsApart'
<1> SUFFICES ASSUME AuthInv, [Next]_vars
             PROVE  SignupsApart'
  OBVIOUS
<1>0. TypeOK /\ SignupsApart
  BY DEF AuthInv
<1>1. ASSUME NEW r \in Requests, Signup(r)
      PROVE  SignupsApart'
  <2>1. PICK u \in Users :
          /\ account[u] = NoRow
          /\ \A q \in Requests : request[q].at = "insert" => request[q].user # u
          /\ \E x : Go(r, x) /\ x.at = "insert" /\ x.user = u
    BY <1>1 DEF Signup
  <2>2. /\ request'[r].at = "insert" /\ request'[r].user = u
        /\ \A q \in Requests : q # r => request'[q] = request[q]
    BY <1>0, <2>1, GoOnly
  <2> QED
    BY <1>0, <1>1, <2>1, <2>2 DEF SignupsApart, Signup
<1>2. ASSUME NEW r \in Requests, InsertUser(r)
      PROVE  SignupsApart'
  <2>1. request[r] \in Signing /\ request[r].user \in Users /\ account[request[r].user] = NoRow
    BY <1>0, <1>2, Shape DEF InsertUser, Signing, SignupsApart
  <2>2. CASE Go(r, [request[r] EXCEPT !.at = "fill"]) /\ ~Fail(r)
    <3>1. /\ request'[r].at = "fill" /\ request'[r].user = request[r].user
          /\ \A q \in Requests : q # r => request'[q] = request[q]
      BY <1>0, <2>1, <2>2, GoOnly DEF Signing
    <3>2. /\ account'[request[r].user].state = "inserted"
          /\ \A u \in Users : u # request[r].user => account'[u] = account[u]
      BY <1>0, <1>2, <2>1, <2>2 DEF InsertUser, TypeOK
    <3>3. \A q \in Requests : q # r /\ request[q].at \in {"insert", "fill", "rehash", "issue"} =>
            request[q].user \in Users /\ request[q].user # request[r].user
      BY <1>0, <1>2, <2>1, Shape DEF SignupsApart, Signing, Entering, NoRow, InsertUser
    <3> QED
      BY <1>0, <3>1, <3>2, <3>3 DEF SignupsApart
  <2>3. CASE Fail(r)
    <3>1. /\ request'[r].at = "idle"
          /\ \A q \in Requests : q # r => request'[q] = request[q]
      BY <1>0, <2>3, GoOnly DEF Fail, Idle
    <3>2. account' = account
      BY <1>0, <1>2, <2>1, <3>1, GoOnly DEF InsertUser, Fail, Signing
    <3> QED
      BY <1>0, <3>1, <3>2 DEF SignupsApart
  <2> QED
    BY <1>2, <2>2, <2>3 DEF InsertUser
<1>3. ASSUME NEW r \in Requests, CommitSignup(r)
      PROVE  SignupsApart'
  <2>1. /\ request[r].user \in Users /\ account[request[r].user].state = "inserted"
        /\ account[request[r].user] \in Account
    BY <1>0, <1>3, Shape, Rows DEF CommitSignup, Signing, SignupsApart, NoRow
  <2>2. \A q \in Requests : q # r /\ request[q].at \in {"insert", "fill", "rehash", "issue"} =>
          request[q].user \in Users /\ request[q].user # request[r].user
    BY <1>0, <1>3, <2>1, Shape DEF SignupsApart, Signing, Entering, NoRow, CommitSignup
  <2>3. \A u \in Users : u # request[r].user => account'[u] = account[u]
    BY <1>0, <1>3, <2>1 DEF CommitSignup, TypeOK
  <2>4. /\ \A q \in Requests : q # r => request'[q] = request[q]
        /\ \/ request'[r].at = "idle"
           \/ /\ request'[r].at = "issue" /\ request'[r].user = request[r].user
              /\ account'[request[r].user].state = "committed"
    <3>1. CASE Fail(r)
      BY <1>0, <3>1, GoOnly DEF Fail, Idle
    <3>2. CASE /\ account' = [account EXCEPT ![request[r].user].state = "committed",
                                ![request[r].user].profile = TRUE, ![request[r].user].hash = "strong"]
               /\ Go(r, [at |-> "issue", user |-> request[r].user, since |-> request[r].since])
      <4>1. account'[request[r].user].state = "committed"
        BY <1>0, <2>1, <3>2 DEF TypeOK, Account
      <4> QED
        BY <1>0, <3>2, <4>1, GoOnly
    <3> QED
      BY <1>3, <3>1, <3>2 DEF CommitSignup
  <2> QED
    BY <1>0, <2>2, <2>3, <2>4 DEF SignupsApart
<1>4. ASSUME NEW r \in Requests, Login(r)
      PROVE  SignupsApart'
  <2>1. PICK u \in Users :
          /\ account[u].state = "committed"
          /\ \E x : Go(r, x) /\ x.at \in {"rehash", "issue"} /\ x.user = u
    BY <1>4 DEF Login
  <2>2. /\ request'[r].at \in {"rehash", "issue"} /\ request'[r].user = u
        /\ \A q \in Requests : q # r => request'[q] = request[q]
    BY <1>0, <2>1, GoOnly
  <2> QED
    BY <1>0, <1>4, <2>1, <2>2 DEF SignupsApart, Login
<1>5. ASSUME NEW r \in Requests, Rehash(r)
      PROVE  SignupsApart'
  <2>1. /\ request[r] \in Entering /\ request[r].user \in Users
        /\ account[request[r].user].state = "committed" /\ account[request[r].user] \in Account
    BY <1>0, <1>5, Shape, Rows DEF Rehash, Entering, SignupsApart, NoRow
  <2>2. /\ request'[r].at = "issue" /\ request'[r].user = request[r].user
        /\ \A q \in Requests : q # r => request'[q] = request[q]
    BY <1>0, <1>5, <2>1, GoOnly DEF Rehash, Entering
  <2>3. /\ account'[request[r].user].state = "committed"
        /\ \A u \in Users : u # request[r].user => account'[u] = account[u]
    BY <1>0, <1>5, <2>1 DEF Rehash, TypeOK, Account
  <2>4. \A q \in Requests : q # r /\ request[q].at \in {"insert", "fill"} =>
          request[q].user \in Users /\ request[q].user # request[r].user
    BY <1>0, <2>1, Shape DEF SignupsApart, Signing, NoRow
  <2>5. \A q \in Requests : q # r /\ request[q].at \in {"rehash", "issue"} => request[q].user \in Users
    BY <1>0, Shape DEF Entering
  <2> QED
    BY <1>0, <2>1, <2>2, <2>3, <2>4, <2>5 DEF SignupsApart
<1>6. ASSUME NEW r \in Requests, IssueSession(r) \/ Authenticate(r) \/ Renew(r) \/ Use(r) \/ Revoke(r)
      PROVE  SignupsApart'
  <2>1. \E x : Go(r, x) /\ x.at \in {"idle", "renew", "act"}
    <3>1. CASE IssueSession(r) \/ Use(r) \/ Revoke(r)
      BY <3>1 DEF IssueSession, Use, Revoke, Idle
    <3>2. CASE Authenticate(r)
      BY <3>2 DEF Authenticate
    <3>3. CASE Renew(r)
      <4>1. request[r] \in Presenting
        BY <1>0, <3>3, Shape DEF Renew
      <4>2. /\ [request[r] EXCEPT !.at = "act"].at = "act"
            /\ [request[r] EXCEPT !.at = "act", !.renewed = FALSE].at = "act"
        BY <4>1 DEF Presenting
      <4> QED
        BY <3>3, <4>2 DEF Renew
    <3> QED
      BY <1>6, <3>1, <3>2, <3>3
  <2>2. /\ request'[r].at \in {"idle", "renew", "act"}
        /\ \A q \in Requests : q # r => request'[q] = request[q]
    BY <1>0, <2>1, GoOnly
  <2>3. account' = account
    BY <1>6 DEF IssueSession, Authenticate, Renew, Use, Revoke
  <2> QED
    BY <1>0, <2>2, <2>3 DEF SignupsApart
<1>7. ASSUME NEW s \in Sessions, LogoutUnidentified(s)
      PROVE  SignupsApart'
  BY <1>0, <1>7 DEF SignupsApart, LogoutUnidentified
<1>8. CASE Purge \/ Tick \/ UNCHANGED vars
  BY <1>0, <1>8 DEF SignupsApart, Purge, Tick, vars
<1> QED
  BY <1>1, <1>2, <1>3, <1>4, <1>5, <1>6, <1>7, <1>8, Cases

\* The unique indexes keep the rows apart, and a transaction commits them whole.
LEMMA RowsStep == AuthInv /\ [Next]_vars => RowsWhole'
<1> SUFFICES ASSUME AuthInv, [Next]_vars
             PROVE  RowsWhole'
  OBVIOUS
<1>0. TypeOK /\ SignupsApart /\ RowsWhole
  BY DEF AuthInv
<1>1. ASSUME NEW r \in Requests, InsertUser(r)
      PROVE  RowsWhole'
  <2>1. request[r] \in Signing
    BY <1>0, <1>1, Shape DEF InsertUser
  <2>2. CASE account' = account
    BY <1>0, <2>2 DEF RowsWhole
  <2>3. CASE /\ Clashes(r) = {}
             /\ account' = [account EXCEPT ![request[r].user] =
                  [state |-> "inserted", email |-> request[r].email, handle |-> request[r].handle,
                   profile |-> FALSE, hash |-> "none"]]
    <3> DEFINE u == request[r].user
    <3>1. /\ u \in Users
          /\ account'[u].email = request[r].email /\ account'[u].handle = request[r].handle
          /\ account'[u].state = "inserted"
          /\ \A v \in Users : v # u => account'[v] = account[v]
      BY <1>0, <2>1, <2>3 DEF Signing, TypeOK
    <3>2. \A v \in Users :
            account[v] # NoRow => account[v].email # request[r].email /\ account[v].handle # request[r].handle
      BY <2>3 DEF Clashes
    <3> HIDE DEF u
    <3> QED
      BY <1>0, <3>1, <3>2 DEF RowsWhole
  <2> QED
    BY <1>1, <2>2, <2>3 DEF InsertUser
<1>2. ASSUME NEW r \in Requests, CommitSignup(r)
      PROVE  RowsWhole'
  <2> DEFINE u == request[r].user
  <2>1. /\ u \in Users /\ account[u].state = "inserted"
        /\ account[u] \in Account
    BY <1>0, <1>2, Shape, Rows DEF CommitSignup, Signing, SignupsApart, NoRow
  <2>2. \A v \in Users : v # u => account'[v] = account[v]
    BY <1>0, <1>2, <2>1 DEF CommitSignup, TypeOK
  <2>3. CASE account' = [account EXCEPT ![u] = NoRow]
    <3>1. account'[u] = NoRow
      BY <1>0, <2>1, <2>3 DEF TypeOK
    <3> HIDE DEF u
    <3> QED
      BY <1>0, <2>1, <2>2, <3>1 DEF RowsWhole, NoRow
  <2>4. CASE account' = [account EXCEPT ![u].state = "committed", ![u].profile = TRUE, ![u].hash = "strong"]
    <3>1. account'[u] = [account[u] EXCEPT !.state = "committed", !.profile = TRUE, !.hash = "strong"]
      BY <1>0, <2>1, <2>4 DEF TypeOK
    <3>2. /\ account'[u].profile /\ account'[u].hash = "strong" /\ account[u] # NoRow
          /\ account'[u].email = account[u].email /\ account'[u].handle = account[u].handle
      BY <2>1, <3>1 DEF Account, NoRow
    <3> HIDE DEF u
    <3> QED
      BY <1>0, <2>1, <2>2, <3>2 DEF RowsWhole
  <2> QED
    BY <1>2, <2>3, <2>4 DEF CommitSignup
<1>3. ASSUME NEW r \in Requests, Rehash(r)
      PROVE  RowsWhole'
  <2> DEFINE u == request[r].user
  <2>1. u \in Users /\ account[u].state = "committed" /\ account[u] \in Account
    BY <1>0, <1>3, Shape, Rows DEF Rehash, Entering, SignupsApart, NoRow
  <2>2. CASE account' = account
    BY <1>0, <2>2 DEF RowsWhole
  <2>3. CASE account' = [account EXCEPT ![u].hash = "strong"]
    <3>1. /\ account'[u] = [account[u] EXCEPT !.hash = "strong"]
          /\ \A v \in Users : v # u => account'[v] = account[v]
      BY <1>0, <2>1, <2>3 DEF TypeOK
    <3>2. /\ account'[u].hash = "strong" /\ account[u] # NoRow
          /\ account'[u].email = account[u].email /\ account'[u].handle = account[u].handle
      BY <2>1, <3>1 DEF Account, NoRow
    <3>3. account'[u].profile
      <4>1. account[u].profile
        BY <1>0, <2>1 DEF RowsWhole
      <4> QED
        BY <2>1, <3>1, <4>1 DEF Account
    <3> HIDE DEF u
    <3>4. \A v, w \in Users :
            v # w /\ account'[v] # NoRow /\ account'[w] # NoRow =>
              account'[v].email # account'[w].email /\ account'[v].handle # account'[w].handle
      <4>1. \A v \in Users : v # u => account'[v] = account[v]
        BY <3>1
      <4>2. \A v, w \in Users :
              v # w /\ account[v] # NoRow /\ account[w] # NoRow =>
                account[v].email # account[w].email /\ account[v].handle # account[w].handle
        BY <1>0 DEF RowsWhole
      <4> QED
        BY <2>1, <3>2, <4>1, <4>2
    <3>5. ASSUME NEW v \in Users, account'[v].state = "committed"
          PROVE  account'[v].profile /\ account'[v].hash # "none"
      <4>1. CASE v = u
        BY <3>2, <3>3, <4>1
      <4>2. CASE v # u
        BY <1>0, <3>1, <3>5, <4>2 DEF RowsWhole
      <4> QED
        BY <4>1, <4>2
    <3> QED
      BY <3>4, <3>5 DEF RowsWhole
  <2>4. UNCHANGED account \/ account' = [account EXCEPT ![u].hash = "strong"]
    BY <1>3 DEF Rehash
  <2> QED
    BY <2>2, <2>3, <2>4
<1>4. ASSUME NEW r \in Requests,
             \/ Signup(r) \/ Login(r) \/ IssueSession(r)
             \/ Authenticate(r) \/ Renew(r) \/ Use(r) \/ Revoke(r)
      PROVE  RowsWhole'
  BY <1>0, <1>4 DEF RowsWhole, Signup, Login, IssueSession, Authenticate, Renew, Use, Revoke
<1>5. ASSUME NEW s \in Sessions, LogoutUnidentified(s)
      PROVE  RowsWhole'
  BY <1>0, <1>5 DEF RowsWhole, LogoutUnidentified
<1>6. CASE Purge \/ Tick \/ UNCHANGED vars
  BY <1>0, <1>6 DEF RowsWhole, Purge, Tick, vars
<1> QED
  BY <1>1, <1>2, <1>3, <1>4, <1>5, <1>6, Cases

\* A renewal leaves "revoked" alone, a purge only removes, and an id is issued once.
LEMMA EndsStep == AuthInv /\ [Next]_vars => EndsRecorded'
<1> SUFFICES ASSUME AuthInv, [Next]_vars
             PROVE  EndsRecorded'
  OBVIOUS
<1>0. /\ TypeOK /\ EndsRecorded
      /\ \A s \in Sessions : session[s] = NoRow \/ session[s] \in Session
  BY Rows DEF AuthInv
<1>1. ASSUME NEW r \in Requests,
             \/ Signup(r) \/ InsertUser(r) \/ CommitSignup(r) \/ Login(r) \/ Rehash(r) \/ Authenticate(r)
      PROVE  EndsRecorded'
  BY <1>0, <1>1
     DEF EndsRecorded, Signup, InsertUser, CommitSignup, Login, Rehash, Authenticate, sessions
<1>2. ASSUME NEW r \in Requests, IssueSession(r)
      PROVE  EndsRecorded'
  <2>1. CASE UNCHANGED <<session, cookie, activeAt>>
    BY <1>0, <1>2, <2>1 DEF EndsRecorded, IssueSession
  <2>2. ASSUME NEW s \in Sessions, session[s] = NoRow, cookie[s] = Never,
               session' = [session EXCEPT ![s] = [state |-> "row", user |-> request[r].user,
                                                  expires |-> clock + TTL, revoked |-> FALSE]],
               SetSessionCookie(s), activeAt' = [activeAt EXCEPT ![s] = clock]
        PROVE  EndsRecorded'
    <3>1. s \notin ended /\ ended' = ended
      BY <1>0, <1>2, <2>2 DEF EndsRecorded, IssueSession
    <3>2. /\ ~session'[s].revoked /\ cookie'[s] # Never
          /\ \A z \in Sessions : z # s =>
               session'[z] = session[z] /\ cookie'[z] = cookie[z] /\ activeAt'[z] = activeAt[z]
      BY <1>0, <2>2, Constants DEF TypeOK, Times, SetSessionCookie, Never
    <3> QED
      BY <1>0, <3>1, <3>2 DEF EndsRecorded
  <2> QED
    BY <1>2, <2>1, <2>2 DEF IssueSession
<1>3. ASSUME NEW r \in Requests, Renew(r)
      PROVE  EndsRecorded'
  <2> DEFINE s == request[r].session
  <2>1. s \in Sessions
    BY <1>0, <1>3, Shape DEF Renew, Presenting
  <2>2. CASE session' = session
    BY <1>0, <1>3, <2>2 DEF EndsRecorded, Renew
  <2>3. CASE session[s] # NoRow /\ session' = [session EXCEPT ![s] = Touched(r)]
    <3>1. session'[s].revoked = session[s].revoked
      BY <1>0, <2>1, <2>3 DEF TypeOK, Touched, Session
    <3>2. \A z \in Sessions : z # s => session'[z] = session[z]
      BY <1>0, <2>3 DEF TypeOK
    <3>3. UNCHANGED <<cookie, ended, activeAt>>
      BY <1>3 DEF Renew
    <3> HIDE DEF s
    <3> QED
      BY <1>0, <2>3, <3>1, <3>2, <3>3 DEF EndsRecorded
  <2> QED
    BY <1>3, <2>2, <2>3 DEF Renew
<1>4. ASSUME NEW r \in Requests, Use(r)
      PROVE  EndsRecorded'
  BY <1>0, <1>4 DEF EndsRecorded, Use, TypeOK
<1>5. ASSUME NEW r \in Requests, Revoke(r)
      PROVE  EndsRecorded'
  <2>1. CASE UNCHANGED <<session, ended, activeAt, cookie>>
    BY <1>0, <2>1 DEF EndsRecorded
  <2>2. CASE /\ session' = [s \in Sessions |->
                   IF s \in Marked(r) THEN [session[s] EXCEPT !.revoked = TRUE] ELSE session[s]]
             /\ ended' = ended \cup Marked(r)
             /\ activeAt' = [s \in Sessions |-> IF s \in Marked(r) THEN -1 ELSE activeAt[s]]
             /\ ClearSessionCookie(request[r].session)
    <3> SUFFICES ASSUME NEW s \in Sessions
                 PROVE  /\ session'[s] # NoRow => cookie'[s] # Never
                        /\ s \in ended' => cookie'[s] # Never /\ (session'[s] = NoRow \/ session'[s].revoked)
                        /\ session'[s] # NoRow /\ session'[s].revoked => s \in ended'
                        /\ s \in ended' => activeAt'[s] = -1
      BY DEF EndsRecorded
    <3>1. cookie[s] # Never => cookie'[s] # Never
      BY <1>0, <2>2 DEF ClearSessionCookie, TypeOK, Never, Cleared
    <3>2. CASE s \in Marked(r)
      <4>1. session[s] \in Session
        BY <1>0, <3>2 DEF Marked
      <4>2. session'[s].revoked /\ activeAt'[s] = -1 /\ s \in ended'
        BY <2>2, <3>2, <4>1 DEF Session
      <4>3. cookie[s] # Never
        BY <1>0, <3>2 DEF Marked, EndsRecorded
      <4> QED
        BY <3>1, <4>2, <4>3
    <3>3. CASE s \notin Marked(r)
      BY <1>0, <2>2, <3>1, <3>3 DEF EndsRecorded
    <3> QED
      BY <3>2, <3>3
  <2> QED
    BY <1>5, <2>1, <2>2 DEF Revoke
<1>6. ASSUME NEW s \in Sessions, LogoutUnidentified(s)
      PROVE  EndsRecorded'
  BY <1>0, <1>6 DEF EndsRecorded, LogoutUnidentified, ClearSessionCookie, TypeOK, Never, Cleared
<1>7. CASE Purge
  BY <1>0, <1>7 DEF EndsRecorded, Purge
<1>8. CASE Tick \/ UNCHANGED vars
  BY <1>0, <1>8 DEF EndsRecorded, Tick, sessions, vars
<1> QED
  BY <1>1, <1>2, <1>3, <1>4, <1>5, <1>6, <1>7, <1>8, Cases

\* Rows are only written by statements that leave them a longer life than anybody needs.
LEMMA LastsStep == AuthInv /\ [Next]_vars => ActiveLasts'
<1> SUFFICES ASSUME AuthInv, [Next]_vars
             PROVE  ActiveLasts'
  OBVIOUS
<1>0. /\ TypeOK /\ Timely /\ ActiveLasts /\ clock \in Int
      /\ \A s \in Sessions : activeAt[s] \in Int
      /\ \A s \in Sessions : session[s] # NoRow => session[s].expires \in Int
  BY Rows DEF AuthInv, TypeOK, Times
<1>1. \A r \in Requests :
        request[r].at \in {"renew", "act"} =>
          /\ request[r].session \in Sessions /\ request[r].since \in Int
          /\ request[r].since <= clock /\ clock <= request[r].since + Latency
  BY <1>0, Shape DEF Presenting, Times, Timely, Idle
\* A step that leaves the sessions alone and moves a request away from them.
<1>2. ASSUME NEW r \in Requests, NEW x, Go(r, x), x.at \notin {"renew", "act"},
             UNCHANGED <<clock, session, activeAt>>
      PROVE  ActiveLasts'
  <2>1. request'[r] = x /\ \A q \in Requests : q # r => request'[q] = request[q]
    BY <1>0, <1>2, GoOnly
  <2> QED
    BY <1>0, <1>2, <2>1 DEF ActiveLasts, Lasts
\* A step that only makes rows live longer, or as long, and uses none.
<1>3. ASSUME NEW r \in Requests, Signup(r) \/ InsertUser(r) \/ CommitSignup(r) \/ Login(r) \/ Rehash(r)
      PROVE  ActiveLasts'
  <2>1. UNCHANGED <<clock, session, activeAt>>
    BY <1>3 DEF Signup, InsertUser, CommitSignup, Login, Rehash, sessions
  <2>2. \E x : Go(r, x) /\ x.at \notin {"renew", "act"}
    <3>1. CASE Signup(r)
      BY <3>1 DEF Signup
    <3>2. CASE InsertUser(r)
      <4>1. request[r] \in Signing
        BY <1>0, <3>2, Shape DEF InsertUser
      <4>2. [request[r] EXCEPT !.at = "fill"].at = "fill"
        BY <4>1 DEF Signing
      <4>3. Go(r, [request[r] EXCEPT !.at = "fill"]) \/ Go(r, Idle)
        BY <3>2 DEF InsertUser, Fail
      <4>4. CASE Go(r, [request[r] EXCEPT !.at = "fill"])
        BY <4>2, <4>4
      <4>5. CASE Go(r, Idle)
        BY <4>5 DEF Idle
      <4> QED
        BY <4>3, <4>4, <4>5
    <3>3. CASE CommitSignup(r)
      BY <3>3 DEF CommitSignup, Fail, Idle
    <3>4. CASE Login(r)
      BY <3>4 DEF Login
    <3>5. CASE Rehash(r)
      <4>1. request[r] \in Entering
        BY <1>0, <3>5, Shape DEF Rehash
      <4>2. [request[r] EXCEPT !.at = "issue"].at = "issue"
        BY <4>1 DEF Entering
      <4> QED
        BY <3>5, <4>2 DEF Rehash
    <3> QED
      BY <1>3, <3>1, <3>2, <3>3, <3>4, <3>5
  <2>3. PICK x : Go(r, x) /\ x.at \notin {"renew", "act"}
    BY <2>2
  <2> QED
    BY <1>2, <2>1, <2>3
<1>4. ASSUME NEW r \in Requests, IssueSession(r)
      PROVE  ActiveLasts'
  <2>0. Go(r, Idle) /\ clock' = clock /\ Idle.at \notin {"renew", "act"}
    BY <1>4 DEF IssueSession, Idle
  <2>1. CASE UNCHANGED <<session, cookie, activeAt>>
    BY <1>2, <2>0, <2>1
  <2>2. ASSUME NEW s \in Sessions, session[s] = NoRow,
               session' = [session EXCEPT ![s] = [state |-> "row", user |-> request[r].user,
                                                  expires |-> clock + TTL, revoked |-> FALSE]],
               activeAt' = [activeAt EXCEPT ![s] = clock]
        PROVE  ActiveLasts'
    <3>1. /\ session'[s].expires = clock + TTL /\ session'[s].state = "row" /\ activeAt'[s] = clock
          /\ \A z \in Sessions : z # s => session'[z] = session[z] /\ activeAt'[z] = activeAt[z]
      BY <1>0, <2>2 DEF TypeOK
    <3>2. Lasts(s, clock)'
      BY <1>0, <2>0, <3>1, Constants DEF Lasts, NoRow
    <3>3. request'[r] = Idle /\ \A q \in Requests : q # r => request'[q] = request[q]
      BY <1>0, <2>0, GoOnly
    <3>4. \A z \in Sessions : activeAt'[z] >= 0 /\ clock' < activeAt'[z] + Threshold => Lasts(z, activeAt[z])' \/ z = s
      BY <1>0, <2>0, <3>1 DEF ActiveLasts, Lasts
    <3>5. \A q \in Requests :
            request'[q].at = "act" /\ request'[q].renewed /\ clock' < request'[q].since + Threshold =>
              Lasts(request[q].session, request[q].since) /\ request[q].session # s /\ q # r
      BY <1>0, <2>0, <2>2, <3>3 DEF ActiveLasts, Lasts
    <3>6. \A q \in Requests :
            request'[q].at = "renew" =>
              /\ q # r /\ request[q].at = "renew" /\ request[q].session # s
              /\ session[request[q].session] # NoRow
              /\ session[request[q].session].expires > request[q].since
      BY <1>0, <2>0, <2>2, <3>3 DEF ActiveLasts
    <3>7. /\ \A z \in Sessions :
               activeAt'[z] >= 0 /\ clock' < activeAt'[z] + Threshold =>
                 session'[z] # NoRow /\ session'[z].expires >= activeAt'[z] + Threshold
      BY <1>0, <2>0, <3>1, <3>2 DEF ActiveLasts, Lasts
    <3>8. \A q \in Requests : request'[q].at \in {"renew", "act"} => q # r /\ request'[q].session \in Sessions
      BY <1>1, <2>0, <3>3
    <3> QED
      BY <3>1, <3>3, <3>5, <3>6, <3>7, <3>8 DEF ActiveLasts, Lasts
  <2> QED
    BY <1>4, <2>1, <2>2 DEF IssueSession
<1>5. ASSUME NEW r \in Requests, Authenticate(r)
      PROVE  ActiveLasts'
  <2>1. PICK s \in Sessions :
          /\ Live(s)
          /\ \E x : /\ Go(r, x) /\ x.at = (IF Due(s) THEN "renew" ELSE "act")
                    /\ x.session = s /\ x.since = clock
    BY <1>5 DEF Authenticate
  <2>2. /\ request'[r].at = (IF Due(s) THEN "renew" ELSE "act")
        /\ request'[r].session = s /\ request'[r].since = clock
        /\ \A q \in Requests : q # r => request'[q] = request[q]
    BY <1>0, <2>1, GoOnly
  <2>3. UNCHANGED <<clock, session, activeAt>>
    BY <1>5 DEF Authenticate, sessions
  <2>4. session[s] # NoRow /\ session[s].expires > clock /\ (~Due(s) => session[s].expires >= clock + Threshold)
    BY <1>0, <2>1, Constants DEF Live, Due
  <2> QED
    BY <1>0, <2>2, <2>3, <2>4 DEF ActiveLasts, Lasts
<1>6. ASSUME NEW r \in Requests, Renew(r)
      PROVE  ActiveLasts'
  <2> DEFINE s == request[r].session
             t == request[r].since
  <2>1. /\ s \in Sessions /\ t \in Int /\ t <= clock /\ clock <= t + Latency
        /\ session[s] # NoRow /\ session[s].expires > t
    BY <1>0, <1>1, <1>6 DEF Renew, ActiveLasts
  <2>2. /\ UNCHANGED <<clock, activeAt>>
        /\ request[r] \in Presenting
    BY <1>0, <1>6, Shape DEF Renew
  <2>3. CASE session' = session /\ Go(r, [request[r] EXCEPT !.at = "act", !.renewed = FALSE])
    <3>1. /\ request'[r] = [request[r] EXCEPT !.at = "act", !.renewed = FALSE]
          /\ \A q \in Requests : q # r => request'[q] = request[q]
      BY <1>0, <2>3, GoOnly
    <3>2. request'[r].at = "act" /\ ~request'[r].renewed
      BY <2>2, <3>1 DEF Presenting
    <3> QED
      BY <1>0, <2>2, <2>3, <3>1, <3>2 DEF ActiveLasts, Lasts
  <2>4. CASE session' = [session EXCEPT ![s] = Touched(r)] /\ Go(r, [request[r] EXCEPT !.at = "act"])
    <3>1. /\ request'[r].at = "act" /\ request'[r].session = s /\ request'[r].since = t
          /\ \A q \in Requests : q # r => request'[q] = request[q]
      BY <1>0, <2>2, <2>4, GoOnly DEF Presenting
    <3>2. session[s] \in Session
      BY <1>0, <2>1, Rows
    <3>3. /\ session'[s].expires = t + TTL /\ session'[s].state = "row"
          /\ \A z \in Sessions : z # s => session'[z] = session[z]
      BY <1>0, <2>1, <2>4, <3>2 DEF TypeOK, Touched, Session
    <3>4. session'[s] # NoRow /\ session'[s].expires >= clock + Threshold
      BY <1>0, <2>1, <3>3, Constants DEF NoRow
    <3> HIDE DEF s, t
    <3>5. \A z \in Sessions :
            activeAt'[z] >= 0 /\ clock' < activeAt'[z] + Threshold => Lasts(z, activeAt[z])'
      BY <1>0, <2>1, <2>2, <3>3, <3>4, Constants DEF ActiveLasts, Lasts, Timely
    <3>6. \A q \in Requests :
            request'[q].at = "act" /\ request'[q].renewed /\ clock' < request'[q].since + Threshold =>
              Lasts(request[q].session, request[q].since)'
      BY <1>0, <1>1, <2>1, <2>2, <3>1, <3>3, <3>4, Constants DEF ActiveLasts, Lasts
    <3>7. \A q \in Requests :
            request'[q].at = "renew" =>
              session'[request'[q].session] # NoRow /\ session'[request'[q].session].expires > request'[q].since
      BY <1>0, <1>1, <2>1, <2>2, <3>1, <3>3, <3>4, Constants DEF ActiveLasts
    <3> QED
      BY <3>5, <3>6, <3>7 DEF ActiveLasts
  <2> QED
    BY <1>6, <2>1, <2>3, <2>4 DEF Renew
<1>7. ASSUME NEW r \in Requests, Use(r)
      PROVE  ActiveLasts'
  <2>1. /\ request'[r].at = "idle" /\ UNCHANGED <<clock, session>>
        /\ \A q \in Requests : q # r => request'[q] = request[q]
    BY <1>0, <1>7, GoOnly DEF Use, Idle
  <2>2. \A s \in Sessions :
          \/ activeAt'[s] = activeAt[s]
          \/ s = request[r].session /\ activeAt'[s] = request[r].since /\ request[r].renewed
    BY <1>0, <1>7 DEF Use, TypeOK
  <2>3. request[r].at = "act"
    BY <1>7 DEF Use
  <2> QED
    BY <1>0, <2>1, <2>2, <2>3 DEF ActiveLasts, Lasts
<1>8. ASSUME NEW r \in Requests, Revoke(r)
      PROVE  ActiveLasts'
  <2>0. Go(r, Idle) /\ clock' = clock /\ Idle.at \notin {"renew", "act"}
    BY <1>8 DEF Revoke, Idle
  <2>1. CASE UNCHANGED <<session, ended, activeAt, cookie>>
    BY <1>2, <2>0, <2>1
  <2>2. CASE /\ session' = [s \in Sessions |->
                   IF s \in Marked(r) THEN [session[s] EXCEPT !.revoked = TRUE] ELSE session[s]]
             /\ activeAt' = [s \in Sessions |-> IF s \in Marked(r) THEN -1 ELSE activeAt[s]]
    <3>1. request'[r].at = "idle" /\ \A q \in Requests : q # r => request'[q] = request[q]
      BY <1>0, <2>0, GoOnly DEF Idle
    <3>2. \A s \in Sessions :
            session[s] # NoRow => session'[s] # NoRow /\ session'[s].expires = session[s].expires
      BY <1>0, <2>2, Rows DEF Session, NoRow
    <3>3. \A s \in Sessions : activeAt'[s] \in {-1, activeAt[s]}
      BY <2>2
    <3> QED
      BY <1>0, <1>1, <2>0, <3>1, <3>2, <3>3 DEF ActiveLasts, Lasts
  <2> QED
    BY <1>8, <2>1, <2>2 DEF Revoke
<1>9. ASSUME NEW s \in Sessions, LogoutUnidentified(s)
      PROVE  ActiveLasts'
  <2>1. /\ UNCHANGED <<clock, session, request>>
        /\ \A z \in Sessions : activeAt'[z] \in {-1, activeAt[z]}
    BY <1>0, <1>9 DEF LogoutUnidentified, TypeOK
  <2> QED
    BY <1>0, <2>1 DEF ActiveLasts, Lasts
<1>10. CASE Purge
  <2>1. UNCHANGED <<clock, activeAt, request>>
    BY <1>10 DEF Purge
  <2>2. \A s \in Sessions :
          session[s] # NoRow /\ session[s].expires >= clock - PurgeAge => session'[s] = session[s]
    BY <1>0, <1>10, Constants DEF Purge
  <2>3. \A s \in Sessions, t \in Int :
          clock < t + Threshold /\ Lasts(s, t) => session'[s] = session[s]
    BY <1>0, <2>2, Constants DEF Lasts
  <2>4. \A r \in Requests : request[r].at = "renew" => session'[request[r].session] = session[request[r].session]
    BY <1>0, <1>1, <2>2, Constants DEF ActiveLasts
  <2> QED
    BY <1>0, <1>1, <2>1, <2>3, <2>4 DEF ActiveLasts, Lasts
<1>11. CASE Tick
  <2>1. clock' = clock + 1 /\ UNCHANGED <<session, activeAt, request>>
    BY <1>11 DEF Tick, sessions
  <2> QED
    BY <1>0, <1>1, <2>1, Constants DEF ActiveLasts, Lasts
<1>12. CASE UNCHANGED vars
  BY <1>0, <1>12 DEF ActiveLasts, Lasts, vars
<1> QED
  BY <1>3, <1>4, <1>5, <1>6, <1>7, <1>8, <1>9, <1>10, <1>11, <1>12, Cases

-----------------------------------------------------------------------------
(* The theorems                                                            *)

\* The server starts with whole accounts, no sessions and no requests.
LEMMA InitInv == Init => AuthInv
<1> SUFFICES ASSUME Init
             PROVE  AuthInv
  OBVIOUS
<1>1. /\ \A r \in Requests : request[r] = Idle
      /\ \A s \in Sessions : session[s] = NoRow /\ cookie[s] = Never /\ activeAt[s] = -1
      /\ clock = 0 /\ ended = {}
  BY DEF Init
<1>2. TypeOK
  <2>1. account \in [Users -> Account \cup {NoRow}]
    BY DEF Init, Account
  <2>2. cookie \in [Sessions -> Never .. MaxTime + TTL]
    BY Constants DEF Init, Never
  <2> QED
    BY <2>1, <2>2, Constants DEF Init, TypeOK, Times
<1>3. Timely
  BY <1>1 DEF Timely
<1>4. SignupsApart
  BY <1>1 DEF SignupsApart, Idle
<1>5. RowsWhole
  <2>1. \A u \in Users :
          account[u].state = "committed" => account[u].profile /\ account[u].hash # "none"
    <3> SUFFICES ASSUME NEW u \in Users, account[u].state = "committed"
                 PROVE  account[u].profile /\ account[u].hash # "none"
      OBVIOUS
    <3>1. account[u] \in [state : {"committed"}, email : Emails, handle : Handles, profile : {TRUE}, hash : {"weak"}]
      <4>1. account[u] \in {NoRow} \cup
              [state : {"committed"}, email : Emails, handle : Handles, profile : {TRUE}, hash : {"weak"}]
        BY DEF Init
      <4>2. NoRow.state # "committed"
        BY DEF NoRow
      <4> QED
        BY <4>1, <4>2
    <3>2. account[u].profile = TRUE
      BY <3>1
    <3>3. account[u].hash = "weak"
      BY <3>1
    <3> QED
      BY <3>2, <3>3
  <2>2. \A u, v \in Users : account[u] # NoRow /\ account[v] # NoRow => u = v
    BY DEF Init
  <2> QED
    BY <2>1, <2>2 DEF RowsWhole
<1>6. EndsRecorded
  BY <1>1 DEF EndsRecorded
<1>7. ActiveLasts
  BY <1>1 DEF ActiveLasts, Idle
<1> QED
  BY <1>2, <1>3, <1>4, <1>5, <1>6, <1>7 DEF AuthInv

\* The invariant holds in every state.
THEOREM AuthInvariant == Spec => []AuthInv
<1>1. AuthInv /\ [Next]_vars => AuthInv'
  BY TypeStep, TimelyStep, ApartStep, RowsStep, EndsStep, LastsStep DEF AuthInv
<1> QED
  BY InitInv, <1>1, PTL DEF Spec

\* Type correctness.
THEOREM TypeCorrect == Spec => []TypeOK
BY AuthInvariant, PTL DEF AuthInv

\* Sign-ups that race or fail leave no account without its own address and handle,
\* a profile and a credential.
THEOREM AccountsAlwaysWhole == Spec => []AccountsWhole
<1>1. AuthInv => AccountsWhole
  BY Rows DEF AuthInv, RowsWhole, AccountsWhole, Committed
<1> QED
  BY AuthInvariant, <1>1, PTL

\* A renewal that was computed before a logout does not bring the session back.
THEOREM LogoutsAreFinal == Spec => []EndedForGood
<1>1. AuthInv => EndedForGood
  BY DEF AuthInv, TypeOK, EndsRecorded, EndedForGood, Live
<1> QED
  BY AuthInvariant, <1>1, PTL

\* Provided that no request takes longer than the lifetime less the threshold, a session
\* that authenticated a request outlives it by the threshold.
THEOREM ActiveAlwaysStaysIn == Spec => []ActiveStaysIn
<1>1. AuthInv => ActiveStaysIn
  <2> SUFFICES ASSUME AuthInv, NEW s \in Sessions, activeAt[s] >= 0, clock < activeAt[s] + Threshold
               PROVE  Live(s)
    BY DEF ActiveStaysIn
  <2>1. Lasts(s, activeAt[s]) /\ ~session[s].revoked
    BY DEF AuthInv, ActiveLasts, EndsRecorded, Lasts
  <2>2. clock \in Int /\ activeAt[s] \in Int /\ session[s].expires \in Int
    BY <2>1, Rows DEF AuthInv, TypeOK, Times, Lasts
  <2> QED
    BY <2>1, <2>2, Constants DEF Lasts, Live
<1> QED
  BY AuthInvariant, <1>1, PTL
=============================================================================
