--------------------------------- MODULE Auth ---------------------------------
(***************************************************************************)
(* Accounts and sessions (internal/auth, internal/users): requests that    *)
(* sign up, log in, authenticate, log out here or everywhere, each one a   *)
(* row of statements against PostgreSQL that other requests' statements    *)
(* fall between. A statement that changes rows is one step, a transaction's *)
(* rows keep their unique keys locked until it ends. Any statement may     *)
(* fail, which ends the request unless the code goes on.                   *)
(*                                                                         *)
(* Addresses and handles stand for what the unique indexes compare: the    *)
(* normalized address and the handle in lower case. Requests that are      *)
(* rejected before the first statement (validation, the rate limit) and    *)
(* passwords that do not match change nothing and are left out. Answers    *)
(* arrive. Server and database read one clock.                             *)
(***************************************************************************)
EXTENDS Integers

CONSTANTS
  Users,      \* account ids
  Emails,     \* users.email
  Handles,    \* lower(users.handle)
  Sessions,   \* session ids, and their tokens
  Requests,   \* HTTP requests in progress at a time
  TTL,        \* SessionTTL
  Threshold,  \* SessionRenewThreshold
  PurgeAge,   \* the 30 days of qDeleteExpiredSessions
  Latency,    \* bound: how long a request takes
  SignupUntil, \* bound: the last tick a sign-up starts at; accounts know no time
  MaxTime     \* bound: ticks of a behaviour

ASSUME TimesAssumption == TTL \in Nat /\ Threshold \in Nat \ {0} /\ PurgeAge \in Nat
ASSUME BoundsAssumption == SignupUntil \in Nat /\ MaxTime \in Nat
\* 14, 7 and 30 days, and no request that takes a week.
ASSUME LatencyAssumption ==
  Latency \in Nat /\ Latency + Threshold <= TTL /\ Latency <= PurgeAge + 1

VARIABLES
  clock,
  account,  \* rows of users with their profile and credential, by user
  session,  \* rows of sessions, by session
  cookie,   \* by session: when the cookie that carries its token expires; Never it
            \* was set, or Cleared
  request,  \* by request: where it is and what it has read
  ended,    \* history: the sessions a logout has been answered for
  activeAt  \* history, by session: when it last authenticated a request, unless
            \* the renewal that was due failed; -1 before, and after a logout

vars == <<clock, account, session, cookie, request, ended, activeAt>>

NoRow == [state |-> "none"]
Never == -1
Cleared == 0
Account ==
  [state : {"inserted", "committed"}, email : Emails, handle : Handles,
   profile : BOOLEAN, hash : {"none", "weak", "strong"}]
Times == 0 .. MaxTime
Session == [state : {"row"}, user : Users, expires : 0 .. MaxTime + TTL, revoked : BOOLEAN]

Idle == [at |-> "idle"]
Signing == [at : {"insert", "fill"}, user : Users, email : Emails, handle : Handles, since : Times]
Entering == [at : {"rehash", "issue"}, user : Users, since : Times]
Presenting ==
  [at : {"renew", "act"}, op : {"use", "logout", "logoutAll"}, session : Sessions,
   user : Users, since : Times, renewed : BOOLEAN]

TypeOK ==
  /\ clock \in Times
  /\ account \in [Users -> Account \cup {NoRow}]
  /\ session \in [Sessions -> Session \cup {NoRow}]
  /\ cookie \in [Sessions -> Never .. MaxTime + TTL]
  /\ request \in [Requests -> {Idle} \cup Signing \cup Entering \cup Presenting]
  /\ ended \subseteq Sessions
  /\ activeAt \in [Sessions -> Times \cup {-1}]

\* One account may exist, with a hash of an older policy.
Init ==
  /\ clock = 0
  /\ account \in [Users -> {NoRow} \cup
       [state : {"committed"}, email : Emails, handle : Handles, profile : {TRUE}, hash : {"weak"}]]
  /\ \A u, v \in Users : account[u] # NoRow /\ account[v] # NoRow => u = v
  /\ session = [s \in Sessions |-> NoRow]
  /\ cookie = [s \in Sessions |-> Never]
  /\ request = [r \in Requests |-> Idle]
  /\ ended = {}
  /\ activeAt = [s \in Sessions |-> -1]

sessions == <<session, cookie, ended, activeAt>>

\* The request is at another statement, or over.
Go(r, state) == request' = [request EXCEPT ![r] = state]

\* The statement failed and the handler answers with an error.
Fail(r) == Go(r, Idle)

-----------------------------------------------------------------------------
(* Sign-up: one transaction, then a session                                *)

\* Signup: the password is hashed, nothing is written.
Signup(r) ==
  /\ request[r] = Idle
  /\ clock <= SignupUntil
  /\ \E u \in Users, e \in Emails, h \in Handles :
       /\ account[u] = NoRow
       /\ \A q \in Requests : request[q].at = "insert" => request[q].user # u
       /\ Go(r, [at |-> "insert", user |-> u, email |-> e, handle |-> h, since |-> clock])
  /\ UNCHANGED <<clock, account, sessions>>

\* The rows the unique indexes of users hold against this one.
Clashes(r) ==
  {u \in Users : account[u] # NoRow /\
     (account[u].email = request[r].email \/ account[u].handle = request[r].handle)}

\* insertUser: waits while a transaction holds a key, and fails when the key is taken.
InsertUser(r) ==
  /\ request[r].at = "insert"
  /\ \/ /\ Clashes(r) = {}
        /\ account' = [account EXCEPT ![request[r].user] =
             [state |-> "inserted", email |-> request[r].email, handle |-> request[r].handle,
              profile |-> FALSE, hash |-> "none"]]
        /\ Go(r, [request[r] EXCEPT !.at = "fill"])
     \/ Fail(r) /\ UNCHANGED account
  /\ UNCHANGED <<clock, sessions>>

\* Faulty variant: the credential is inserted after the transaction, and that fails.
CommitSignupWithoutCredential(r) ==
  /\ request[r].at = "fill"
  /\ LET u == request[r].user IN
       \/ /\ account' = [account EXCEPT ![u].state = "committed", ![u].profile = TRUE]
          /\ Go(r, [at |-> "issue", user |-> u, since |-> request[r].since])
       \/ account' = [account EXCEPT ![u] = NoRow] /\ Fail(r)
  /\ UNCHANGED <<clock, sessions>>

\* insertProfile, insertCredential, commit; if one of them fails, all is rolled back.
CommitSignup(r) ==
  /\ request[r].at = "fill"
  /\ LET u == request[r].user IN
       \/ /\ account' = [account EXCEPT ![u].state = "committed",
                                         ![u].profile = TRUE, ![u].hash = "strong"]
          /\ Go(r, [at |-> "issue", user |-> u, since |-> request[r].since])
       \/ account' = [account EXCEPT ![u] = NoRow] /\ Fail(r)
  /\ UNCHANGED <<clock, sessions>>

-----------------------------------------------------------------------------
(* Login                                                                   *)

\* Login reads the credential of the address, verifies the password, reads the user.
Login(r) ==
  /\ request[r] = Idle
  /\ \E u \in Users :
       /\ account[u] # NoRow
       /\ account[u].state = "committed" /\ account[u].hash # "none"
       /\ Go(r, [at |-> IF account[u].hash = "weak" THEN "rehash" ELSE "issue",
                 user |-> u, since |-> clock])
  /\ UNCHANGED <<clock, account, sessions>>

\* updateCredential; its failure is not the login's.
Rehash(r) ==
  /\ request[r].at = "rehash"
  /\ \/ account' = [account EXCEPT ![request[r].user].hash = "strong"]
     \/ UNCHANGED account
  /\ Go(r, [request[r] EXCEPT !.at = "issue"])
  /\ UNCHANGED <<clock, sessions>>

SetSessionCookie(s) == cookie' = [cookie EXCEPT ![s] = clock + TTL]

ClearSessionCookie(s) == cookie' = [cookie EXCEPT ![s] = Cleared]

\* issueSession, and the cookie that goes out with it; or insertSession fails.
IssueSession(r) ==
  /\ request[r].at = "issue"
  /\ \/ \E s \in Sessions :
          /\ session[s] = NoRow /\ cookie[s] = Never
          /\ session' = [session EXCEPT ![s] = [state |-> "row", user |-> request[r].user,
                                                expires |-> clock + TTL, revoked |-> FALSE]]
          /\ SetSessionCookie(s)
          /\ activeAt' = [activeAt EXCEPT ![s] = clock]
     \/ UNCHANGED <<session, cookie, activeAt>>
  /\ Go(r, Idle)
  /\ UNCHANGED <<clock, account, ended>>

-----------------------------------------------------------------------------
(* A request with a cookie: Authenticate, then the handler                 *)

Live(s) == session[s] # NoRow /\ ~session[s].revoked /\ session[s].expires > clock

\* Faulty variant: the time since the expiry is compared.
DueSwapped(s) == clock - session[s].expires > Threshold

\* Sliding expiry: renewal is due when less than the threshold is left.
Due(s) == session[s].expires - clock < Threshold

\* Authenticate: selectLiveSession finds the session. Otherwise RequireAuth answers 401.
Authenticate(r) ==
  /\ request[r] = Idle
  /\ \E s \in Sessions, op \in {"use", "logout", "logoutAll"} :
       /\ clock < cookie[s]
       /\ Live(s)
       /\ Go(r, [at |-> IF Due(s) THEN "renew" ELSE "act", op |-> op, session |-> s,
                 user |-> session[s].user, since |-> clock, renewed |-> TRUE])
  /\ UNCHANGED <<clock, account, sessions>>

\* OptionalAuth goes on without an identity when the session is dead, or the query fails:
\* logout clears the cookie, revokes nothing, and answers as ever.
LogoutUnidentified(s) ==
  /\ clock < cookie[s]
  /\ ClearSessionCookie(s)
  /\ activeAt' = [activeAt EXCEPT ![s] = -1]
  /\ UNCHANGED <<clock, account, session, request, ended>>

\* Faulty variants: the row that was read is written back with its new expiry; the
\* TTL is added to the old expiry.
TouchedWhole(r) ==
  [session[request[r].session] EXCEPT !.expires = request[r].since + TTL, !.revoked = FALSE]
TouchedAgain(r) == [session[request[r].session] EXCEPT !.expires = @ + TTL]

\* qTouchSession sets the expiry computed when the row was read, nothing else.
Touched(r) == [session[request[r].session] EXCEPT !.expires = request[r].since + TTL]

\* touchSession: no row, no update; a failure is only logged.
Renew(r) ==
  /\ request[r].at = "renew"
  /\ LET s == request[r].session IN
       \/ /\ session' = IF session[s] = NoRow THEN session ELSE [session EXCEPT ![s] = Touched(r)]
          /\ Go(r, [request[r] EXCEPT !.at = "act"])
       \/ /\ Go(r, [request[r] EXCEPT !.at = "act", !.renewed = FALSE])
          /\ UNCHANGED session
  /\ UNCHANGED <<clock, account, cookie, ended, activeAt>>

\* A handler behind RequireAuth answers.
Use(r) ==
  /\ request[r].at = "act" /\ request[r].op = "use"
  /\ LET s == request[r].session IN
       IF request[r].renewed /\ s \notin ended /\ cookie[s] # Cleared /\ activeAt[s] < request[r].since
       THEN activeAt' = [activeAt EXCEPT ![s] = request[r].since]
       ELSE UNCHANGED activeAt
  /\ Go(r, Idle)
  /\ UNCHANGED <<clock, account, session, cookie, ended>>

\* The rows revokeSession or revokeAllForUser marks.
Marked(r) ==
  {s \in Sessions : session[s] # NoRow /\
     \/ request[r].op = "logout" /\ s = request[r].session
     \/ request[r].op = "logoutAll" /\ session[s].user = request[r].user}

\* Logout and LogoutAll, or their statement fails.
Revoke(r) ==
  /\ request[r].at = "act" /\ request[r].op # "use"
  /\ \/ /\ session' = [s \in Sessions |->
                         IF s \in Marked(r) THEN [session[s] EXCEPT !.revoked = TRUE] ELSE session[s]]
        /\ ended' = ended \cup Marked(r)
        /\ activeAt' = [s \in Sessions |-> IF s \in Marked(r) THEN -1 ELSE activeAt[s]]
        /\ ClearSessionCookie(request[r].session)
     \/ UNCHANGED <<session, ended, activeAt, cookie>>
  /\ Go(r, Idle)
  /\ UNCHANGED <<clock, account>>

-----------------------------------------------------------------------------

\* PurgeExpiredSessions.
Purge ==
  /\ session' = [s \in Sessions |->
                   IF session[s] # NoRow /\ session[s].expires < clock - PurgeAge
                   THEN NoRow ELSE session[s]]
  /\ session' # session
  /\ UNCHANGED <<clock, account, cookie, request, ended, activeAt>>

Tick ==
  /\ clock < MaxTime
  /\ \A r \in Requests : request[r] # Idle => clock < request[r].since + Latency
  /\ clock' = clock + 1
  /\ UNCHANGED <<account, sessions, request>>

Next ==
  \/ Purge \/ Tick
  \/ \E s \in Sessions : LogoutUnidentified(s)
  \/ \E r \in Requests :
       \/ Signup(r) \/ InsertUser(r) \/ CommitSignup(r)
       \/ Login(r) \/ Rehash(r) \/ IssueSession(r)
       \/ Authenticate(r) \/ Renew(r) \/ Use(r) \/ Revoke(r)

Spec == Init /\ [][Next]_vars

-----------------------------------------------------------------------------
(* Properties                                                              *)

Committed == {u \in Users : account[u] # NoRow /\ account[u].state = "committed"}

\* However sign-ups race and fail, every account has its own address and handle, a
\* profile and a credential to log in with (auth/service.go:40, users/service.go:44).
AccountsWhole ==
  \A u \in Committed :
    /\ account[u].profile /\ account[u].hash # "none"
    /\ \A v \in Committed \ {u} :
         account[u].email # account[v].email /\ account[u].handle # account[v].handle

\* A session that was logged out stays dead, whatever renewals are still under way.
EndedForGood == \A s \in ended : ~Live(s)

\* "An active player is never logged out mid-session": once it has authenticated a
\* request, a session lives for the threshold at least unless it is logged out, also
\* when an older renewal is written after a newer one (auth/service.go:147).
ActiveStaysIn ==
  \A s \in Sessions :
    activeAt[s] >= 0 /\ clock < activeAt[s] + Threshold => Live(s)

\* The cookie: as long as an active player's session lives it is still sent.
ActiveKeepsCookie ==
  \A s \in Sessions :
    activeAt[s] >= 0 /\ clock < activeAt[s] + Threshold => clock < cookie[s]
=============================================================================
