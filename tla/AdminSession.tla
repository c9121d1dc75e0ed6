---------------------------- MODULE AdminSession ----------------------------
(***************************************************************************)
(* Sessions of the administrator: login, logout and the check in front of  *)
(* every admin page and API call (admin.go), the session rows behind them  *)
(* (auth.go), and the daily clean-up (runRetention of main.go).  Expiry is *)
(* written by the clock of the process and read by that of the database.   *)
(* A statement that fails may have taken effect all the same.              *)
(***************************************************************************)
EXTENDS Integers, Functions

CONSTANTS
  Clients,      \* browsers and curl
  Tokens,       \* what generateSessionToken may return; a bound on the sessions
  NoToken,
  TTL,          \* cfg.AdminSessionTTL
  Skews,        \* how far the clock of the process may be ahead
  MaxTime       \* bound on the clock

ASSUME ConstantsAssumption ==
  /\ TTL \in Nat \ {0} /\ Skews \subseteq Int /\ MaxTime \in Nat
  /\ NoToken \notin Tokens

VARIABLES
  up, now, skew,            \* the audit database, its clock, and the other clock
  sessions,                 \* the rows by token: [created, expires]
  generated,                \* tokens drawn so far
  pc, bearer, token, attempt, expiresAt,   \* per client: the request it is in
  cookie, cookieEnd         \* the cookie it holds, and when it drops it

db == <<sessions, generated>>
request == <<bearer, token, attempt, expiresAt>>
jar == <<cookie, cookieEnd>>
vars == <<up, now, skew, db, pc, request, jar>>

Init ==
  /\ up \in BOOLEAN /\ now = 0 /\ skew \in Skews
  /\ sessions = [t \in {} |-> 0] /\ generated = {}
  /\ pc = [c \in Clients |-> "idle"]
  /\ bearer = [c \in Clients |-> FALSE] /\ token = [c \in Clients |-> NoToken]
  /\ attempt = [c \in Clients |-> 0] /\ expiresAt = [c \in Clients |-> 0]
  /\ cookie = [c \in Clients |-> NoToken] /\ cookieEnd = [c \in Clients |-> 0]

Database ==
  /\ up' = ~up
  /\ UNCHANGED <<now, skew, db, pc, request, jar>>

\* Time passes, and clients drop the cookies that have reached their Max-Age.
Clock ==
  /\ now < MaxTime /\ now' = now + 1
  /\ cookie' = [c \in Clients |-> IF cookieEnd[c] > now' THEN cookie[c] ELSE NoToken]
  /\ cookieEnd' = [c \in Clients |-> IF cookieEnd[c] > now' THEN cookieEnd[c] ELSE 0]
  /\ UNCHANGED <<up, skew, db, pc, request>>

-----------------------------------------------------------------------------
(* handleAdmin *)

\* The switch over path and method; what is not listed is answered 405.
Routes ==
  [login |-> [GET |-> "serveLogin", POST |-> "loginAdmin"],
   logout |-> [POST |-> "logoutAdmin"],
   ui |-> [GET |-> "requireAdminPage"],
   session |-> [GET |-> "authenticateAdmin", POST |-> "authenticateAdmin",
               PATCH |-> "authenticateAdmin"],
   admin |-> [GET |-> "authenticateAdmin"]]

\* Every other path needs the check before anything is said about it.
Handler(path, method) ==
  IF path \in DOMAIN Routes THEN Routes[path][method] ELSE "requireAdminAPI"

Checks == {"serveLogin", "requireAdminPage", "authenticateAdmin", "requireAdminAPI"}

FirstStep(h) ==
  CASE h \in Checks -> "check" [] h = "loginAdmin" -> "login"
    [] h = "logoutAdmin" -> "logout" [] OTHER -> "serve"

Request(c, path, method, b) ==
  /\ pc[c] = "idle" /\ (path \in DOMAIN Routes => method \in DOMAIN Routes[path])
  /\ pc' = [pc EXCEPT ![c] = FirstStep(Handler(path, method))]
  /\ bearer' = [bearer EXCEPT ![c] = b]
  /\ token' = [token EXCEPT ![c] = cookie[c]]
  /\ UNCHANGED <<up, now, skew, db, attempt, expiresAt, jar>>

Goto(c, step) == pc' = [pc EXCEPT ![c] = step]

\* The answer is written and the request is over.
Answer(c) ==
  /\ Goto(c, "idle")
  /\ bearer' = [bearer EXCEPT ![c] = FALSE]
  /\ token' = [token EXCEPT ![c] = NoToken] /\ attempt' = [attempt EXCEPT ![c] = 0]
  /\ expiresAt' = [expiresAt EXCEPT ![c] = 0]

-----------------------------------------------------------------------------
(* authenticateAdmin and ValidateAdminSession *)

\* Slip: a session is still good at the moment it expires.
Valid_AtExpiry(t) == t \in DOMAIN sessions /\ sessions[t].expires >= now

\* WHERE token_hash = $1 AND expires_at > NOW()
Valid(t) == t \in DOMAIN sessions /\ sessions[t].expires > now

\* The bearer token, or a session the database confirms; the login page is shown
\* to everybody else, and 401, 503 or a redirect in place of everything else.
Authenticate(c) ==
  /\ pc[c] = "check"
  /\ \/ bearer[c] /\ Goto(c, "serve") /\ UNCHANGED request
     \/ /\ ~bearer[c] /\ up /\ Valid(token[c])
        /\ Goto(c, "touch") /\ UNCHANGED request
     \/ ~bearer[c] /\ ~(up /\ Valid(token[c])) /\ Answer(c)
  /\ UNCHANGED <<up, now, skew, db, jar>>

\* time.Now().UTC().Add(ttl)
ExpiresAt == now + skew + TTL

\* created_at and expires_at: the first by the clock of the database
AddSession(t) ==
  sessions' = [x \in DOMAIN sessions \cup {t} |->
    IF x = t THEN [created |-> now, expires |-> ExpiresAt] ELSE sessions[x]]

\* Slip: the row is written as a new one, with a new expiry.
Touch_Upsert(c) ==
  /\ pc[c] = "touch" /\ Goto(c, "serve")
  /\ up /\ AddSession(token[c])
  /\ UNCHANGED <<up, now, skew, generated, request, jar>>

\* UPDATE ... SET last_seen_at: its error is ignored, and it makes no row.
Touch(c) ==
  /\ pc[c] = "touch" /\ Goto(c, "serve")
  /\ UNCHANGED <<up, now, skew, db, request, jar>>

Serve(c) ==
  /\ pc[c] = "serve" /\ Answer(c)
  /\ UNCHANGED <<up, now, skew, db, jar>>

-----------------------------------------------------------------------------
(* loginAdmin: AuthenticateAdmin, CreateAdminSession, setAdminSessionCookie *)

\* SELECT password_hash and bcrypt: the password is right, or it is not.
Password(c) ==
  /\ pc[c] = "login"
  /\ \/ up /\ Goto(c, "lastLogin") /\ UNCHANGED request
     \/ Answer(c)
  /\ UNCHANGED <<up, now, skew, db, jar>>

\* UPDATE ... SET last_login_at: its error fails the login.
LastLogin(c) ==
  /\ pc[c] = "lastLogin"
  /\ IF up THEN Goto(c, "insert") /\ UNCHANGED request ELSE Answer(c)
  /\ UNCHANGED <<up, now, skew, db, jar>>

\* One attempt: a new token, a new expiry, an INSERT.
CreateAdminSession(c, t) ==
  /\ pc[c] = "insert" /\ t \notin generated /\ generated' = generated \cup {t}
  /\ \/ /\ up /\ AddSession(t)
        /\ Goto(c, "cookie") /\ token' = [token EXCEPT ![c] = t]
        /\ expiresAt' = [expiresAt EXCEPT ![c] = ExpiresAt]
        /\ UNCHANGED <<bearer, attempt>>
     \/ /\ ~up /\ (AddSession(t) \/ UNCHANGED sessions)
        /\ IF attempt[c] < 2
             THEN attempt' = [attempt EXCEPT ![c] = @ + 1]
                  /\ UNCHANGED <<pc, bearer, token, expiresAt>>
             ELSE Answer(c)
  /\ UNCHANGED <<up, now, skew, jar>>

\* maxAge is what is left of the session by the clock of the process, at least 1.
SetCookie(c) ==
  LET left == expiresAt[c] - (now + skew) IN
  /\ pc[c] = "cookie" /\ Answer(c)
  /\ cookie' = [cookie EXCEPT ![c] = token[c]]
  /\ cookieEnd' = [cookieEnd EXCEPT ![c] = now + (IF left < 1 THEN 1 ELSE left)]
  /\ UNCHANGED <<up, now, skew, db>>

-----------------------------------------------------------------------------
(* logoutAdmin and the clean-up *)

DeleteSessions(gone) ==
  /\ sessions' = Restrict(sessions, DOMAIN sessions \ gone)
  /\ UNCHANGED generated

\* DeleteAdminSession, whose error is ignored, and clearAdminSessionCookie.
Logout(c) ==
  /\ pc[c] = "logout" /\ Answer(c)
  /\ \/ DeleteSessions({token[c]})
     \/ ~up /\ UNCHANGED db
  /\ cookie' = [cookie EXCEPT ![c] = NoToken] /\ cookieEnd' = [cookieEnd EXCEPT ![c] = 0]
  /\ UNCHANGED <<up, now, skew>>

Expired == {t \in DOMAIN sessions : sessions[t].expires <= now}

\* DELETE ... WHERE expires_at <= NOW(), at the start and once a day
Cleanup ==
  /\ up /\ DeleteSessions(Expired)
  /\ UNCHANGED <<up, now, skew, pc, request, jar>>

\* The same statement with its reply lost; a failure without effect changes nothing.
CleanupUnheard ==
  /\ ~up /\ DeleteSessions(Expired)
  /\ UNCHANGED <<up, now, skew, pc, request, jar>>

-----------------------------------------------------------------------------
Paths == DOMAIN Routes \cup {"records"}
Methods == {"GET", "POST", "PATCH"}

Step(c) ==
  \/ Authenticate(c) \/ Touch(c) \/ Serve(c) \/ Password(c) \/ LastLogin(c)
  \/ SetCookie(c) \/ Logout(c) \/ \E t \in Tokens : CreateAdminSession(c, t)

Next ==
  \/ Database \/ Clock \/ Cleanup \/ CleanupUnheard
  \/ \E c \in Clients :
       Step(c) \/ \E p \in Paths, m \in Methods, b \in BOOLEAN : Request(c, p, m, b)

SafeSpec == Init /\ [][Next]_vars

-----------------------------------------------------------------------------
(* Properties *)

\* No admin page or API call gets past its check except by the bearer token or by a
\* session stored less than the TTL before, give or take the difference of the two
\* clocks.
AuthenticatedRecently ==
  [][\A c \in Clients :
       pc[c] \in {"idle", "check"} /\ pc'[c] \in {"touch", "serve"} /\ ~bearer'[c] =>
         token'[c] \in DOMAIN sessions /\ now < sessions[token'[c]].created + TTL + skew]_vars

\* A session that logout or the clean-up has removed never comes back, whatever
\* requests of its client are under way, and a failed INSERT is not repeated.
EndedForGood == [][\A t \in generated : t \in DOMAIN sessions' => t \in DOMAIN sessions]_vars
=============================================================================
