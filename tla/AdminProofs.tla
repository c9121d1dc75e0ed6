----------------------------- MODULE AdminProofs -----------------------------
(***************************************************************************)
(* Proofs about the administrator.  AdminBootstrap, for any number of      *)
(* processes and resets: between two resets the row is written once, so a  *)
(* process that is about to print still owns it, and a printed line of     *)
(* this reset names the owner.  AdminSession, for any clients, tokens, TTL *)
(* and difference of the clocks: a check is passed only with a recent      *)
(* session or the bearer token, and a session that has ended stays ended.  *)
(***************************************************************************)
EXTENDS AdminBootstrap, AdminSession, TLAPS

-----------------------------------------------------------------------------
(* AdminBootstrap: the administrator's password *)

\* The process about to print is the one whose password the row holds.
Owner == \A r \in Runs : stage[r] = "log" => admin = r

BootstrapInv == TypeOK /\ Owner /\ DoneMeansAdmin /\ PrintedCredentialsWork
       /\ \A line \in logged : line.resets <= resets

LEMMA BootstrapInitInv == BootstrapInit => BootstrapInv
<1> SUFFICES ASSUME BootstrapInit PROVE BootstrapInv
  OBVIOUS
<1>1. reachable \in BOOLEAN
  BY Zenon DEF BootstrapInit
<1>2. /\ admin = NoAdmin /\ stage = [r \in Runs |-> "off"] /\ resets = 0 /\ logged = {}
  BY DEF BootstrapInit
<1>3. TypeOK
  BY <1>1, <1>2, BootstrapAssumption DEF TypeOK
<1> QED BY <1>2, <1>3 DEF BootstrapInv, Owner, DoneMeansAdmin, PrintedCredentialsWork

\* An INSERT keeps an existing administrator.
LEMMA InsertedKeeps ==
  ASSUME NEW r \in Runs
  PROVE  (admin # NoAdmin => Inserted(r) = admin) /\ Inserted(r) \in {admin, r}
BY DEF Inserted

\* A step that at most fills an empty row and moves one process to a state in which
\* it does not print.
LEMMA FillStep ==
  ASSUME BootstrapInv, NEW r \in Runs, NEW to \in {"try", "wait", "stopped"},
         admin' \in {admin, Inserted(r)}, stage' = [stage EXCEPT ![r] = to],
         UNCHANGED <<resets, logged>>, reachable' \in BOOLEAN
  PROVE  BootstrapInv'
<1>1. (admin # NoAdmin => admin' = admin) /\ admin' \in {admin, r}
  BY InsertedKeeps
<1>2. TypeOK'
  BY <1>1 DEF BootstrapInv, TypeOK
<1>3. Owner' /\ DoneMeansAdmin'
  BY <1>1, BootstrapAssumption DEF BootstrapInv, TypeOK, Owner, DoneMeansAdmin
<1>4. PrintedCredentialsWork' /\ \A line \in logged' : line.resets <= resets'
  BY <1>1, BootstrapAssumption DEF BootstrapInv, TypeOK, PrintedCredentialsWork
<1> QED BY <1>2, <1>3, <1>4 DEF BootstrapInv

LEMMA BootstrapInvStep == BootstrapInv /\ [BootstrapNext]_bootstrapVars => BootstrapInv'
<1> SUFFICES ASSUME BootstrapInv, [BootstrapNext]_bootstrapVars PROVE BootstrapInv'
  OBVIOUS
<1> USE BootstrapAssumption
<1>1. CASE Outage
  <2>1. reachable' \in BOOLEAN
    BY <1>1, Zenon DEF Outage
  <2> QED BY <1>1, <2>1 DEF Outage, BootstrapInv, TypeOK, Owner, DoneMeansAdmin, PrintedCredentialsWork
<1>2. CASE Reset
  <2>1. /\ resets' = resets + 1 /\ resets' \in 0..MaxResets /\ admin' = NoAdmin
        /\ UNCHANGED <<reachable, stage, logged>>
    BY <1>2 DEF Reset, BootstrapInv, TypeOK
  <2>2. TypeOK'
    BY <2>1 DEF BootstrapInv, TypeOK
  <2>3. Owner' /\ DoneMeansAdmin'
    BY <1>2, <2>1 DEF Reset, Alive, BootstrapInv, TypeOK, Owner, DoneMeansAdmin
  <2>4. \A line \in logged' : line.resets <= resets /\ line.resets # resets' /\ line.resets <= resets'
    BY <2>1 DEF BootstrapInv, TypeOK
  <2> QED BY <2>2, <2>3, <2>4 DEF BootstrapInv, PrintedCredentialsWork
<1>3. ASSUME NEW r \in Runs, Start(r) \/ Retry(r) \/ Error(r) \/ Stop(r) PROVE BootstrapInv'
  <2>1. PICK to \in {"try", "wait", "stopped"} : stage' = [stage EXCEPT ![r] = to]
    BY <1>3 DEF Start, Retry, Error, Stop, Move, AfterError
  <2>2. admin' \in {admin, Inserted(r)}
    BY <1>3 DEF Start, Retry, Error, Stop
  <2>3. UNCHANGED <<reachable, resets, logged>>
    BY <1>3 DEF Start, Retry, Error, Stop
  <2>4. reachable' \in BOOLEAN
    BY <2>3 DEF BootstrapInv, TypeOK
  <2> QED BY <2>1, <2>2, <2>3, <2>4, FillStep
<1>4. ASSUME NEW r \in Runs, Ensure(r) PROVE BootstrapInv'
  <2>1. /\ admin' = Inserted(r) /\ UNCHANGED <<reachable, resets, logged>>
        /\ stage' = [stage EXCEPT ![r] = IF admin = NoAdmin THEN "log" ELSE "done"]
    BY <1>4 DEF Ensure, Move, Created
  <2>2. CASE admin = NoAdmin
    <3>1. admin' = r /\ stage' = [stage EXCEPT ![r] = "log"]
      BY <2>1, <2>2 DEF Inserted
    <3>2. \A s \in Runs : stage[s] # "log"
      BY <2>2 DEF BootstrapInv, Owner
    <3>3. TypeOK' /\ Owner' /\ DoneMeansAdmin'
      BY <2>1, <3>1, <3>2 DEF BootstrapInv, TypeOK, Owner, DoneMeansAdmin
    <3>4. PrintedCredentialsWork' /\ \A line \in logged' : line.resets <= resets'
      BY <2>1, <2>2 DEF BootstrapInv, TypeOK, PrintedCredentialsWork
    <3> QED BY <3>3, <3>4 DEF BootstrapInv
  <2>3. CASE admin # NoAdmin
    <3>1. admin' = admin /\ stage' = [stage EXCEPT ![r] = "done"]
      BY <2>1, <2>3 DEF Inserted
    <3>2. TypeOK' /\ Owner' /\ DoneMeansAdmin'
      BY <2>1, <2>3, <3>1 DEF BootstrapInv, TypeOK, Owner, DoneMeansAdmin
    <3>3. PrintedCredentialsWork' /\ \A line \in logged' : line.resets <= resets'
      BY <2>1, <3>1 DEF BootstrapInv, TypeOK, PrintedCredentialsWork
    <3> QED BY <3>2, <3>3 DEF BootstrapInv
  <2> QED BY <2>2, <2>3
<1>5. ASSUME NEW r \in Runs, Log(r) PROVE BootstrapInv'
  <2>1. /\ stage[r] = "log" /\ stage' = [stage EXCEPT ![r] = "done"] /\ UNCHANGED <<reachable, admin, resets>>
        /\ logged' = logged \cup {[run |-> r, resets |-> resets]}
    BY <1>5 DEF Log, Move
  <2>2. admin = r
    BY <2>1 DEF BootstrapInv, Owner
  <2>3. TypeOK'
    BY <2>1 DEF BootstrapInv, TypeOK
  <2>4. Owner' /\ DoneMeansAdmin'
    BY <2>1, <2>2 DEF BootstrapInv, TypeOK, Owner, DoneMeansAdmin
  <2>5. PrintedCredentialsWork' /\ \A line \in logged' : line.resets <= resets'
    BY <2>1, <2>2 DEF BootstrapInv, TypeOK, PrintedCredentialsWork
  <2> QED BY <2>3, <2>4, <2>5 DEF BootstrapInv
<1>6. CASE UNCHANGED bootstrapVars
  BY <1>6 DEF bootstrapVars, BootstrapInv, TypeOK, Owner, DoneMeansAdmin, PrintedCredentialsWork
<1> QED BY <1>1, <1>2, <1>3, <1>4, <1>5, <1>6 DEF BootstrapNext, Bootstrap

LEMMA BootstrapInvCorrect == BootstrapSpec => []BootstrapInv
BY BootstrapInitInv, BootstrapInvStep, PTL DEF BootstrapSpec

\* A printed password works until the operator deletes the row, whatever processes
\* race, stop or lose replies.
THEOREM PrintedCredentialsCorrect == BootstrapSpec => []PrintedCredentialsWork
<1>1. BootstrapInv => PrintedCredentialsWork
  BY DEF BootstrapInv
<1> QED BY <1>1, BootstrapInvCorrect, PTL

\* A process whose bootstrap ended has an administrator.
THEOREM DoneCorrect == BootstrapSpec => []DoneMeansAdmin
<1>1. BootstrapInv => DoneMeansAdmin
  BY DEF BootstrapInv
<1> QED BY <1>1, BootstrapInvCorrect, PTL

\* No step but the operator's changes the password of an existing administrator.
THEOREM PasswordNeverReplaced == BootstrapSpec => NeverReplaced
<1>1. BootstrapInv /\ [BootstrapNext]_bootstrapVars => [admin # NoAdmin /\ resets' = resets => admin' = admin]_bootstrapVars
  <2> SUFFICES ASSUME BootstrapInv, BootstrapNext, admin # NoAdmin, resets' = resets PROVE admin' = admin
    OBVIOUS
  <2>1. ~Reset
    BY BootstrapAssumption DEF Reset, BootstrapInv, TypeOK
  <2>2. CASE Outage
    BY <2>2 DEF Outage
  <2>3. ASSUME NEW r \in Runs, Start(r) \/ Bootstrap(r) \/ Stop(r) PROVE admin' = admin
    BY <2>3, InsertedKeeps DEF Start, Bootstrap, Ensure, Error, Retry, Log, Stop
  <2> QED BY <2>1, <2>2, <2>3 DEF BootstrapNext
<1> QED BY <1>1, BootstrapInvCorrect, PTL DEF BootstrapSpec, NeverReplaced

-----------------------------------------------------------------------------
(* AdminSession: what the rows say *)

\* What the rows say: the expiry is the TTL after the login, by the other clock.
Lifetimes ==
  /\ now \in Nat /\ skew \in Int
  /\ \A t \in DOMAIN sessions :
       /\ sessions[t].created \in Int
       /\ sessions[t].expires = sessions[t].created + TTL + skew

-----------------------------------------------------------------------------
(* The switch of handleAdmin *)

\* Whatever the path and the method, the first thing that happens is a check, a login
\* or a logout: no handler is reached directly.
LEMMA EveryRouteIsGuarded ==
  ASSUME NEW path \in Paths, NEW method \in Methods,
         path \in DOMAIN Routes => method \in DOMAIN Routes[path]
  PROVE  FirstStep(Handler(path, method)) \in {"check", "login", "logout"}
<1>1. CASE path \notin DOMAIN Routes
  BY <1>1 DEF Handler, FirstStep, Checks
<1>2. CASE path \in DOMAIN Routes
  <2>1. DOMAIN Routes = {"login", "logout", "ui", "session", "admin"}
    BY DEF Routes
  <2>2. CASE path = "login"
    BY <1>2, <2>1, <2>2 DEF Routes, Handler, FirstStep, Checks
  <2>3. CASE path = "logout"
    BY <1>2, <2>1, <2>3 DEF Routes, Handler, FirstStep, Checks
  <2>4. CASE path = "ui"
    BY <1>2, <2>1, <2>4 DEF Routes, Handler, FirstStep, Checks
  <2>5. CASE path = "session"
    BY <1>2, <2>1, <2>5 DEF Routes, Handler, FirstStep, Checks
  <2>6. CASE path = "admin"
    BY <1>2, <2>1, <2>6 DEF Routes, Handler, FirstStep, Checks
  <2> QED BY <1>2, <2>1, <2>2, <2>3, <2>4, <2>5, <2>6
<1> QED BY <1>1, <1>2

-----------------------------------------------------------------------------
(* The rows *)

LEMMA LifetimesInit == ASSUME Init PROVE Lifetimes
BY ConstantsAssumption DEF Init, Lifetimes

LEMMA DeletedKeepsLifetimes ==
  ASSUME Lifetimes, NEW gone, DeleteSessions(gone), UNCHANGED <<now, skew>>
  PROVE  Lifetimes'
BY DEF Lifetimes, DeleteSessions, Restrict

LEMMA AddedKeepsLifetimes ==
  ASSUME Lifetimes, NEW t, AddSession(t), UNCHANGED <<now, skew>>
  PROVE  Lifetimes'
BY ConstantsAssumption DEF Lifetimes, AddSession, ExpiresAt

LEMMA LifetimesStep ==
  ASSUME Lifetimes, [Next]_vars
  PROVE  Lifetimes'
<1>1. CASE UNCHANGED <<now, skew, sessions>>
  BY <1>1 DEF Lifetimes
<1>2. CASE Clock
  BY <1>2 DEF Lifetimes, Clock, db
<1>3. CASE Cleanup \/ CleanupUnheard
  BY <1>3, DeletedKeepsLifetimes DEF Cleanup, CleanupUnheard
<1>4. ASSUME NEW c \in Clients, Logout(c) PROVE Lifetimes'
  <2>1. CASE UNCHANGED db
    BY <1>1, <1>4, <2>1 DEF Logout, db
  <2>2. CASE DeleteSessions({token[c]})
    BY <1>4, <2>2, DeletedKeepsLifetimes DEF Logout
  <2> QED BY <1>4, <2>1, <2>2 DEF Logout
<1>5. ASSUME NEW c \in Clients, NEW t \in Tokens, CreateAdminSession(c, t) PROVE Lifetimes'
  <2>1. CASE AddSession(t)
    BY <1>5, <2>1, AddedKeepsLifetimes DEF CreateAdminSession
  <2>2. CASE UNCHANGED sessions
    BY <1>1, <1>5, <2>2 DEF CreateAdminSession
  <2> QED BY <1>5, <2>1, <2>2 DEF CreateAdminSession
<1>6. CASE Database
  BY <1>1, <1>6 DEF Database, db
<1>7. ASSUME NEW c \in Clients,
             \/ Authenticate(c) \/ Touch(c) \/ Serve(c) \/ Password(c)
             \/ LastLogin(c) \/ SetCookie(c)
      PROVE  Lifetimes'
  BY <1>1, <1>7 DEF Authenticate, Touch, Serve, Password, LastLogin, SetCookie, db
<1>8. ASSUME NEW c \in Clients, NEW p \in Paths, NEW m \in Methods, NEW b \in BOOLEAN,
             Request(c, p, m, b)
      PROVE  Lifetimes'
  BY <1>1, <1>8 DEF Request, db
<1>9. CASE UNCHANGED vars
  BY <1>1, <1>9 DEF vars, db
<1> QED
  BY <1>2, <1>3, <1>4, <1>5, <1>6, <1>7, <1>8, <1>9 DEF Next, Step

-----------------------------------------------------------------------------
(* The check *)

\* What one step may do with one request: AuthenticatedRecently without its brackets.
Recent(c) ==
  pc[c] \in {"idle", "check"} /\ pc'[c] \in {"touch", "serve"} /\ ~bearer'[c] =>
    token'[c] \in DOMAIN sessions /\ now < sessions[token'[c]].created + TTL + skew

\* Every client has its place.
Shape == DOMAIN pc = Clients

LEMMA ShapeInit == ASSUME Init PROVE Shape
BY DEF Init, Shape

LEMMA ShapeStep == ASSUME Shape, [Next]_vars PROVE Shape'
<1>1. ASSUME NEW c \in Clients, Step(c) PROVE Shape'
  <2>1. ASSUME Answer(c) PROVE Shape'
    BY <2>1 DEF Shape, Answer, Goto
  <2>2. ASSUME NEW s, Goto(c, s) PROVE Shape'
    BY <2>2 DEF Shape, Goto
  <2>3. CASE Authenticate(c)
    BY <2>1, <2>2, <2>3 DEF Authenticate
  <2>4. CASE Touch(c)
    BY <2>2, <2>4 DEF Touch
  <2>5. CASE Serve(c) \/ SetCookie(c) \/ Logout(c)
    BY <2>1, <2>5 DEF Serve, SetCookie, Logout
  <2>6. CASE Password(c)
    BY <2>1, <2>2, <2>6 DEF Password
  <2>7. CASE LastLogin(c)
    BY <2>1, <2>2, <2>7 DEF LastLogin
  <2>8. ASSUME NEW t \in Tokens, CreateAdminSession(c, t) PROVE Shape'
    <3>1. Goto(c, "cookie") \/ UNCHANGED pc \/ Answer(c)
      BY <2>8 DEF CreateAdminSession
    <3> QED BY <2>1, <2>2, <3>1 DEF Shape
  <2> QED BY <1>1, <2>3, <2>4, <2>5, <2>6, <2>7, <2>8 DEF Step
<1>2. ASSUME NEW c \in Clients, NEW p \in Paths, NEW m \in Methods, NEW b \in BOOLEAN,
             Request(c, p, m, b)
      PROVE  Shape'
  BY <1>2 DEF Request, Shape
<1>3. CASE Database \/ Clock \/ Cleanup \/ CleanupUnheard \/ UNCHANGED vars
  BY <1>3 DEF Shape, Database, Clock, Cleanup, CleanupUnheard, vars, request
<1> QED BY <1>1, <1>2, <1>3 DEF Next

LEMMA ChecksAreRecent ==
  ASSUME Shape, Lifetimes, [Next]_vars, NEW c \in Clients
  PROVE  Recent(c)
<1>1. CASE pc'[c] = pc[c]
  BY <1>1 DEF Recent
<1>2. CASE pc'[c] \notin {"touch", "serve"}
  BY <1>2 DEF Recent
<1>3. CASE pc[c] \notin {"idle", "check"}
  BY <1>3 DEF Recent
<1>4. ASSUME NEW p \in Paths, NEW m \in Methods, NEW b \in BOOLEAN, Request(c, p, m, b)
      PROVE  Recent(c)
  <2>1. pc'[c] \in {"check", "login", "logout"}
    BY <1>4, EveryRouteIsGuarded DEF Request, Shape
  <2> QED BY <1>2, <2>1
<1>5. CASE Authenticate(c)
  <2>1. CASE bearer[c] /\ UNCHANGED request
    BY <2>1 DEF Recent, request
  <2>2. CASE Valid(token[c]) /\ UNCHANGED request
    <3> DEFINE t == token[c]
    <3>1. t \in DOMAIN sessions /\ now < sessions[t].expires
      BY <2>2 DEF Valid, Lifetimes
    <3>2. sessions[t].expires = sessions[t].created + TTL + skew
      BY <3>1 DEF Lifetimes
    <3> QED BY <2>2, <3>1, <3>2 DEF Recent, request
  <2>3. CASE Answer(c)
    BY <1>2, <2>3 DEF Answer, Goto, Shape
  <2> QED BY <1>5, <2>1, <2>2, <2>3 DEF Authenticate
<1>6. ASSUME NEW d \in Clients, d # c,
             \/ Step(d)
             \/ \E p \in Paths, m \in Methods, b \in BOOLEAN : Request(d, p, m, b)
      PROVE  Recent(c)
  <2>1. pc'[c] = pc[c]
    BY <1>6 DEF Step, Request, Authenticate, Touch, Serve, Password, LastLogin, SetCookie,
                Logout, CreateAdminSession, Answer, Goto, Shape
  <2> QED BY <1>1, <2>1
<1>7. ASSUME Step(c), ~Authenticate(c) PROVE Recent(c)
  BY <1>3, <1>7 DEF Step, Touch, Serve, Password, LastLogin, SetCookie, Logout,
                    CreateAdminSession
<1>8. CASE Database \/ Clock \/ Cleanup \/ CleanupUnheard \/ UNCHANGED vars
  BY <1>1, <1>8 DEF Database, Clock, Cleanup, CleanupUnheard, vars
<1> QED
  BY <1>4, <1>5, <1>6, <1>7, <1>8 DEF Next

\* Nobody gets past the check in front of the admin pages and the API (requireAdminPage,
\* requireAdminAPI, ValidateAdminSession) except with the bearer token or a session less
\* than the TTL old, up to the difference of the clocks, whatever requests, logouts,
\* clean-ups and failures happen meanwhile.
THEOREM AuthenticationIsRecent == SafeSpec => AuthenticatedRecently
<1>1. Init => Lifetimes /\ Shape
  BY LifetimesInit, ShapeInit
<1>2. Lifetimes /\ Shape /\ [Next]_vars => Lifetimes' /\ Shape'
  BY LifetimesStep, ShapeStep
<1>3. Lifetimes /\ Shape /\ [Next]_vars => [\A c \in Clients : Recent(c)]_vars
  BY ChecksAreRecent
<1>4. SafeSpec => [][\A c \in Clients : Recent(c)]_vars
  BY <1>1, <1>2, <1>3, PTL DEF SafeSpec
<1> QED BY <1>4 DEF AuthenticatedRecently, Recent

-----------------------------------------------------------------------------
(* The end of a session *)

\* EndedForGood without its brackets.
NoneBack == \A t \in generated : t \in DOMAIN sessions' => t \in DOMAIN sessions

LEMMA NoneComesBack == ASSUME Next PROVE NoneBack
<1>1. CASE UNCHANGED sessions
  BY <1>1 DEF NoneBack
<1>2. ASSUME NEW gone, DeleteSessions(gone) PROVE NoneBack
  BY <1>2 DEF NoneBack, DeleteSessions, Restrict
<1>3. ASSUME NEW c \in Clients, NEW t \in Tokens, CreateAdminSession(c, t) PROVE NoneBack
  <2>1. CASE AddSession(t)
    BY <1>3, <2>1 DEF NoneBack, CreateAdminSession, AddSession
  <2> QED BY <1>1, <1>3, <2>1 DEF CreateAdminSession
<1>4. ASSUME NEW c \in Clients,
             \/ Authenticate(c) \/ Touch(c) \/ Serve(c) \/ Password(c)
             \/ LastLogin(c) \/ SetCookie(c) \/ Logout(c)
      PROVE  NoneBack
  BY <1>1, <1>2, <1>4
  DEF Authenticate, Touch, Serve, Password, LastLogin, SetCookie, Logout, db
<1>5. CASE Database \/ Clock
  BY <1>1, <1>5 DEF Database, Clock, db
<1>6. CASE Cleanup \/ CleanupUnheard
  BY <1>2, <1>6 DEF Cleanup, CleanupUnheard
<1>7. ASSUME NEW c \in Clients, NEW p \in Paths, NEW m \in Methods, NEW b \in BOOLEAN,
             Request(c, p, m, b)
      PROVE  NoneBack
  BY <1>1, <1>7 DEF Request, db
<1> QED BY <1>3, <1>4, <1>5, <1>6, <1>7 DEF Next, Step

\* A session that a logout or the clean-up has removed never becomes valid again, also
\* not by a request that was past its check when the row went (the UPDATE of
\* last_seen_at), nor by the retries of CreateAdminSession.
THEOREM EndedSessionsStayEnded == SafeSpec => EndedForGood
<1>1. [Next]_vars => [NoneBack]_vars
  BY NoneComesBack
<1>2. SafeSpec => [][NoneBack]_vars
  BY <1>1, PTL DEF SafeSpec
<1> QED BY <1>2 DEF EndedForGood, NoneBack
=============================================================================
