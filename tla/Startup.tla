------------------------------ MODULE Startup ------------------------------
(***************************************************************************)
(* The start of the process: LoadConfig reads and judges the environment   *)
(* (config.go), and main opens the store, prepares the password, opens the *)
(* identity resolver, makes the queue and the proxy and starts its         *)
(* listeners (main.go), over databases that may or may not answer and      *)
(* addresses that may not be free.  Signals are in Sidecar.                *)
(* A text is reduced to what the code asks of it: whether it is empty,     *)
(* well formed, how many bytes it has.                                     *)
(***************************************************************************)
EXTENDS Integers, Sequences

CONSTANTS
  Environments,   \* the environments to start in
  MaxQueue,       \* the longest channel the runtime can make
  MaxHash         \* the longest password bcrypt takes: 72 bytes

\* Numbers are 0 when the variable is not set or is no number.  busy: the addresses that
\* cannot be opened (in use, malformed); pair: the certificate and the key can be loaded.
EnvironmentType ==
  [http : STRING, alias : STRING, https : STRING, cert : BOOLEAN, key : BOOLEAN,
   database : {"none", "url", "malformed"}, identity : {"none", "url", "malformed"},
   secret : BOOLEAN, upstream : {"none", "url", "other"},
   queue : Int, capture : Int, prompt : Int, days : Int, refresh : Int, ttl : Int,
   shutdown : Int, username : {"none", "good", "bad"}, password : Nat, newline : BOOLEAN,
   prefixes : Seq(STRING), busy : SUBSET STRING, pair : BOOLEAN]

ASSUME StartupAssumption ==
  /\ Environments \subseteq EnvironmentType
  /\ MaxQueue \in Nat /\ MaxHash \in Nat

VARIABLES
  env, cfg,     \* the environment, and the Config made of it
  step,         \* what main does next
  ready,        \* the schema was created at the start
  directory,    \* the directory of identities was read at the start
  served,       \* the servers that accept connections
  serverErrors  \* the servers whose listener failed

listeners == <<served, serverErrors>>
vars == <<env, cfg, step, ready, directory, listeners>>

Unset == ""

-----------------------------------------------------------------------------
(* LoadConfig *)

EnvString(value, fallback) == IF value = Unset THEN fallback ELSE value

\* envInt and envInt64: an unreadable number and 0 are the fallback
EnvInt(value, fallback) == IF value = 0 THEN fallback ELSE value

EnvDuration(value, fallback) == IF value <= 0 THEN fallback ELSE value

\* strings.Split at the commas, without the blank parts; not set is the default
SplitCSV(parts) ==
  SelectSeq(IF parts = <<Unset>> THEN <<"/v1", "/v1beta">> ELSE parts,
            LAMBDA part : part # Unset)

Config(e) ==
  [http     |-> EnvString(e.http, EnvString(e.alias, ":8090")),
   https    |-> e.https,
   cert     |-> e.cert, key |-> e.key,
   refresh  |-> EnvDuration(e.refresh, 30),
   queue    |-> EnvInt(e.queue, 2048),
   capture  |-> EnvInt(e.capture, 1048576),
   prompt   |-> EnvInt(e.prompt, 1048576),
   ttl      |-> EnvDuration(e.ttl, 43200),
   days     |-> EnvInt(e.days, 0),
   shutdown |-> EnvDuration(e.shutdown, 10),
   prefixes |-> SplitCSV(e.prefixes)]

\* The checks of LoadConfig; an environment that fails one ends the process.
Accepted(e, c) ==
  /\ e.database # "none"
  /\ c.queue >= 1
  /\ c.capture >= 1024 /\ c.prompt >= 256 /\ c.days >= 0
  /\ c.http # Unset \/ c.https # Unset
  /\ c.cert = c.key
  /\ c.https # Unset => c.cert /\ c.key
  /\ e.username # "bad"
  /\ e.password # 0 => e.password >= 12 /\ ~e.newline
  /\ e.identity # "none" => e.secret
  /\ e.upstream = "url"
  /\ c.prefixes # <<>>

-----------------------------------------------------------------------------
(* main *)

Init ==
  /\ env \in Environments /\ cfg = Config(env)
  /\ step = "load" /\ ready = FALSE /\ directory = FALSE
  /\ served = {} /\ serverErrors = {}

\* log.Fatalf, and a panic of main
Goto(from, ok, to) == step = from /\ step' = IF ok THEN to ELSE "ended"

LoadConfig ==
  /\ Goto("load", Accepted(env, cfg), "store")
  /\ UNCHANGED <<env, cfg, ready, directory, listeners>>

\* sql.Open contacts nobody; a malformed URL the driver may refuse there, or at the
\* first contact.
Opened(url) == IF url = "malformed" THEN BOOLEAN ELSE {TRUE}

\* A schema that cannot be created is logged.
OpenStore ==
  /\ \E ok \in Opened(env.database) : Goto("store", ok, "password")
  /\ ready' \in IF env.database = "url" THEN BOOLEAN ELSE {FALSE}
  /\ UNCHANGED <<env, cfg, directory, listeners>>

\* A password is generated (32 bytes) if none is given, and hashed.
HashAdminPassword ==
  /\ Goto("password", (IF env.password = 0 THEN 32 ELSE env.password) <= MaxHash, "resolver")
  /\ UNCHANGED <<env, cfg, ready, directory, listeners>>

\* Slip: a resolver that cannot read its directory is an error.
NewIdentityResolver_Strict ==
  /\ directory' \in IF env.identity = "url" THEN BOOLEAN ELSE {FALSE}
  /\ Goto("resolver", env.identity = "none" \/ directory', "queue")
  /\ UNCHANGED <<env, cfg, ready, listeners>>

\* A first Refresh that fails is logged.
NewIdentityResolver ==
  /\ \E ok \in Opened(env.identity) : Goto("resolver", ok, "queue")
  /\ directory' \in IF env.identity = "url" THEN BOOLEAN ELSE {FALSE}
  /\ UNCHANGED <<env, cfg, ready, listeners>>

\* resolver.Start and make(chan): a ticker of no length and a channel of a size that
\* cannot be made panic.
NewRecordQueue ==
  /\ Goto("queue", /\ env.identity # "none" => cfg.refresh > 0
                   /\ cfg.queue \in 0..MaxQueue, "listen")
  /\ UNCHANGED <<env, cfg, ready, directory, listeners>>

\* A server for each address: kind and address
Servers == {l \in {<<"http", cfg.http>>, <<"https", cfg.https>>} : l[2] # Unset}

\* NewProxyServer, which has its upstream, and a goroutine for each server
Listen ==
  /\ Goto("listen", env.upstream = "url", "serving")
  /\ UNCHANGED <<env, cfg, ready, directory, listeners>>

\* The address is free, also of the other server, and TLS has its key.
Opens(l) ==
  /\ l[2] \notin env.busy
  /\ \A m \in served : m[2] # l[2]
  /\ l[1] = "https" => env.pair

\* ListenAndServe or ListenAndServeTLS in the goroutine of a server
ListenAndServe(l) ==
  /\ step = "serving" /\ l \notin served \cup serverErrors
  /\ IF Opens(l)
     THEN served' = served \cup {l} /\ UNCHANGED serverErrors
     ELSE serverErrors' = serverErrors \cup {l} /\ UNCHANGED served
  /\ UNCHANGED <<env, cfg, step, ready, directory>>

\* case serveErr = <-serverErrors: every server is shut down and main returns.
ListenerStopped ==
  /\ step = "serving" /\ serverErrors # {}
  /\ step' = "ended" /\ served' = {}
  /\ UNCHANGED <<env, cfg, ready, directory, serverErrors>>

Next ==
  \/ LoadConfig \/ OpenStore \/ HashAdminPassword
  \/ NewIdentityResolver \/ NewRecordQueue \/ Listen
  \/ \E l \in Servers : ListenAndServe(l)
  \/ ListenerStopped

\* main and the goroutines of its servers are scheduled, and database calls have deadlines.
Spec == Init /\ [][Next]_vars /\ WF_vars(Next)

-----------------------------------------------------------------------------
(* Properties *)

\* What LoadConfig does not look at: malformed URLs, a password bcrypt refuses, a queue
\* that is too long; addresses that are not free or not different, and what is in the
\* files of the certificate and the key.
Startable ==
  /\ env.database # "malformed" /\ env.identity # "malformed"
  /\ env.password <= MaxHash /\ env.queue <= MaxQueue
  /\ cfg.http # cfg.https
  /\ \A l \in Servers : l[2] \notin env.busy
  /\ env.https # Unset => env.pair

\* Every address the operator gave accepts connections.
ServesEveryAddress ==
  /\ env.http # Unset => <<"http", env.http>> \in served
  /\ env.http = Unset /\ env.alias # Unset => <<"http", env.alias>> \in served
  /\ env.https # Unset => <<"https", env.https>> \in served
  /\ served # {}

\* A configuration that LoadConfig accepts comes up and listens on every address it was
\* given, with or without either database, if nothing is wrong with it that LoadConfig
\* does not look at (Startable); and whatever is wrong, the process does not stay up on a
\* part of its addresses: a listener that cannot be opened ends it.
AcceptedServes ==
  /\ step = "store" /\ Startable ~> [](step = "serving" /\ ServesEveryAddress)
  /\ step = "store" ~> [](step = "ended" \/ (step = "serving" /\ ServesEveryAddress))
=============================================================================
