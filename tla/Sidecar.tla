------------------------------ MODULE Sidecar ------------------------------
(***************************************************************************)
(* The life of the process in main.go around the audit queue: one or two   *)
(* HTTP servers whose handlers and WebSocket connections enqueue records,  *)
(* a signal or a listener error, and the shutdown: every server in turn,   *)
(* then the queue, then the worker, all on one deadline, then the exit     *)
(* that ends every goroutine where it stands.                              *)
(***************************************************************************)
EXTENDS RecordQueue

CONSTANTS
  Sockets,     \* the producers that are WebSocket connections (hijacked)
  Servers,     \* how many servers main starts: HTTP, and HTTPS if configured
  ServerOf     \* the server, 1 .. Servers, each producer's request came in by

ASSUME SidecarAssumption ==
  /\ Sockets \subseteq Producers
  /\ Servers \in 1..2
  /\ ServerOf \in [Producers -> 1..Servers]

VARIABLES
  mpc,         \* where main is
  turn,        \* the server main shuts down next
  listening,   \* the servers that accept requests
  active,      \* the producers with a request or a connection open
  expired,     \* the deadline of shutdownCtx has passed
  forced       \* a Shutdown gave up on an open request

mainVars    == <<mpc, turn, listening, active, expired, forced>>
sidecarVars == <<vars, mainVars>>

SidecarInit ==
  /\ Init
  /\ mpc = "serving" /\ turn = 1
  /\ listening = 1..Servers /\ active = {}
  /\ expired = FALSE /\ forced = FALSE

-----------------------------------------------------------------------------
(* Requests *)

\* A server starts ServeHTTP for a request.
Arrive(p) ==
  /\ ServerOf[p] \in listening /\ p \notin active
  /\ active' = active \cup {p}
  /\ UNCHANGED <<vars, mpc, turn, listening, expired, forced>>

\* captureHTTP or copyClientFrames hands a record to the queue.
Capture(p) ==
  /\ p \in active
  /\ \E r \in Records : Offer(p, r)
  /\ UNCHANGED mainVars

\* The response is complete, or the connection closed.
Complete(p) ==
  /\ p \in active /\ ppc[p] = "idle"
  /\ active' = active \ {p}
  /\ UNCHANGED <<vars, mpc, turn, listening, expired, forced>>

-----------------------------------------------------------------------------
(* main *)

MainGoto(from, to) == mpc = from /\ mpc' = to

\* rootCtx is done: SIGINT or SIGTERM.
Signal ==
  /\ MainGoto("serving", "shutdown")
  /\ UNCHANGED <<vars, turn, listening, active, expired, forced>>

\* A listener fails; the other one goes on listening until its Shutdown.
ListenerError(s) ==
  /\ MainGoto("serving", "shutdown")
  /\ listening' = listening \ {s}
  /\ UNCHANGED <<vars, turn, active, expired, forced>>

\* The timer of shutdownCtx, which every wait below shares.
Expire ==
  /\ mpc # "serving" /\ ~expired /\ expired' = TRUE
  /\ UNCHANGED <<vars, mpc, turn, listening, active, forced>>

\* server.Shutdown closes the listener of one server ...
ShutdownListener ==
  /\ MainGoto("shutdown", "drain")
  /\ listening' = listening \ {turn}
  /\ UNCHANGED <<vars, turn, active, expired, forced>>

\* Slip: Shutdown is called on the first server only.
Waited_FirstServer(s) == {p \in active \ Sockets : ServerOf[p] = s /\ s = 1}

\* The requests Shutdown waits for: it does not know of hijacked connections.
Waited(s) == {p \in active \ Sockets : ServerOf[p] = s}

LastServer == turn = Servers

\* ... and returns when its requests are complete, or at the deadline.
ShutdownReturns ==
  /\ Waited(turn) = {} \/ expired
  /\ forced' = (forced \/ Waited(turn) # {})
  /\ turn' = turn + 1
  /\ MainGoto("drain", IF LastServer THEN "close" ELSE "shutdown")
  /\ UNCHANGED <<vars, listening, active, expired>>

\* queue.Close()
MainClose ==
  /\ mpc = "close" /\ (CloseCall \/ Close)
  /\ mpc' = IF cpc' = "done" THEN "wait" ELSE "close"
  /\ UNCHANGED <<turn, listening, active, expired, forced>>

\* Slip: main does not wait for the worker.
WorkerOver_NoWait == TRUE

\* Slip: main waits for workerDone alone.
WorkerOver_NoDeadline == wpc = "exited"

\* select { case <-workerDone: case <-shutdownCtx.Done(): }
WorkerOver == wpc = "exited" \/ expired

WaitWorker ==
  /\ WorkerOver /\ MainGoto("wait", "stop")
  /\ UNCHANGED <<vars, turn, listening, active, expired, forced>>

\* stopWorker(); main does not wait for the worker again.
StopWorker ==
  /\ MainGoto("stop", "return") /\ Cancel
  /\ UNCHANGED <<turn, listening, active, expired, forced>>

\* The deferred Close calls, and the end of the process.
Return ==
  /\ MainGoto("return", "exited")
  /\ UNCHANGED <<vars, turn, listening, active, expired, forced>>

Main == \/ ShutdownListener \/ ShutdownReturns \/ MainClose
        \/ WaitWorker \/ StopWorker \/ Return

-----------------------------------------------------------------------------
SidecarNext ==
  /\ mpc # "exited"
  /\ \/ \E p \in Producers : \/ Arrive(p) \/ Capture(p) \/ Complete(p)
                             \/ Enqueue(p) /\ UNCHANGED mainVars
     \/ Run /\ UNCHANGED mainVars
     \/ Signal \/ Expire \/ Main
     \/ \E s \in listening : ListenerError(s)

\* main and the goroutines inside Enqueue are scheduled, and the timer fires;
\* requests may stay open and the worker may stand still for ever.
SidecarSpec ==
  /\ SidecarInit /\ [][SidecarNext]_sidecarVars
  /\ WF_sidecarVars(Main) /\ WF_sidecarVars(Expire)
  /\ \A p \in Producers : WF_sidecarVars(Enqueue(p) /\ UNCHANGED mainVars)

-----------------------------------------------------------------------------
(* Properties *)

\* The queue is closed behind the last HTTP request: unless the deadline made a
\* Shutdown give up, no open HTTP request can meet a closed queue and lose its
\* record.  (WebSocket connections can: Shutdown does not wait for them.)
QueueOutlivesRequests == closed /\ ~forced => active \subseteq Sockets

\* A shutdown within the deadline loses no accepted record: when main returns, the
\* worker has ended and persist has seen every record Enqueue accepted.
ExitLosesNothingInTime ==
  mpc \in {"return", "exited"} /\ ~expired =>
    /\ wpc = "exited"
    /\ \A r \in Records : fate[r] \notin {"queued", "working", "abandoned"}

\* The process ends after a signal or a listener error, though requests stay open,
\* WebSocket pumps keep enqueuing, and the worker hangs in the database.
ProcessExits == mpc = "shutdown" ~> mpc = "exited"
=============================================================================
