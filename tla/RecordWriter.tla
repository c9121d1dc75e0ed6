---------------------------- MODULE RecordWriter ----------------------------
(***************************************************************************)
(* The insert loop of persist (queue.go) on top of the schema gate: both   *)
(* run on one clock, because the pauses between the three attempts are     *)
(* shorter than the time for which the gate remembers a failure.  The      *)
(* other callers of the gate are admin requests, whose contexts end when   *)
(* their clients go away, and goroutines whose contexts have a deadline.   *)
(***************************************************************************)
EXTENDS StoreSchema

CONSTANTS
  Worker,      \* the caller that is the queue's worker
  Pause        \* 250 ms, in ticks

ASSUME WriterAssumption == Worker \in Callers \ Patient /\ Pause \in Nat

VARIABLES
  wpc, attempt, timer,   \* the worker in persist
  trouble      \* since the record was taken up some contact may have failed: the
               \* database was down, a context ended or a failure was remembered

writer == <<wpc, attempt, timer>>
writerVars == <<vars, writer, trouble>>

WriterInit ==
  /\ Init
  /\ wpc = "range" /\ attempt = 0 /\ timer = 0
  /\ trouble = FALSE

\* History after a step of the gate.
Watch == trouble' = (trouble \/ ~up' \/ ended' # {} \/ window' > 0)

Others == Callers \ {Worker}

\* Everything at the gate that is not a call of the worker's; the clock has its own step.
GateStep ==
  /\ \/ Database
     \/ \E c \in Others : Call(c)
     \/ \E c \in Callers : EndContext(c) \/ Lock(c) \/ (c \in Others /\ Inside(c))
  /\ Watch /\ UNCHANGED writer

WriterTick ==
  /\ window > 0 \/ timer > 0
  /\ IF window > 0 THEN Tick ELSE UNCHANGED vars
  /\ timer' = IF timer > 0 THEN timer - 1 ELSE 0
  /\ UNCHANGED <<wpc, attempt, trouble>>

\* A record is taken from the queue and passes the filters.
TakeRecord ==
  /\ wpc \in {"range", "stored", "failed"} /\ wpc' = "attempt" /\ attempt' = 0
  /\ trouble' = (~up \/ ended # {} \/ window > 0)
  /\ UNCHANGED <<vars, timer>>

\* store.Insert, which asks the gate first
InsertCall ==
  /\ wpc = "attempt" /\ Call(Worker) /\ wpc' = "gate"
  /\ Watch /\ UNCHANGED <<attempt, timer>>

\* The last attempt is logged as failed, the others are followed by a pause.
InsertError ==
  IF attempt = 2 THEN wpc' = "failed" /\ UNCHANGED <<attempt, timer>>
  ELSE wpc' = "pause" /\ attempt' = attempt + 1 /\ timer' = (attempt + 1) * Pause

\* A step of ensureSchema in the worker.
InsertGate ==
  /\ wpc = "gate" /\ Inside(Worker)
  /\ IF pc'[Worker] # "idle" THEN UNCHANGED writer
     ELSE IF result'[Worker] = "ok" THEN wpc' = "exec" /\ UNCHANGED <<attempt, timer>>
     ELSE InsertError
  /\ Watch

\* The INSERT itself, of a row the table accepts: it fails if the database is down or
\* too slow.
InsertExec ==
  /\ wpc = "exec"
  /\ \/ up /\ wpc' = "stored" /\ UNCHANGED <<attempt, timer, trouble>>
     \/ InsertError /\ trouble' = TRUE
  /\ UNCHANGED vars

InsertAgain ==
  /\ wpc = "pause" /\ timer = 0 /\ wpc' = "attempt"
  /\ UNCHANGED <<vars, attempt, timer, trouble>>

WriterNext ==
  GateStep \/ WriterTick \/ TakeRecord \/ InsertCall \/ InsertGate \/ InsertExec \/ InsertAgain

WriterSafeSpec == WriterInit /\ [][WriterNext]_writerVars

\* A caller at the gate that does not wait for a silent database.
Goes(c) == pc[c] = "held" \/ up \/ c \in ended

\* Goroutines at the gate are scheduled, and their database calls return when the database
\* answers or their context ends; deadlines pass; a sync.Mutex hands itself to a waiter it
\* has passed over; the clock runs; runAdminBootstrap calls again after a failure.  The
\* worker need not take up a record, and the client of an admin request need not go away.
GateFairness ==
  /\ \A c \in Callers : SF_writerVars(Lock(c) /\ Watch /\ UNCHANGED writer)
  /\ \A c \in Others : WF_writerVars(Goes(c) /\ Inside(c) /\ Watch /\ UNCHANGED writer)
  /\ WF_writerVars(Goes(Worker) /\ InsertGate)
  /\ \A c \in Callers \ Patient : WF_writerVars(EndContext(c) /\ Watch /\ UNCHANGED writer)
  /\ WF_writerVars(WriterTick)
  /\ WF_writerVars(result[Bootstrap] # "ok" /\ Call(Bootstrap) /\ Watch /\ UNCHANGED writer)

WriterSpec == WriterSafeSpec /\ GateFairness

-----------------------------------------------------------------------------
(* Properties *)

\* A record is given up only if something failed while it was being written, or a
\* failure was still remembered when it was taken up: a failure that has been
\* forgotten costs no record.
GivenUpOnlyInTrouble == wpc = "failed" => trouble
=============================================================================
