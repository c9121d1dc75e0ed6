---------------------------- MODULE StoreSchema ----------------------------
(***************************************************************************)
(* ensureSchema of store.go, which every Store method calls first: the     *)
(* audit tables are created by whichever caller finds the database, under  *)
(* one mutex held across the database calls, and a failure is remembered   *)
(* for five seconds.  The database comes and goes, or keeps a caller       *)
(* waiting; a caller's context may end at any moment, also while the       *)
(* caller waits for the mutex, which does not look at it.                  *)
(***************************************************************************)
EXTENDS Integers

CONSTANTS
  Callers,     \* goroutines that call Store methods
  Bootstrap,   \* the one of runAdminBootstrap, which calls again until it succeeds
  Patient,     \* those with the context of an admin request, which has no deadline
  NoCaller,    \* nobody holds schemaMu
  Backoff      \* the five seconds, in ticks

ASSUME SchemaAssumption ==
  /\ Bootstrap \in Callers /\ NoCaller \notin Callers /\ Backoff \in Nat \ {0}
  /\ Patient \subseteq Callers \ {Bootstrap}

VARIABLES
  up,          \* the database answers; if not, it refuses calls or leaves them waiting
  tables,      \* the tables exist
  ready,       \* schemaReady
  failed,      \* lastSchemaErr # nil
  window,      \* ticks until nextSchemaTry, 0 once it has passed
  mu,          \* the caller that holds schemaMu
  pc,          \* where each caller is in ensureSchema
  result,      \* what each caller's last call returned
  ended        \* the callers whose context is done

gate == <<ready, failed, window>>
vars == <<up, tables, gate, mu, pc, result, ended>>

Init ==
  /\ up \in BOOLEAN /\ tables \in BOOLEAN
  /\ ready = FALSE /\ failed = FALSE /\ window = 0
  /\ mu = NoCaller
  /\ pc = [c \in Callers |-> "idle"]
  /\ result = [c \in Callers |-> "none"]
  /\ ended = {}

-----------------------------------------------------------------------------
(* The database, the clock and the contexts *)

Database ==
  /\ up' = ~up
  /\ UNCHANGED <<tables, gate, mu, pc, result, ended>>

Tick ==
  /\ window > 0 /\ window' = window - 1
  /\ UNCHANGED <<up, tables, ready, failed, mu, pc, result, ended>>

\* A deadline passes or a client goes away.
EndContext(c) ==
  /\ pc[c] # "idle" /\ c \notin ended
  /\ ended' = ended \cup {c}
  /\ UNCHANGED <<up, tables, gate, mu, pc, result>>

-----------------------------------------------------------------------------
(* ensureSchema *)

\* A Store method is called with a live context.
Call(c) ==
  /\ pc[c] = "idle" /\ pc' = [pc EXCEPT ![c] = "lock"]
  /\ UNCHANGED <<up, tables, gate, mu, result, ended>>

\* Slip: the mutex is not taken.
Lock_Unguarded(c) ==
  /\ pc[c] = "lock"
  /\ mu' = c /\ pc' = [pc EXCEPT ![c] = "held"]
  /\ UNCHANGED <<up, tables, gate, result, ended>>

\* s.schemaMu.Lock()
Lock(c) ==
  /\ pc[c] = "lock" /\ mu = NoCaller
  /\ mu' = c /\ pc' = [pc EXCEPT ![c] = "held"]
  /\ UNCHANGED <<up, tables, gate, result, ended>>

\* Slip: an error return leaves the mutex locked.
Return_Locked(c, outcome) ==
  /\ mu' = IF outcome = "ok" THEN NoCaller ELSE mu
  /\ pc' = [pc EXCEPT ![c] = "idle"]
  /\ result' = [result EXCEPT ![c] = outcome]
  /\ ended' = ended \ {c}

\* The return, with the deferred Unlock.
Return(c, outcome) ==
  /\ mu' = NoCaller
  /\ pc' = [pc EXCEPT ![c] = "idle"]
  /\ result' = [result EXCEPT ![c] = outcome]
  /\ ended' = ended \ {c}

\* Slip: a failure is remembered until the next success.
Remembered_ForEver == failed

\* lastSchemaErr, until nextSchemaTry
Remembered == failed /\ window > 0

\* Slip: a remembered error is remembered for another five seconds.
ReturnRemembered_Renewed(c) ==
  /\ pc[c] = "held" /\ ~ready /\ Remembered
  /\ Return(c, "err") /\ window' = Backoff
  /\ UNCHANGED <<up, tables, ready, failed>>

\* return s.lastSchemaErr
ReturnRemembered(c) ==
  /\ pc[c] = "held" /\ ~ready /\ Remembered
  /\ Return(c, "err")
  /\ UNCHANGED <<up, tables, gate>>

ReturnReady(c) ==
  /\ pc[c] = "held" /\ ready
  /\ Return(c, "ok")
  /\ UNCHANGED <<up, tables, gate>>

\* Neither: the caller goes to the database.
Contact(c) ==
  /\ pc[c] = "held" /\ ~ready /\ ~Remembered
  /\ pc' = [pc EXCEPT ![c] = "ping"]
  /\ UNCHANGED <<up, tables, gate, mu, result, ended>>

Answers(c) == up /\ c \notin ended

\* An error from the database or from the caller's own context.
Fail(c) ==
  /\ failed' = TRUE /\ window' = Backoff
  /\ Return(c, "err")
  /\ UNCHANGED <<up, ready>>

\* s.db.PingContext(ctx)
Ping(c) ==
  /\ pc[c] = "ping"
  /\ \/ /\ Answers(c)
        /\ pc' = [pc EXCEPT ![c] = "exec"]
        /\ UNCHANGED <<up, tables, gate, mu, result, ended>>
     \/ ~Answers(c) /\ Fail(c) /\ UNCHANGED tables

\* Slip: a failed CREATE is taken for success.
Exec_ErrorIgnored(c) ==
  /\ pc[c] = "exec"
  /\ tables' = (tables \/ Answers(c))
  /\ ready' = TRUE /\ failed' = FALSE /\ window' = 0
  /\ Return(c, "ok") /\ UNCHANGED up

\* s.db.ExecContext(ctx, schema): a failure may come after the tables were created.
Exec(c) ==
  /\ pc[c] = "exec"
  /\ \/ /\ Answers(c) /\ tables' = TRUE
        /\ ready' = TRUE /\ failed' = FALSE /\ window' = 0
        /\ Return(c, "ok") /\ UNCHANGED up
     \/ ~Answers(c) /\ Fail(c) /\ tables' \in {tables, TRUE}

Inside(c) == ReturnReady(c) \/ ReturnRemembered(c) \/ Contact(c) \/ Ping(c) \/ Exec(c)

-----------------------------------------------------------------------------
Next ==
  \/ Database \/ Tick
  \/ \E c \in Callers : EndContext(c) \/ Call(c) \/ Lock(c) \/ Inside(c)

SafeSpec == Init /\ [][Next]_vars

-----------------------------------------------------------------------------
(* Properties *)

TypeOK ==
  /\ up \in BOOLEAN /\ tables \in BOOLEAN
  /\ ready \in BOOLEAN /\ failed \in BOOLEAN /\ window \in 0..Backoff
  /\ mu \in Callers \cup {NoCaller}
  /\ pc \in [Callers -> {"idle", "lock", "held", "ping", "exec"}]
  /\ result \in [Callers -> {"none", "ok", "err"}]
  /\ ended \subseteq Callers

\* A Store method goes on to its query only if the tables exist, whoever created
\* them and however many callers failed half-way before.
SuccessMeansTables ==
  /\ ready => tables /\ ~failed
  /\ \A c \in Callers : result[c] = "ok" => tables

\* While a failure is remembered nobody is talking to the database: callers of a
\* database that is down cost it one attempt in five seconds.
NoAttemptDuringBackoff ==
  window > 0 => \A c \in Callers : pc[c] \notin {"ping", "exec"}

\* Every call returns, though the database may never answer again and other callers fail
\* while holding the mutex, provided that no client of an admin request waits for ever.
\* The proviso is about everybody: such a request has no deadline of its own, keeps the
\* mutex while the database is silent, and the wait for the mutex outlives the deadline
\* of the worker, the health check and the bootstrap.
CallReturns ==
  (\A c \in Patient : []<>(pc[c] = "idle" \/ c \in ended)) =>
    \A c \in Callers : pc[c] = "lock" ~> pc[c] = "idle"

\* Once the database stays up and contexts last, the tables are created and the
\* bootstrap succeeds without a restart, whatever failures are remembered.
Recovers == <>[](up /\ ended = {}) => <>(ready /\ result[Bootstrap] = "ok")
=============================================================================
