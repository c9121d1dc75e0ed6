--------------------------- MODULE AdminBootstrap ---------------------------
(***************************************************************************)
(* runAdminBootstrap and EnsureAdminHash: each process that starts on an   *)
(* audit database tries to create the administrator with a password of its *)
(* own, until the database answers, and prints the password if it was the  *)
(* one that created it.  Processes overlap, stop at any moment and lose    *)
(* replies; an operator who lost the password stops them all and deletes   *)
(* the row.                                                                *)
(***************************************************************************)
EXTENDS Naturals

CONSTANTS
  Runs,        \* the processes that are ever started
  NoAdmin,     \* the table has no row for the configured username
  MaxResets    \* bound: how often the operator deletes the row

ASSUME BootstrapAssumption == NoAdmin \notin Runs /\ MaxResets \in Nat

VARIABLES
  reachable,   \* the database answers in time
  admin,       \* the run whose password hash the row holds
  stage,       \* off, try, wait, log, done (the process serves), stopped
  resets,      \* how often the row was deleted
  logged       \* the credentials lines printed, with the resets before each

bootstrapVars == <<reachable, admin, stage, resets, logged>>

BootstrapInit ==
  /\ reachable \in BOOLEAN /\ admin = NoAdmin
  /\ stage = [r \in Runs |-> "off"]
  /\ resets = 0 /\ logged = {}

Move(r, from, to) == stage[r] = from /\ stage' = [stage EXCEPT ![r] = to]

Alive(r) == stage[r] \notin {"off", "stopped"}

-----------------------------------------------------------------------------
(* The database, the operator *)

\* The database stops answering in time, or answers again.
Outage ==
  /\ reachable' = ~reachable /\ UNCHANGED <<admin, stage, resets, logged>>

\* README: stop the sidecar, then delete the sessions and the administrator.
Reset ==
  /\ resets < MaxResets /\ \A r \in Runs : ~Alive(r)
  /\ admin' = NoAdmin /\ resets' = resets + 1
  /\ UNCHANGED <<reachable, stage, logged>>

-----------------------------------------------------------------------------
(* main and runAdminBootstrap *)

\* The password is chosen and hashed, and the goroutine started.
Start(r) ==
  /\ Move(r, "off", "try") /\ UNCHANGED <<reachable, admin, resets, logged>>

\* Slip: ON CONFLICT DO UPDATE.
Inserted_Always(r) == r

\* INSERT ... ON CONFLICT DO NOTHING
Inserted(r) == IF admin = NoAdmin THEN r ELSE admin

\* Slip: an INSERT that returned no row counts as created.
Created_Always == TRUE

\* RETURNING gave the username
Created == admin = NoAdmin

\* EnsureAdminHash answers.
Ensure(r) ==
  /\ reachable /\ Move(r, "try", IF Created THEN "log" ELSE "done")
  /\ admin' = Inserted(r)
  /\ UNCHANGED <<reachable, resets, logged>>

AfterError == "wait"

\* It fails, in ensureSchema, before the INSERT or after it committed.
Error(r) ==
  /\ ~reachable /\ Move(r, "try", AfterError)
  /\ admin' \in {admin, Inserted(r)}
  /\ UNCHANGED <<reachable, resets, logged>>

\* Slip: the loop waits for ctx.Done() alone.
Retry_Never(r) == FALSE /\ UNCHANGED bootstrapVars

\* time.After(10 * time.Second)
Retry(r) ==
  /\ Move(r, "wait", "try") /\ UNCHANGED <<reachable, admin, resets, logged>>

\* log.Printf("PROMPT_AUDIT_ADMIN_INITIAL_CREDENTIALS ...")
Log(r) ==
  /\ Move(r, "log", "done")
  /\ logged' = logged \cup {[run |-> r, resets |-> resets]}
  /\ UNCHANGED <<reachable, admin, resets>>

\* The process is stopped or crashes; an INSERT on its way may still commit.
Stop(r) ==
  /\ Alive(r) /\ Move(r, stage[r], "stopped")
  /\ admin' \in {admin} \cup (IF stage[r] = "try" THEN {Inserted(r)} ELSE {})
  /\ UNCHANGED <<reachable, resets, logged>>

Bootstrap(r) == Ensure(r) \/ Error(r) \/ Retry(r) \/ Log(r)

BootstrapNext == Outage \/ Reset \/ \E r \in Runs : Start(r) \/ Bootstrap(r) \/ Stop(r)

BootstrapSpec == BootstrapInit /\ [][BootstrapNext]_bootstrapVars

\* A running process is scheduled, its timer fires and its statement ends.
FairBootstrapSpec == BootstrapSpec /\ \A r \in Runs : WF_bootstrapVars(Bootstrap(r))

-----------------------------------------------------------------------------
(* Properties *)

TypeOK ==
  /\ reachable \in BOOLEAN /\ admin \in Runs \cup {NoAdmin}
  /\ stage \in [Runs -> {"off", "try", "wait", "log", "done", "stopped"}]
  /\ resets \in 0..MaxResets
  /\ logged \subseteq [run : Runs, resets : 0..MaxResets]

\* The password of an existing administrator is never replaced, by a restart or by a
\* second process: only the operator's deletion takes it away.
NeverReplaced == [][admin # NoAdmin /\ resets' = resets => admin' = admin]_bootstrapVars

\* A printed password is the administrator's until the operator deletes the row: no
\* process that lost the race, or came later, prints credentials that do not work.
PrintedCredentialsWork ==
  \A line \in logged : line.resets = resets => admin = line.run

\* A process whose bootstrap ended has an administrator to log in with.
DoneMeansAdmin == \A r \in Runs : stage[r] \in {"log", "done"} => admin # NoAdmin

\* Once the database stays up, the bootstrap of a process that keeps running ends.
BootstrapEnds ==
  \A r \in Runs : <>[]reachable => (stage[r] = "try" ~> stage[r] \in {"done", "stopped"})

\* The credentials are printed by the process that created the administrator: one
\* whose bootstrap ended and whose password the row holds has printed it.
CredentialsPrinted ==
  \A r \in Runs :
    stage[r] = "done" /\ admin = r => [run |-> r, resets |-> resets] \in logged
=============================================================================
