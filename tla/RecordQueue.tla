---------------------------- MODULE RecordQueue ----------------------------
(***************************************************************************)
(* The bounded audit queue of queue.go: any number of request goroutines   *)
(* (HTTP handlers, WebSocket pumps) call Enqueue, one goroutine calls      *)
(* Close, and one worker runs Run and persist.  The grain is the statement *)
(* that touches shared state: q.mu, q.closed, the channel q.items, the     *)
(* counter q.dropped, the worker's context and the table of records.       *)
(*                                                                         *)
(* q.mu is a function of the program counters: a producer between RLock    *)
(* and RUnlock holds it for reading, the closer between Lock and Unlock    *)
(* holds it for writing, and a closer waiting in Lock keeps new readers    *)
(* out, as sync.RWMutex does.                                              *)
(***************************************************************************)
EXTENDS Naturals, Sequences, FiniteSets

CONSTANTS
  Producers,   \* goroutines that call Enqueue
  Records,     \* the identities of the capture records
  NoRecord,    \* no record at hand
  QueueSize,   \* cfg.QueueSize, the capacity of the channel
  Inputs,      \* what persist may find in a record (a subset of RecordData)
  Configs      \* the configurations considered (a subset of Flags)

\* LoadConfig refuses a queue size that is not positive.
ASSUME QueueSizeAssumption == QueueSize \in Nat \ {0}

ASSUME RecordsAssumption == IsFiniteSet(Records) /\ NoRecord \notin Records

\* known: Identity.Resolved(); empty: MessageCount = 0.
RecordData == [known : BOOLEAN, empty : BOOLEAN]
Flags      == [AllowUnknownIdentity : BOOLEAN, CaptureEmptyPrompts : BOOLEAN]

ASSUME InputsAssumption == Inputs \subseteq RecordData /\ Configs \subseteq Flags

VARIABLES
  items,       \* the buffer of the channel q.items
  chanClosed,  \* close(q.items) has run
  closed,      \* q.closed
  dropped,     \* q.dropped
  ppc,         \* where each producer is in Enqueue
  arg,         \* the record each producer is enqueuing
  cpc,         \* where the closer is in Close
  wpc,         \* where the worker is in Run and persist
  cur,         \* the record the worker received last
  attempt,     \* the loop counter of persist
  cancelled,   \* the worker's context is cancelled
  cfg,         \* the two configuration flags persist reads
  rec,         \* what persist reads of each record
  fate,        \* history: how far each record has come
  rows         \* the number of rows of each record in prompt_audit_records

queueVars  == <<items, chanClosed, closed, dropped>>
workerVars == <<wpc, cur, attempt>>
vars == <<queueVars, ppc, arg, cpc, workerVars, cancelled, cfg, rec, fate, rows>>

\* The two loops of persist try three times.
LastAttempt == 2

EnqueueStates == {"idle", "rlock", "check", "send", "runlock"}
CloseStates   == {"idle", "lock", "mark", "close", "unlock", "done"}
WorkerStates  == {"recv", "start", "resolve", "resolveWait",
                  "insert", "insertWait", "exited"}

\* "written": Insert returned nil; "failed": its third error; "filtered": a
\* configuration flag excludes it; "abandoned": the context was cancelled.
Finished == {"written", "failed", "filtered", "abandoned"}
Fates    == {"new", "offered", "queued", "refused", "working"} \cup Finished

\* q.mu
ReadHeld(p)  == ppc[p] \in {"check", "send", "runlock"}
WritePending == cpc = "lock"
WriteHeld    == cpc \in {"mark", "close", "unlock"}

Init ==
  /\ items = <<>> /\ chanClosed = FALSE /\ closed = FALSE /\ dropped = 0
  /\ ppc = [p \in Producers |-> "idle"]
  /\ arg = [p \in Producers |-> NoRecord]
  /\ cpc = "idle"
  /\ wpc = "recv" /\ cur = NoRecord /\ attempt = 0
  /\ cancelled = FALSE
  /\ cfg \in Configs
  /\ rec = [r \in Records |-> [known |-> FALSE, empty |-> FALSE]]
  /\ fate = [r \in Records |-> "new"]
  /\ rows = [r \in Records |-> 0]

-----------------------------------------------------------------------------
(* Enqueue *)

\* A handler or a WebSocket pump built a record and calls Enqueue.
Offer(p, r) ==
  /\ ppc[p] = "idle" /\ fate[r] = "new"
  /\ \E data \in Inputs : rec' = [rec EXCEPT ![r] = data]
  /\ ppc' = [ppc EXCEPT ![p] = "rlock"]
  /\ arg' = [arg EXCEPT ![p] = r]
  /\ fate' = [fate EXCEPT ![r] = "offered"]
  /\ UNCHANGED <<queueVars, cpc, workerVars, cancelled, cfg, rows>>

\* q.mu.RLock(): a held or pending writer keeps it waiting.
RLock(p) ==
  /\ ppc[p] = "rlock" /\ ~WritePending /\ ~WriteHeld
  /\ ppc' = [ppc EXCEPT ![p] = "check"]
  /\ UNCHANGED <<queueVars, arg, cpc, workerVars, cancelled, cfg, rec, fate, rows>>

\* Slip: a refused record is not counted.
Refuse_Uncounted(p) ==
  /\ fate' = [fate EXCEPT ![arg[p]] = "refused"]
  /\ ppc' = [ppc EXCEPT ![p] = "runlock"]
  /\ UNCHANGED <<items, dropped>>

\* q.dropped.Add(1); return false
Refuse(p) ==
  /\ dropped' = dropped + 1
  /\ fate' = [fate EXCEPT ![arg[p]] = "refused"]
  /\ ppc' = [ppc EXCEPT ![p] = "runlock"]
  /\ UNCHANGED items

decideFrame == <<chanClosed, closed, arg, cpc, workerVars, cancelled, cfg, rec, rows>>

\* if q.closed
CheckClosed(p) ==
  /\ ppc[p] = "check"
  /\ IF closed
     THEN Refuse(p)
     ELSE ppc' = [ppc EXCEPT ![p] = "send"] /\ UNCHANGED <<items, dropped, fate>>
  /\ UNCHANGED decideFrame

\* Slip: the last place is never used.
HasRoom_OneTooFew == Len(items) + 1 < QueueSize

\* A send on the channel would not block.
HasRoom == Len(items) < QueueSize

\* case q.items <- record: return true
Accept(p) ==
  /\ items' = Append(items, arg[p])
  /\ fate' = [fate EXCEPT ![arg[p]] = "queued"]
  /\ ppc' = [ppc EXCEPT ![p] = "runlock"]
  /\ UNCHANGED dropped

\* Slip: a plain send, which waits for room.
Send_Blocking(p) ==
  /\ ppc[p] = "send" /\ HasRoom /\ Accept(p)
  /\ UNCHANGED decideFrame

\* The select with its default branch.
Send(p) ==
  /\ ppc[p] = "send"
  /\ IF HasRoom THEN Accept(p) ELSE Refuse(p)
  /\ UNCHANGED decideFrame

\* The deferred q.mu.RUnlock() and the return to the caller.
RUnlock(p) ==
  /\ ppc[p] = "runlock"
  /\ ppc' = [ppc EXCEPT ![p] = "idle"]
  /\ arg' = [arg EXCEPT ![p] = NoRecord]
  /\ UNCHANGED <<queueVars, cpc, workerVars, cancelled, cfg, rec, fate, rows>>

Enqueue(p) == RLock(p) \/ CheckClosed(p) \/ Send(p) \/ RUnlock(p)

-----------------------------------------------------------------------------
(* Close *)

CloseGoto(from, to) ==
  /\ cpc = from /\ cpc' = to
  /\ UNCHANGED <<items, dropped, ppc, arg, workerVars, cancelled, cfg, rec, fate, rows>>

\* q.mu.Lock() is called ...
CloseCall == CloseGoto("idle", "lock") /\ UNCHANGED <<closed, chanClosed>>

\* Slip: Close does not wait for the readers.
CloseLock_NoWait == CloseGoto("lock", "mark") /\ UNCHANGED <<closed, chanClosed>>

\* ... and returns when the last reader has left.
CloseLock ==
  /\ \A p \in Producers : ~ReadHeld(p)
  /\ CloseGoto("lock", "mark") /\ UNCHANGED <<closed, chanClosed>>

\* if !q.closed { q.closed = true ... (one goroutine calls Close, once)
CloseMark ==
  /\ ~closed /\ closed' = TRUE
  /\ CloseGoto("mark", "close") /\ UNCHANGED chanClosed

\* ... close(q.items) }
CloseChannel ==
  /\ chanClosed' = TRUE
  /\ CloseGoto("close", "unlock") /\ UNCHANGED closed

CloseUnlock == CloseGoto("unlock", "done") /\ UNCHANGED <<closed, chanClosed>>

Close == CloseLock \/ CloseMark \/ CloseChannel \/ CloseUnlock

\* stopWorker()
Cancel ==
  /\ ~cancelled /\ cancelled' = TRUE
  /\ UNCHANGED <<queueVars, ppc, arg, cpc, workerVars, cfg, rec, fate, rows>>

-----------------------------------------------------------------------------
(* Run and persist *)

producerSide == <<chanClosed, closed, dropped, ppc, arg, cpc, cancelled, cfg>>

\* The worker leaves the record at hand and goes to `to`.
Finish(outcome, to) ==
  /\ fate' = [fate EXCEPT ![cur] = outcome]
  /\ cur' = NoRecord /\ attempt' = 0 /\ wpc' = to

\* for record := range q.items
Receive ==
  /\ wpc = "recv" /\ items # <<>>
  /\ cur' = Head(items) /\ items' = Tail(items)
  /\ fate' = [fate EXCEPT ![Head(items)] = "working"]
  /\ wpc' = "start"
  /\ UNCHANGED <<producerSide, attempt, rec, rows>>

\* Slip: Run returns on a closed channel without draining it.
Drained_ClosedOnly == chanClosed

\* Where a range over the channel ends.
Drained == chanClosed /\ items = <<>>

RangeEnd ==
  /\ wpc = "recv" /\ Drained
  /\ wpc' = "exited"
  /\ UNCHANGED <<producerSide, items, cur, attempt, rec, fate, rows>>

\* Slip: a record whose identity is known passes without a look at its messages.
PassesFilters_KnownOnly(known) ==
  \/ known
  \/ cfg.AllowUnknownIdentity /\ (~rec[cur].empty \/ cfg.CaptureEmptyPrompts)

PassesFilters(known) ==
  /\ known \/ cfg.AllowUnknownIdentity
  /\ ~rec[cur].empty \/ cfg.CaptureEmptyPrompts

\* The two filters, then the first insert.
Admit(known) ==
  IF PassesFilters(known)
  THEN wpc' = "insert" /\ attempt' = 0 /\ UNCHANGED <<cur, fate>>
  ELSE Finish("filtered", "recv")

\* Run's look at ctx.Err(), and persist up to its first call.
Start ==
  /\ wpc = "start"
  /\ IF cancelled THEN Finish("abandoned", "exited")
     ELSE IF rec[cur].known THEN Admit(TRUE)
     ELSE wpc' = "resolve" /\ attempt' = 0 /\ UNCHANGED <<cur, fate>>
  /\ UNCHANGED <<producerSide, items, rec, rows>>

\* ResolveRequestID found a usage row; its user id may not be a positive number.
ResolveFound ==
  /\ wpc = "resolve" /\ ~cancelled
  /\ \E known \in BOOLEAN :
       /\ rec' = [rec EXCEPT ![cur].known = known]
       /\ Admit(known)
  /\ UNCHANGED <<producerSide, items, rows>>

MoreAttempts == attempt < LastAttempt

\* No usage row yet, an error, or 750 ms are over.
ResolveMissed ==
  /\ wpc = "resolve"
  /\ IF MoreAttempts
     THEN wpc' = "resolveWait" /\ UNCHANGED <<cur, attempt, fate>>
     ELSE Admit(FALSE)
  /\ UNCHANGED <<producerSide, items, rec, rows>>

\* Slip: the loop counter is not incremented.
NextAttempt_Stuck == attempt' = attempt

NextAttempt == attempt' = attempt + 1

\* The select between ctx.Done() and the timer: both may be ready.
Wait(from, to) ==
  /\ wpc = from
  /\ \/ cancelled /\ Finish("abandoned", "recv")
     \/ wpc' = to /\ NextAttempt /\ UNCHANGED <<cur, fate>>
  /\ UNCHANGED <<producerSide, items, rec, rows>>

ResolveWait == Wait("resolveWait", "resolve")
InsertWait  == Wait("insertWait", "insert")

\* err != nil: the third one is logged, an earlier one waits for a retry.
InsertError ==
  IF MoreAttempts
  THEN wpc' = "insertWait" /\ UNCHANGED <<cur, attempt, fate>>
  ELSE Finish("failed", "recv")

\* Slip: no primary key, every INSERT adds a row.
AddRow_NoKey == rows' = [rows EXCEPT ![cur] = @ + 1]

\* The INSERT adds a row; id is the primary key of the table.
AddRow ==
  /\ rows[cur] = 0
  /\ rows' = [rows EXCEPT ![cur] = @ + 1]

InsertStored ==
  /\ wpc = "insert" /\ ~cancelled
  /\ AddRow /\ Finish("written", "recv")
  /\ UNCHANGED <<producerSide, items, rec>>

\* The row is committed and the reply is lost (connection, 5 s timeout).
InsertReplyLost ==
  /\ wpc = "insert" /\ ~cancelled
  /\ AddRow /\ InsertError
  /\ UNCHANGED <<producerSide, items, rec>>

InsertFailed ==
  /\ wpc = "insert" /\ InsertError
  /\ UNCHANGED <<producerSide, items, rec, rows>>

Run == \/ Receive \/ RangeEnd \/ Start
       \/ ResolveFound \/ ResolveMissed \/ ResolveWait
       \/ InsertStored \/ InsertReplyLost \/ InsertFailed \/ InsertWait

-----------------------------------------------------------------------------
Next ==
  \/ \E p \in Producers : Enqueue(p) \/ \E r \in Records : Offer(p, r)
  \/ CloseCall \/ Close \/ Cancel
  \/ Run

\* A goroutine inside Enqueue or Close is scheduled again and again; nothing
\* is said of the worker or the database.
RequestFairness == WF_vars(Close) /\ \A p \in Producers : WF_vars(Enqueue(p))

\* The worker is scheduled, and its database calls return.  Each has a deadline, but not
\* the wait for the mutex of the schema gate: that it ends is CallReturns of StoreSchema,
\* with the proviso stated there.
WorkerFairness == WF_vars(Run)

SafeSpec == Init /\ [][Next]_vars
Spec     == SafeSpec /\ RequestFairness

-----------------------------------------------------------------------------
(* Properties *)

TypeOK ==
  /\ items \in Seq(Records)
  /\ chanClosed \in BOOLEAN /\ closed \in BOOLEAN /\ cancelled \in BOOLEAN
  /\ dropped \in Nat
  /\ ppc \in [Producers -> EnqueueStates]
  /\ arg \in [Producers -> Records \cup {NoRecord}]
  /\ cpc \in CloseStates
  /\ wpc \in WorkerStates
  /\ cur \in Records \cup {NoRecord}
  /\ attempt \in 0..LastAttempt
  /\ cfg \in Flags
  /\ rec \in [Records -> RecordData]
  /\ fate \in [Records -> Fates]
  /\ rows \in [Records -> Nat]

\* No Enqueue reaches its send on a closed channel (Go would panic), however
\* Close interleaves with it: the check of q.closed and the send are one
\* critical section of the read lock.
NoSendOnClosedChannel ==
  \A p \in Producers : ppc[p] = "send" => ~chanClosed

\* Dropped(), which /healthz reports, counts the records Enqueue refused, each
\* once, and no record that was accepted.
DroppedCountsRefusals ==
  dropped = Cardinality({r \in Records : fate[r] = "refused"})

\* The table holds a record only if the configuration flags allow it, with the
\* identity the record has after the retries of persist.
StoredOnlyIfAllowed ==
  \A r \in Records : rows[r] > 0 =>
    /\ rec[r].known \/ cfg.AllowUnknownIdentity
    /\ ~rec[r].empty \/ cfg.CaptureEmptyPrompts

\* Retrying an Insert whose reply was lost never stores a record twice, and a
\* record that was refused, filtered or not yet received has no row.
RowsMatchFate ==
  \A r \in Records :
    /\ rows[r] <= 1
    /\ fate[r] = "written" => rows[r] = 1
    /\ fate[r] \notin {"working", "written", "failed", "abandoned"} => rows[r] = 0

\* Run returns with records left behind only if its context was cancelled: after
\* a plain Close every accepted record has gone through persist.
DrainedUnlessCancelled ==
  wpc = "exited" /\ ~cancelled =>
    /\ closed
    /\ \A r \in Records : fate[r] \notin {"queued", "working", "abandoned"}

\* Enqueue and Close return, though neither the worker nor the database may ever move
\* again and other requests keep calling: the request path does not wait for the audit
\* database, and a waiting writer keeps new readers out.
CallsReturn ==
  /\ \A p \in Producers : ppc[p] = "rlock" ~> ppc[p] = "idle"
  /\ cpc = "lock" ~> cpc = "done"

\* Every accepted record meets an outcome unless the context is cancelled, and after
\* Close the worker ends, whatever the database answers, if the worker is scheduled:
\* with the records there are, a moment comes after which nothing is left undone.
WorkerGetsThrough ==
  WorkerFairness =>
    <>[](/\ cancelled \/ \A r \in Records : fate[r] \notin {"queued", "working"}
         /\ chanClosed => wpc = "exited")

-----------------------------------------------------------------------------
(* The promise *)

Decided == {r \in Records : fate[r] \notin {"new", "offered"}}
Stored  == {r \in Records : rows[r] > 0}

Promise == INSTANCE AuditLog WITH
  Capacity <- QueueSize, seen <- Decided, line <- items, current <- cur,
  stored <- Stored, dropped <- dropped, shut <- closed

\* The queue, its lock, its worker and the retries of persist implement the
\* abstract line of AuditLog: records are persisted in the order Enqueue accepted
\* them, one at a time and at most once, never after a refusal; QueueSize of them
\* can wait behind the one at the worker; Enqueue refuses a full or a closed queue and
\* no other.
ImplementsAuditLog == Promise!Spec
=============================================================================
