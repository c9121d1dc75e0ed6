---------------------------- MODULE ReviewTable ----------------------------
(***************************************************************************)
(* The table of records as the admin API sees it (store.go, admin.go): the *)
(* page of web/admin.html on which a user walks through List, reviewers    *)
(* that call UpdateReview, the worker that inserts and the retention of    *)
(* main.go that deletes.  A record is the number that says when it was     *)
(* received, so the order of List is the order of numbers, downwards;      *)
(* records may be inserted later and in another order.  List and           *)
(* UpdateReview are two statements each, with anything in between.         *)
(***************************************************************************)
EXTENDS Integers, FiniteSets

CONSTANTS
  Records,       \* a set of numbers: the times of receipt
  Filters,       \* [status, from, to] of the walks
  RawLimits,     \* the limit parameter of requests; 0 stands for none or no number
  DefaultLimit, MaxLimit, StoreLimit,   \* 25, 200 and 50
  MaxOffset,     \* 1,000,000
  Reviewers, Walker, NoRecord,
  Casts,         \* bound: the clients at work in a behaviour, sets of Reviewers and Walker
  Verdicts,      \* the review statuses that reviewers send
  RetentionDays, \* values of cfg.AuditRetentionDays
  MaxTime, MaxWrites   \* bounds on the clock and on the reviews

Statuses == {"pending", "approved", "flagged", "ignored"}
AnyStatus == "any"     \* no review_status in the query

ASSUME LimitsAssumption ==
  /\ DefaultLimit \in 1..MaxLimit /\ MaxLimit \in Nat /\ StoreLimit \in 1..MaxLimit
  /\ MaxOffset \in Nat /\ RawLimits \subseteq Int

ASSUME RecordsAssumption ==
  /\ Records \subseteq Nat /\ IsFiniteSet(Records) /\ NoRecord \notin Records
  /\ Filters \subseteq [status : Statuses \cup {AnyStatus}, from : Nat, to : Nat]
  /\ Casts \subseteq SUBSET (Reviewers \cup {Walker}) /\ Walker \notin Reviewers
  /\ Verdicts \subseteq Statuses /\ RetentionDays \subseteq Nat
  /\ MaxTime \in Nat /\ MaxWrites \in Nat

VARIABLES
  dbUp, now, days,     \* the database, its clock, and cfg.AuditRetentionDays
  cast,
  rows, inserted,      \* the records in the table, and those ever inserted
  review, writes,      \* the review of each record, and the number of reviews written
  lpc, filter, limit, offset, total, seen,   \* the walk; offset is (page - 1) * limit
  steady,              \* records that match and were there all through the walk
  late,                \* matching records inserted since the last COUNT
  rpc, target, status, own, shown   \* per reviewer: the call, its own write, the answer

table == <<rows, inserted>>
walk == <<lpc, filter, limit, offset, total, seen, steady, late>>
reviewing == <<rpc, target, status, own, shown>>
reviewVars == <<cast, dbUp, now, days, table, review, writes, walk, reviewing>>

Unreviewed == [status |-> "pending", stamped |-> FALSE, write |-> 0]

ReviewInit ==
  /\ dbUp \in BOOLEAN /\ now = 0 /\ days \in RetentionDays /\ cast \in Casts
  /\ rows = {} /\ inserted = {}
  /\ review = [r \in Records |-> Unreviewed] /\ writes = 0
  /\ lpc = "idle" /\ filter = [status |-> AnyStatus, from |-> 0, to |-> 0]
  /\ limit = 1 /\ offset = 0 /\ total = 0 /\ seen = {} /\ steady = {} /\ late = {}
  /\ rpc = [v \in Reviewers |-> "idle"] /\ target = [v \in Reviewers |-> NoRecord]
  /\ status = [v \in Reviewers |-> "pending"] /\ own = [v \in Reviewers |-> 0]
  /\ shown = [v \in Reviewers |-> 0]

\* The conditions of the WHERE clause; those on the user, the request id and the text
\* pick a fixed set of records, as from and to do.
Matches(r, f) ==
  /\ r >= f.from /\ r < f.to
  /\ f.status # AnyStatus => review[r].status = f.status

DatabaseTurns ==
  dbUp' = ~dbUp /\ UNCHANGED <<cast, now, days, table, review, writes, walk, reviewing>>

Clock ==
  /\ now < MaxTime /\ now' = now + 1
  /\ UNCHANGED <<cast, dbUp, days, table, review, writes, walk, reviewing>>

\* Store.Insert, some time after the record was received
Insert(r) ==
  /\ r <= now /\ r \notin inserted
  /\ rows' = rows \cup {r} /\ inserted' = inserted \cup {r}
  /\ late' = IF lpc = "select" /\ Matches(r, filter) THEN late \cup {r} ELSE late
  /\ UNCHANGED <<cast, dbUp, now, days, review, writes, lpc, filter, limit, offset, total, seen,
                 steady, reviewing>>

-----------------------------------------------------------------------------
(* runRetention *)

\* received_at < NOW() - retentionDays
Expired(r) == days > 0 /\ r < now - days

\* Slip: the clean-up runs when the process starts and then no more.
Cleanup_AtStart ==
  /\ now = 0 /\ dbUp
  /\ rows' = {r \in rows : ~Expired(r)} /\ steady' = steady \cap rows'
  /\ UNCHANGED <<cast, dbUp, now, days, inserted, review, writes, lpc, filter, limit, offset,
                 total, seen, late, reviewing>>

\* DeleteExpired, at the start and every day; a failed one is left to the next day.
Cleanup ==
  /\ dbUp /\ rows' = {r \in rows : ~Expired(r)} /\ steady' = steady \cap rows'
  /\ UNCHANGED <<cast, dbUp, now, days, inserted, review, writes, lpc, filter, limit, offset,
                 total, seen, late, reviewing>>

-----------------------------------------------------------------------------
(* listRecords and List *)

\* parsePositiveInt and the cap of listRecords, then those of List
Limit(raw) ==
  LET n == IF raw <= 0 THEN DefaultLimit ELSE raw
      m == IF n > MaxLimit THEN MaxLimit ELSE n
  IN  IF m <= 0 \/ m > MaxLimit THEN StoreLimit ELSE m

Clamp(n) == IF n > MaxOffset THEN MaxOffset ELSE n

Matching == {r \in rows : Matches(r, filter)}

\* Where r stands in the order: how many matching records come before it.
Position(r) == Cardinality({x \in Matching : x > r})

\* Slip: the page starts one record late.
Page_OneLate(n) ==
  {r \in Matching : Position(r) > n /\ Position(r) <= n + limit}

\* ORDER BY received_at DESC LIMIT ... OFFSET n
Page(n) == {r \in Matching : Position(r) >= n /\ Position(r) < n + limit}

StartWalk(f, raw) ==
  /\ Walker \in cast /\ lpc = "idle" /\ lpc' = "count"
  /\ filter' = f /\ limit' = Limit(raw) /\ offset' = 0 /\ total' = 0 /\ seen' = {} /\ late' = {}
  /\ steady' = {r \in rows : Matches(r, f)}
  /\ UNCHANGED <<cast, dbUp, now, days, table, review, writes, reviewing>>

pageFrame == <<cast, dbUp, now, days, table, review, writes, filter, limit, steady, reviewing>>

\* SELECT COUNT(*)
ListCount ==
  /\ lpc = "count" /\ dbUp
  /\ lpc' = "select" /\ total' = Cardinality(Matching) /\ late' = {}
  /\ UNCHANGED <<pageFrame, offset, seen>>

\* The offset of the last page: Math.max(1, Math.ceil(total / pageSize()))
LastOffset == IF total = 0 THEN 0 ELSE (total - 1) - ((total - 1) % limit)

\* The page lies behind the last one: it is not shown, and the last one is loaded.
PageIsPast ==
  /\ offset > LastOffset
  /\ lpc' = "count" /\ offset' = LastOffset /\ late' = {}
  /\ UNCHANGED seen

\* The page is shown, and the user goes on while Next is enabled.
PageIsShown ==
  /\ offset <= LastOffset
  /\ seen' = seen \cup Page(Clamp(offset))
  /\ IF offset < LastOffset
     THEN lpc' = "count" /\ offset' = offset + limit /\ late' = {}
     ELSE lpc' = "done" /\ UNCHANGED <<offset, late>>

\* SELECT ... LIMIT OFFSET, and what loadRecords makes of the answer
ListPage ==
  /\ lpc = "select" /\ dbUp
  /\ PageIsPast \/ PageIsShown
  /\ UNCHANGED <<pageFrame, total>>

\* Either statement fails.  The page counts as turned though the one before it is still on
\* display, and no button asks for it again: the user goes back, by Previous or by Load.
ListFails ==
  /\ lpc \in {"count", "select"} /\ ~dbUp /\ lpc' = "count" /\ late' = {}
  /\ offset' = IF offset >= limit THEN offset - limit ELSE 0
  /\ UNCHANGED <<pageFrame, total, seen>>

-----------------------------------------------------------------------------
(* updateRecord and UpdateReview *)

Goto(v, step) == rpc' = [rpc EXCEPT ![v] = step]

\* uuid.Parse and the check of the status have passed.
Patch(v, r, s) ==
  /\ v \in cast /\ rpc[v] = "idle" /\ writes < MaxWrites /\ Goto(v, "update")
  /\ target' = [target EXCEPT ![v] = r] /\ status' = [status EXCEPT ![v] = s]
  /\ own' = [own EXCEPT ![v] = 0] /\ shown' = [shown EXCEPT ![v] = 0]
  /\ UNCHANGED <<cast, dbUp, now, days, table, review, writes, walk>>

\* Slip: a review that is set back to pending is not written.
Write_SkipsPending(v) ==
  /\ writes' = writes + 1 /\ own' = [own EXCEPT ![v] = writes + 1]
  /\ review' = IF target[v] \notin rows \/ status[v] = "pending" THEN review
               ELSE [review EXCEPT ![target[v]] =
                      [status |-> status[v], stamped |-> TRUE, write |-> writes + 1]]

\* reviewed_at is NULL for pending
Write(v) ==
  /\ writes' = writes + 1 /\ own' = [own EXCEPT ![v] = writes + 1]
  /\ review' = IF target[v] \notin rows THEN review
               ELSE [review EXCEPT ![target[v]] =
                      [status |-> status[v], stamped |-> status[v] # "pending",
                       write |-> writes + 1]]

\* UPDATE ... WHERE id = $5, which may match nothing
Update(v) ==
  /\ rpc[v] = "update"
  /\ \/ dbUp /\ Write(v) /\ Goto(v, "get")
     \/ ~dbUp /\ Goto(v, "idle") /\ (Write(v) \/ UNCHANGED <<writes, own, review>>)
  /\ UNCHANGED <<cast, dbUp, now, days, table, walk, target, status, shown>>

\* s.Get: the row as it is now, sql.ErrNoRows (404), or an error
Get(v) ==
  /\ rpc[v] = "get" /\ Goto(v, "idle")
  /\ shown' = IF dbUp /\ target[v] \in rows
                THEN [shown EXCEPT ![v] = review[target[v]].write] ELSE shown
  /\ UNCHANGED <<cast, dbUp, now, days, table, review, writes, walk, target, status, own>>

-----------------------------------------------------------------------------
ReviewNext ==
  \/ DatabaseTurns \/ Clock \/ Cleanup \/ ListCount \/ ListPage \/ ListFails
  \/ \E r \in Records : Insert(r)
  \/ \E f \in Filters, raw \in RawLimits : StartWalk(f, raw)
  \/ \E v \in Reviewers :
       Update(v) \/ Get(v) \/ \E r \in inserted, s \in Verdicts : Patch(v, r, s)

ReviewSafeSpec == ReviewInit /\ [][ReviewNext]_reviewVars

\* The ticker of runRetention ticks.
ReviewSpec == ReviewSafeSpec /\ WF_reviewVars(Cleanup)

-----------------------------------------------------------------------------
(* Properties *)

\* The records the walk should have shown and has not.
Missed == {r \in steady \ seen : Position(r) < MaxOffset + limit}

\* A user who walks the pages while records arrive late and old ones are deleted misses
\* no record that was there all along, up to the largest offset and as long as the filter
\* does not ask for a review status, but for this: the total is counted before the page is
\* selected, so records that arrive between the two statements of the last page can push
\* as many others behind the page the user takes for the last one.
WalkMissesOnlyForLate ==
  lpc = "done" /\ filter.status = AnyStatus =>
    Cardinality(Missed) <= Cardinality(late)

\* The answer to a review shows that review or, as the record is read again after it was
\* written, a later one of the same record by somebody else, but never an earlier one.
AnswerIsOwnOrLater == \A v \in Reviewers : shown[v] # 0 => shown[v] >= own[v]

\* With retention a record that is too old is deleted, also one that was inserted late
\* or that a failed clean-up left, once the database stays up.
ExpiredRecordsGo == <>[]dbUp => \A r \in Records : (r \in rows /\ Expired(r)) ~> r \notin rows
=============================================================================
