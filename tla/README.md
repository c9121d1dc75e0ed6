# TLA+ models of the prompt-audit sidecar

The sidecar is a reverse proxy in front of sub2api. It forwards every request
unchanged, keeps an audit copy of what the user wrote, and lets an administrator
review the copies. This directory holds models of its parts in TLA+, the TLC
configurations that check them on small instances, and proofs checked by TLAPS.
`PROJECT.json` lists the runs, the theorems, the source lines behind each
definition, and the hazards the properties are aimed at.

## 1. The system

| Part | State | Operations | What makes it hard |
| --- | --- | --- | --- |
| Audit queue, `queue.go` | bounded channel, `closed`, `dropped`, RWMutex | `Enqueue`, `Close`, `Run`, `persist` | handlers, WebSocket pumps, `main` and the worker interleave; two retry loops; a lost reply of an INSERT; cancellation |
| Process, `main.go` | servers, `rootCtx`, `shutdownCtx`, worker | signal, listener error, `Shutdown` per server, `Close`, wait, `stopWorker` | one deadline for all; hijacked connections are not waited for; the exit cuts goroutines off |
| Schema gate, `store.go` | `schemaReady`, `lastSchemaErr`, `nextSchemaTry`, mutex | `ensureSchema`, called first by every method | mutex held across database calls; one caller's ended context becomes everybody's error |
| Record table, `store.go` | rows | `Insert`, `List`, `Get`, `UpdateReview`, `DeleteExpired` | pages over a changing table; write and read back in two statements |
| Administrator, `auth.go`, `main.go` | admin row, log | `EnsureAdminHash`, `runAdminBootstrap` | processes race on one database; crash or lost reply between INSERT and log line |
| Sessions, `auth.go`, `admin.go` | session rows, cookies | login, validate, logout, clean-up | two clocks; retries with fresh tokens; ignored errors |
| Identity, `identity.go` | directory of key fingerprints | `Refresh`, `Lookup`, `ResolveRequestID` | a stale directory; a request id that is not unique; a request not yet logged |
| HTTP proxy, `proxy.go` | the request body | `readBodyForCapture`, `captureHTTP`, forward | limit boundaries; a body that fails half-way |
| WebSocket proxy, `websocket.go` | two connections, error channel | two pumps, `closeBoth` | either end may close at any moment |
| Extractor, `extractor.go` | none | `ExtractRequest`, `ExtractWebSocketMessage` | five protocols, nested content, many spellings |
| Prompt text, `model.go` | none | `finalize`, `truncateUTF8` | multi-byte characters and invalid bytes at the limit |
| Configuration, `config.go` | none | `LoadConfig` | empty and zero values; what it does not look at |
| Admin pages, `web/` | the page on display | list, next, detail, review | a total counted before the rows are read; a page that fails to load |

A handler or a pump extracts the user's text, looks the API key up in the
identity directory and calls `Enqueue`; the worker resolves missing identities,
filters, and inserts through the schema gate. `main` starts all of it and takes
it down. The admin API reads and reviews the rows and needs sessions, which need
the administrator, which the bootstrap goroutine creates through the same gate.

## 2. Modules

| Module | Models | Checked by |
| --- | --- | --- |
| `RecordQueue` | `queue.go` | `queue`; proofs in `SidecarProofs` |
| `AuditLog` | the promise of the queue, abstractly | as the property `ImplementsAuditLog` of `queue`; the refinement is proved in `SidecarProofs` |
| `Sidecar` | `main.go` around `RecordQueue` | `sidecar_shutdown`; proofs in `SidecarProofs` |
| `Startup` | `LoadConfig` and the start of `main` up to its listeners | `startup` |
| `BodyCapture` | `shouldCapture`, `readBodyForCapture`, the forwarding of the body | `request_path`; proofs in `ProxyProofs` |
| `IdentityResolver` | `identity.go`, and the lookup loop of `persist` | `identity`; proofs in `IdentityResolverProofs` |
| `StoreSchema` | `ensureSchema` | `record_writer`; proofs in `StoreProofs` |
| `RecordWriter` | the insert loop of `persist` behind `StoreSchema` | `record_writer`; proofs in `StoreProofs` |
| `ReviewTable` | `Insert`, `List`, `Get`, `UpdateReview`, `DeleteExpired` and their callers, the pager of `web/admin.html` included | `review`; proofs in `StoreProofs` |
| `AdminSession` | `handleAdmin`, login, logout, session rows and their clean-up | `admin_session`; proofs in `AdminProofs` |
| `AdminBootstrap` | `runAdminBootstrap`, `EnsureAdminHash` | `admin_bootstrap`, `admin_bootstrap_printed`; proofs in `AdminProofs` |
| `Extractor` | `extractor.go`, and the decision of `captureHTTP` and `copyClientFrames` to enqueue | `request_path`, `extractor_users_words`; proofs in `ExtractorProofs` (places and speakers) and `UserTextProofs` (completeness, order, counts) |
| `WebSocketPumps` | one session of `websocket.go` | `websocket_pumps`; proofs in `ProxyProofs` |
| `Prompt` | `finalize`, `truncateUTF8` | `request_path`; proofs in `ProxyProofs` |
| `RequestPath` | `ProxyServer.ServeHTTP`: composes `BodyCapture`, `Extractor` and `Prompt` | `request_path`, `extractor_users_words`; proofs in `RequestPathProofs` |

The `MC...` modules give the constants of the runs. A definition named
`X_Something` with a comment `Slip:` is a faulty variant of `X`; with it in place
of `X` the property it is paired with in `PROJECT.json` must fail.

### How state and actions correspond to the code

- **`RecordQueue`**: `items` and `chanClosed` are the channel, `closed` and `dropped`
  the fields of the queue. The RWMutex has no variable: who holds it follows from
  where the producers (`ppc`) and the closer (`cpc`) are. One action per statement of
  `Enqueue` and `Close`; `Run` and `persist` are `Receive`, `Start`, the lookup and
  its wait, the insert and its wait. `fate` and `rows` follow each record to its end.
  A lookup may find nothing, an insert may fail before or after it commits.
- **`AuditLog`** is a line of at most `Capacity` records and the one the worker has taken
  from it: `Accept` when there is room, `Refuse` when there is none or the log is shut,
  `Take`, `Store`, `Leave`, `Shut`. `Promise` maps the line to the channel.
- **`Sidecar`** extends `RecordQueue`: requests arrive, capture and complete; `main`
  goes from `Signal` or `ListenerError` through one `Shutdown` per server,
  `MainClose`, `WaitWorker` and `StopWorker` to the exit. `Expire` is the one timer.
- **`StoreSchema`**: `ready`, `failed`, `window` are `schemaReady`, `lastSchemaErr`
  and the time to `nextSchemaTry`; each caller takes the mutex, decides, pings,
  executes the schema and returns. A database that is not up refuses a call or leaves it
  waiting. `Patient` are the callers whose context has no deadline, the admin requests.
- **`AdminBootstrap`**: a run is one start of the process with its own password; the
  row holds the run whose password it is. `Error` and `Stop` cover an INSERT that
  commits though the reply is lost.
- **`Extractor`**: JSON values are trees (`Str`, `Arr`, `Obj`, `Scalar`, `Null`); `JSON` is
  any set of them that holds their parts too. Each extraction function is an operator
  of the same name, which gives the calls the function makes on the parts of its value,
  each with its source. `Begin` is the dispatch up to the outermost loop, with the
  counts of the instruction fields; `Iterate` comes to the next element of that loop
  (`next`); `Descend` makes the first of the calls that wait (`todo`, the call stack of
  the code); `Return` is the status and the decision to enqueue. A call of
  `addUserMessage` or `incrementExcluded` is part of the step that makes it.
- **`WebSocketPumps`**: the handler dials, upgrades, waits for the first error and
  closes; each pump reads, records (the client's) and writes. `conn` is our end of each
  connection, `gone` the peers that left. A connection holds `Window` unread frames;
  beyond that a write waits, without a deadline, as in the code.
- **`Prompt`**: a text is a sequence of runes with the bytes each occupies and the
  size it is counted with; `Take` is one turn of the loop in `truncateUTF8`, whose
  place is `cursor`. `Offset` is the length in bytes of the first runes of a text.
- **`BodyCapture`**: a body is the sequence of its positions, so that order and loss
  show. `ServeHTTP` decides whether to read, `ReadAll` is one read of the
  `LimitReader`, of any length, `ReadDone` the branches that put a body back into the
  request; `SendPrefix`, `SendOriginal` and `SendDone` forward it. `ReadLimit` is
  `maxBytes + 1` in the width of `MaxInt`. A body may break off; upstream may fail.
- **`RequestPath`** puts the three together in the order of `ServeHTTP`: `ReadBody` is
  the capture of the body, `Extract` a step of `ExtractRequest` on the copy,
  `JoinMessages` its return into `finalize` with the joined text (`words` says which
  runes each text of the body stands for, `Glue` leaves out blank messages), `Cut` is
  the rest of `finalize`, and `Forward` begins only when the copy is dealt with. A text
  frame of a WebSocket has the three middle steps. `Families` are the cases of a run;
  `FamiliesAssumption` says that they are made of the requests, limits and bodies of
  the parts, and that `words` gives every text that a message can have its runes.
- **`IdentityResolver`**: `owner` and `usage` are the tables of sub2api (external),
  which change at any time. `Tick`, `Query` and `Scan` are `Refresh`; it may fail at
  the query or at a row, and swaps `entries` as a whole. `Arrive` looks the key up, under
  an id of the client's choice or a new one (`CorrelationIds`); `Frame` is a further frame
  of a WebSocket, with the id and the identity of the first. `ResolveRequestID` is one
  attempt of the worker, of `Attempts`. `looked` is what the directory said; `fresh`,
  `running` and `allowed` are history: the users a key has had since the last refresh
  began.
- **`RecordWriter`** extends `StoreSchema`: the worker is one of its callers, and the
  clock that ends the five second window also ends the pauses between attempts. With
  the writer left out its steps are those of `StoreSchema` or stutter, so what is proved
  of the gate holds here.
- **`ReviewTable`**: a record is the time of its receipt. A walk is a user of
  `web/admin.html` who goes from page to page; `ListCount` and `ListPage` are the two
  statements of `List`, and `PageIsPast` and `PageIsShown` what `loadRecords` makes of the
  answer: a page behind the last one is replaced by the last one, another is shown, and
  Next is enabled as long as the total says that there are more. The page sizes the page
  offers are within `MaxLimit`, so its offset and that of `List` agree. `steady` and `late`
  are history: what was there all along, and what arrived since the COUNT. A review is
  `Patch`, then `Update` and `Get`. `own` and `shown` number the write and the answer.
  `Casts` bounds who is at work in one behaviour: the walker, or the reviewers; the
  inserts and the retention always are.
- **`AdminSession`**: `Routes` is the switch of `handleAdmin`, `Authenticate` the check,
  and each SQL statement of login, logout and check is an action that may fail, or
  fail after it took effect. `skew` is the difference between the clock that writes
  `expires_at` and the one that compares it.
- **`Startup`**: `Config` and `Accepted` are `LoadConfig`; the actions are the calls of
  `main` in their order, each with the ways it can end. `ListenAndServe` is the goroutine
  of a server, whose address may be taken (`busy`, or by the other server) or whose
  certificate may not load (`pair`); `ListenerStopped` is the end of `main` after that.

## 3. What the runs check

| Run | Instance | Shows |
| --- | --- | --- |
| `queue` | 2 producers, 3 records of unknown users without text, capacity 1, either flag on | nothing is sent on the closed channel; `dropped` is exact; rows agree with the flags and with each record's outcome; a plain `Close` loses nothing; `Enqueue` and `Close` return though the worker never moves; with a fair worker accepted records reach an outcome and the worker ends after `Close`; `AuditLog` is implemented |
| `sidecar_shutdown` | 2 servers, one HTTP request each, one WebSocket, 2 records | the queue closes behind the last HTTP request; a shutdown in time loses nothing; the process exits |
| `record_writer` | worker, bootstrap and an admin request; window of 4 ticks, pauses of 1 and 2 | success means the tables exist; one attempt per window; calls return, if those without a deadline do; the gate opens once the database stays up; a record is given up only after trouble that the worker met |
| `admin_bootstrap` | 3 processes, 1 reset | a password is never replaced; a printed one works; the bootstrap ends |
| `admin_session` | 2 clients, 2 sessions, TTL 2, time to 4, clocks apart by -1, 0, 1; symmetric | nobody gets past the check without the bearer token or a live session; removed sessions stay removed |
| `websocket_pumps` | 2 frames each way, window of 1, every choice of recorded frames | frames keep their order; a frame is recorded once, before it is forwarded; the first error ends handler and pumps; a peer that leaves is noticed while the one that stays reads |
| `request_path` | about 70,000 requests and frames: 90 requests with bodies of 0 to 8 bytes, whole and broken, under every limit of a four-bit integer, read in pieces of up to 3 bytes; about 57,000 bodies of every protocol; texts of up to 4 runes in one message or 2 in each of two, under limits 0 to 9 | below the largest limit, upstream gets the client's bytes and extraction the whole body of exactly the requests that qualify; what is recorded is user text, where its source says, in order; what an excluded role says is not recorded, and counted in a list of messages; the prompt fits, the slice is in range, whole characters are kept |
| `identity` | 2 users, 1 key in any of the headers, 2 requests or frames with ids of their own or one in common, 2 attempts each, 2 key changes, an outage | a user from the directory has owned the key since the refresh before the request or the WebSocket, one from the log in this sense the key of a request with the same id; a failed refresh forgets nothing; the directory catches up once keys and database rest |
| `review` | 3 records, pages of 1 and 2, offsets up to 1, retention off and 1 day; a walk, or 2 reviewers with 2 writes | a walk misses no record that stayed, up to the largest offset, but for as many as arrive between the two statements of its last page; an answer shows the reviewer's own write or a later one; expired records go |
| `startup` | every environment that differs in at most two variables from a plain or an HTTPS one | what `LoadConfig` accepts listens on every address it was given, but for malformed URLs, passwords bcrypt refuses, queue sizes no channel can have, addresses that are taken or equal, and certificates that do not load; and no process stays up on a part of its addresses |

Why the bounds are enough: three records on two producers and a capacity of one fill
the channel, keep one record at the worker and refuse one; a third producer would only
repeat the contention of two for the lock. A record that both filters stop, under
either flag alone, shows each filter by itself. Three callers of the gate are one in
the database, one waiting for the mutex and one coming back. Four ticks of window and
pauses of one and two keep the order of 5 s against 250 and 500 ms: both pauses pass
inside one window. Three processes are a winner, a loser of the race and one after the
reset. Two sessions are one that ends and one that a retry or the other client makes;
four units of time see a session of two expire and be cleaned up. Two frames and a
window of one leave a frame unread and the next one in a blocked write. Bodies go from
empty to two bytes past the largest limit that does not overflow, and the limits to the
largest integer. The extractor's inputs combine every role spelling, part type and nesting that
its conditions distinguish, and lists of two for the order. Runes of 1, 3 and 4 bytes,
white space and invalid bytes meet every limit around their boundaries. The three
kinds of input vary one part of the path at a time, because the parts share only the
copy of the body and the list of messages. Two requests are one whose log row another
finds, or two frames of a WebSocket; two attempts are one before and one after a row is
logged, and the third of the code would repeat the second. Two key changes under two requests put a
change before, between and after lookup, refresh and log row, and take a key from one
user to the other and back; keys do not influence each other but through the
refresh, which replaces all of them at once. Three records and pages of one make a walk
that ends at the largest offset, with deletions and late arrivals in between; a reader
and a reviewer do not influence each other but through the status that a filter
selects, which the walk meets as a record that comes or goes.

`CHECK_DEADLOCK FALSE` is set where the system stops by itself: all records are
spent, the process has exited, or a request is processed.

### Fairness

- `queue`: only the goroutines inside `Enqueue` and `Close` are fair. A waiting writer
  keeps new readers out, which is how Go's RWMutex behaves and what makes weak fairness
  enough for `Close`. `WorkerGetsThrough` has the fairness of the worker as its
  premise: lookups, inserts and timers end, since each has a timeout. The premise carries
  weight: the wait for the schema mutex inside an insert ignores the timeout, and ends
  under the condition of `CallReturns` in `record_writer`.
- `sidecar_shutdown`: `main`, its timer and the goroutines inside `Enqueue`; open
  requests and the worker need never move.
- `record_writer`: a caller at the database goes on when the database answers or its
  context ends (`Goes`), and contexts end by their deadlines, but for those of `Patient`:
  an admin request passes `r.Context()` (`admin.go:347`, `356`, `379`), which ends only
  when its client goes. So `CallReturns` has the premise that their calls do not wait for
  ever; without it TLC finds a hung admin request that holds the mutex, and with it every
  other caller. Further: strong fairness for `Lock`, because a
  `sync.Mutex` in starvation mode goes to the waiter it passed over; the clock; and
  the bootstrap, which calls again after each failure.
- `admin_bootstrap`: each running process.
- `websocket_pumps`: the handler and the pumps, but not the handshake with the client,
  for which the upgrader sets no timeout. The peers need never move; `LeavingIsNoticed`
  says in its premise that a peer that stays takes what is forwarded to it.
- `identity`: the refresh goroutine. Its ticker ticks, and each `Refresh` has a
  timeout.
- `review`: `runRetention`, which a ticker drives. Time itself need not pass.
- `startup`: `main`, whose database calls have deadlines, and the goroutines of its servers.

## 4. What is proved

Every theorem holds for every value of the constants under the assumption named in
its module. Only safety is proved, for the specification without its fairness.

| Theorem | Establishes | Invariant |
| --- | --- | --- |
| `SidecarProofs!TypeCorrect` | `TypeOK` | with `Control`: who is at a statement that uses a record has one |
| `SidecarProofs!NeverSendsOnClosedChannel` | `NoSendOnClosedChannel` | `LockInv`: a reader in its critical section excludes the writer, so a producer that saw the queue open sends before `Close` goes on |
| `SidecarProofs!StoredAtMostOnce` | `RowsMatchFate` | `FateInv`: a record is in the hands of one producer, or in the channel once, or at the worker, as its fate says; `RowsInv`: the one at the worker has no row before its first INSERT |
| `SidecarProofs!StoresOnlyAllowed` | `StoredOnlyIfAllowed` | `AllowedInv`: a record at the insert has passed both filters, and its identity and the flags do not change behind them |
| `SidecarProofs!DrainsUnlessCancelled` | `DrainedUnlessCancelled` | `DrainInv`: without a cancellation the worker ends in front of a closed, empty channel, to which (`LockInv`) nothing can be added |
| `SidecarProofs!QueueKeepsPromise`, `SidecarProofs!SidecarKeepsPromise` | `ImplementsAuditLog`, for the queue alone and in the process | the invariants above; see below |
| `SidecarProofs!DroppedIsExact` | `DroppedCountsRefusals` | `FateInv`: each refusal is of a record not refused before |
| `SidecarProofs!RequestsPrecedeClose` | `QueueOutlivesRequests` | `MainInv`: servers behind `turn` accept nothing and, if no `Shutdown` gave up, have no open request; `Close` is behind the last server |
| `SidecarProofs!ExitInTimeLosesNothing` | `ExitLosesNothingInTime` | `EndInv`: past its wait and within the deadline `main` has seen the worker end; by `MainInv` it cancels only afterwards, so `DrainInv` applies |
| `StoreProofs!SuccessIsSound`, `BackoffIsRespected`, `WriterKeepsGate` | `SuccessMeansTables`, `NoAttemptDuringBackoff`; both with the insert loop among the callers | `Mutex` and `Gate`: who is past the lock owns it, and goes to the database only with the gate shut and no window open; without the mutex another caller's failure would open a window meanwhile |
| `StoreProofs!GivesUpOnlyInTrouble` | `GivenUpOnlyInTrouble` | `WriterInv`: while nothing has gone wrong since the record was taken up, the database is up, no context has ended and no window is open; then (`GateBlames`) the gate lets the worker through |
| `AdminProofs!PrintedCredentialsCorrect`, `DoneCorrect`, `PasswordNeverReplaced` | `PrintedCredentialsWork`, `DoneMeansAdmin` (a process that is done has an administrator), `NeverReplaced` | `Owner`: the process about to print is the one whose password the row holds |
| `StoreProofs!WalksMissOnlyForLate` | `WalkMissesOnlyForLate` | `WalkInv`: a record that was there all along and was not shown stands at the next offset or behind it, or behind the largest one; between the two statements of `List` there are no more matching records than the total and the late ones |
| `StoreProofs!AnswersAreOwnOrLater` | `AnswerIsOwnOrLater` | `AnswerInv`: between the two statements of a review the record carries that write or a later one; with `Targets`: what was deleted does not come back |
| `ProxyProofs!ForwardingIsFaithful`, `CaptureIsWhole` | `ForwardedIsOriginal`, `CapturedIsWhole` | `Accounted`: what was sent, what is held and what is unread make up the body; `Places`: at each step which of the two readers `r.Body` is made of |
| `ProxyProofs!FramesStayInOrder`, `AuditComesFirst` | `FramesInOrder`, `AuditLeadsByOne` | `Position` and `Audit`: a pump holds at most the last frame it read, so writes and records are one frame behind its reads or level with them |
| `ProxyProofs!PromptWithinLimit`, `PromptSliceInRange`, `PromptIsWholeRunes` | `WithinLimit`, `SliceInRange`, `WholeRunes` | `RangeLoop`: the index is the length of the runes before it and never passes the size counted so far, because no rune takes more bytes than its encoding |
| `RequestPathProofs!PathServes`, `PathExtracts` | every run of `RequestPath` is a run of `BodyCapture` and of `Extractor` | none: step by step; see below |
| `RequestPathProofs!PathForwards`, `RecordsComeFromWholeBodies` | `ForwardedIsOriginal` and `CapturedIsWhole` on the whole path; an HTTP record is offered only for a body captured whole | the invariants of the body, with `Copied`: the extraction of an HTTP request has begun only if there is a copy |
| `RequestPathProofs!PathCuts` | `WithinLimit`, `SliceInRange`, `WholeRunes` on the whole path | `PromptInv`: until the extraction returns `finalize` has not begun and its messages are texts whose runes are known; from then on `CutInv`, the invariant of the cut, holds of their join |
| `ExtractorProofs!SourceTheorem` | `SourceIsTrue` | `SourceInv`: each waiting call and each message holds the value its source leads to |
| `ExtractorProofs!SpeakerTheorem` | `NoExcludedText` | `VoiceInv`: the source of each waiting call and message runs through no instruction field and no excluded message |
| `UserTextProofs!RecordedTheorem` | `UserTextRecorded` | `OrderInv`: what is recorded stands before what the stack and the loop still lead to; `CoverInv`: each place of a user's text is recorded or lies under a call still to be made |
| `UserTextProofs!ExcludedTheorem` | `ExcludedCountedNotRecorded` | `VoiceInv`; `CountInv`: the counts are those of the elements the loop has passed and of the instruction fields |
| `IdentityResolverProofs!AttributionIsRight` | `AttributedToOwner`, whatever ids the requests carry | `Directory`: an entry, and a row being scanned, name a user the key has had since that refresh began; `Logged`: a log row names a user its request allows; `Arrived`: what the directory said stays with the record |
| `IdentityResolverProofs!KnownKeysStayKnown` | `KnownKeyStaysKnown` | with `KeyLife`: a key that never had a user is not in the directory, and a deleted one stays deleted, so rows read earlier cannot drop a key in use |
| `AdminProofs!AuthenticationIsRecent`, `EndedSessionsStayEnded` | `AuthenticatedRecently`, `EndedForGood` | `Lifetimes`: every row expires at its creation plus the TTL and the skew; for the second, every step but a login's INSERT, which draws a new token, adds no row |

How the longer arguments go:

- **Refinement of `AuditLog`.** The abstract line is the channel, and the current record
  the one at the worker. A refusal, an acceptance, a receive, an INSERT that takes effect,
  the end of a `persist` and the mark that `Close` sets are one abstract step each, and
  every other statement leaves line and record alone. `FateInv` makes a record that is
  decided a new one, and `RowsInv` one that is stored for the first time.
- **From the queue to the process.** A step of `Sidecar` is a step of `RecordQueue` or
  leaves its variables alone (`SidecarStepsAreQueueSteps`), so every invariant of the
  queue holds in the process, and only `main` is left to reason about. `RecordWriter` and
  `StoreSchema` are related in the same way.
- **Pages.** The position of a record is its rank, the number of matching records that are
  newer. Arrivals can only raise the rank of a record that stays (`RankGrows`), and the
  retention deletes only records that are older. Ranks are different and below the number
  of records (`RankFalls`, `RankBound`), so among at most `total` records and the late ones
  no more have a rank of `total` or above than are late (`TailIsShort`): these are all that
  can lie behind the page that the total makes the last one (`LastOffsetReachesEnd`).
- **Extraction.** The functions of `extractor.go` call each other to any depth. As a stack
  of calls the recursion becomes steps, and what it computes becomes an invariant of the
  stack. A call has one of four shapes (`CallShape`): it makes no call, one on its own
  value, one on a field of it, or one on each element; so a new call is below the old
  one in the tree, and `AtStep` says that the path to it is one step longer. The order of
  the document is lexicographic, so a longer path stays before what the shorter one stood
  before (`BeforeFurther`). The bodies are any trees whose parts are in `JSON`
  (`JSONAssumption`, `BodiesAssumption`); their depth and size are not bounded.
- **The way of a request.** With the other parts left out, each step of `RequestPath` is a
  step of `BodyCapture` and of `Extractor` or leaves their variables alone (`PathSteps`),
  so the theorems about them apply to it. `Prompt` is different: it starts with any text,
  and on the path with the join of what the extraction found. So `CutInv` is carried over
  step by step: `JoinStep` shows that the join is a text (`JoinTyped`), which needs that
  every message the extraction adds is a visible text of the body (`SayableStep`), and
  the steps of the cut are those of `Prompt`.
- **Recursive functions.** `Offset`, `At` and `Join` are recursive functions on the length
  of a text, of a path and of a list of messages. That the first two satisfy their
  equations for every argument (`OffsetStep`, `AtStep`), and that a join of texts is a
  text (`JoinTyped`), is proved by a least counterexample (`LeastNatural`, `LeastIndex`),
  as the library's induction theorems cannot be instantiated.

Only model-checked is all liveness, `AcceptedServes` of `Startup` included: the prover
has no rule for fairness here. Every safety property of a passing run is proved.

## 5. Where code and documentation disagree

Two runs are expected to fail; each checks a sentence of the repository's README,
quoted in `PROJECT.json`.

- `admin_bootstrap_printed`: the first administrator's credentials are said to be
  printed. If the INSERT commits and its reply is lost, the retry finds the row and
  prints nothing.
- `extractor_users_words`: the audit copy is said to exclude assistant and tool text. A
  Gemini content with one of these roles is recorded as the user's, and so is the
  content of a `tool_result` part in a user message.

Others were met while the models were written. They follow from the lines named and
have no run of their own.

- The forwarded request is said not to be modified. With the largest capture limit,
  which `LoadConfig` accepts, `maxBytes + 1` (`proxy.go:143`) overflows, the prefix is
  empty and counts as the whole body, and upstream gets an empty one. `request_path` has
  this limit too; the properties of the body are stated for the others (`Representable`).
- The user is said to be the owner of the API key. The lookup by request id
  (`identity.go:166`) takes the latest log row of an id that the client may choose and
  that another request may carry; `AttributedToOwner` says whose it can then be. And the
  frames of a WebSocket stay with the user its key had at the start (`websocket.go:75`).
- The resolver is said to work without `users.username` (`identity.go:100`). The
  refresh does; the lookup by request id does not (`identity.go:162`).
- Logout is offered. When its DELETE fails the client is told that it is logged out
  (`admin.go:195`), and the session stays valid.
- An empty HTTP address is said to switch HTTP off. It selects the default address
  (`config.go:43`).
- A record is said to be dropped when the database is down or the queue full. The ended
  context of another caller is remembered by the schema gate (`store.go:369`) for longer
  than the worker tries; `GivenUpOnlyInTrouble` counts this as trouble.
- The list's preview is said to have at most 512 bytes. It has at most 512 characters
  (`store.go:227`).

No text says otherwise of these, but a reader of the properties should know them:

- Role names that are neither `user` nor on the list of excluded ones, such as
  `function`, are left out of the audit copy and of its counts (`extractor.go:272`).
- The admin page counts a page as turned when its load fails (`web/admin.html:178`), and
  shows the one before: Next then leaves a page out. The walk of `review` goes back.

## 6. What is not modelled

- bcrypt, token generation, HMAC and SHA-256: cryptography. A password is right or
  wrong, a token is new, a fingerprint identifies its key.
- `httputil.ReverseProxy`, the WebSocket library, `net/http`: external. What the code
  relies on (a body is forwarded until it ends or breaks, `Shutdown` waits for open
  requests but not for hijacked connections) is part of the models that use it.
- `correlationID` looks at characters only. What it gives, an id of the client's choice
  or a new one, is `CorrelationIds`.
- The columns of a record that are only copied, the encoding of answers, the health
  endpoint beyond its call of the schema gate, `envBool`: no property tells them apart.
- Column widths and indexes. A record with a field that is too wide is refused by the
  database at each attempt and given up; `RecordWriter` and `RecordQueue` speak of rows
  that the table accepts (`RecordQueue` lets any insert fail).
- The admin pages beyond the pager: they show what the server answers.
- Logging, HTML and CSS.
