-------------------------- MODULE IdentityResolver --------------------------
(***************************************************************************)
(* Who a record is attributed to: the directory of API keys that Refresh   *)
(* of identity.go copies from sub2api's database, Lookup when a request or *)
(* a WebSocket arrives, and ResolveRequestID in the worker when the key    *)
(* was unknown.  Keys are created, handed over and deleted meanwhile, and  *)
(* sub2api logs a request some time after it was forwarded.  Each frame of *)
(* a WebSocket makes a request of its own here, with the id and the        *)
(* identity of the connection.                                             *)
(***************************************************************************)
EXTENDS Integers, Sequences, FiniteSetsExt

CONSTANTS
  Users, Keys,
  NoKey,        \* a request without an API key
  Unknown,      \* Identity{IdentitySource: "unknown"}
  RequestIds,   \* the request ids that clients choose
  Headers,      \* the key headers clients send: [bearer, apiKey, googKey]
  FirstOwners,  \* who may have a key when the process starts
  Attempts,     \* how often persist asks the log, three times in the code
  MaxRequests,  \* bound on the requests and frames, each of which makes a record
  MaxChanges,   \* bound on the changes of the api_keys table
  MaxOutages    \* bound on the outages of the database

\* user_id of a key that does not exist yet, was deleted, or has no user (NULL)
Free == "free"
Deleted == "deleted"
Null == "null"

\* Numbered as they arrive
Requests == 1..MaxRequests

ASSUME ConstantsAssumption ==
  /\ FirstOwners \subseteq Users \cup {Free}
  /\ Attempts \in Nat /\ MaxRequests \in Nat /\ MaxChanges \in Nat /\ MaxOutages \in Nat
  /\ Users \cap {Unknown, Free, Deleted, Null} = {} /\ NoKey \notin Keys

ASSUME HeadersAssumption ==
  Headers \subseteq [bearer : Keys \cup {NoKey}, apiKey : Keys \cup {NoKey},
                     googKey : Keys \cup {NoKey}]

VARIABLES
  up,                   \* sub2api's database answers
  owner,                \* api_keys: who has each key
  usage,                \* usage_logs in the order of created_at
  entries,              \* the directory
  rpc, rows,            \* Refresh and the rows its query returned
  started,              \* NewIdentityResolver has returned
  state, key, id,       \* per request
  looked,               \* the identity that Lookup gave its connection
  identity, tries,      \* the identity of its record; attempt of persist
  fresh, running, allowed,       \* see "History"
  changes, outages

refresher == <<entries, rpc, rows, started>>
requests == <<state, key, id, looked, identity, tries>>
sub2api == <<up, owner, usage, changes, outages>>
vars == <<sub2api, refresher, requests, fresh, running, allowed>>

Init ==
  /\ up \in BOOLEAN
  /\ owner \in [Keys -> FirstOwners] /\ usage = <<>>
  /\ entries = [k \in Keys |-> Unknown]
  /\ rpc = "query" /\ rows = [k \in Keys |-> Free] /\ started = FALSE
  /\ state = [r \in Requests |-> "none"] /\ key = [r \in Requests |-> NoKey]
  /\ id = [r \in Requests |-> r] /\ looked = [r \in Requests |-> Unknown]
  /\ identity = looked /\ tries = [r \in Requests |-> 0]
  /\ fresh = [k \in Keys |-> {owner[k]}] /\ running = fresh
  /\ allowed = [r \in Requests |-> {}]
  /\ changes = 0 /\ outages = IF up THEN 0 ELSE 1

-----------------------------------------------------------------------------
(* sub2api and its database *)

Database ==
  /\ up' = ~up /\ (up => outages < MaxOutages)
  /\ outages' = IF up THEN outages + 1 ELSE outages
  /\ UNCHANGED <<owner, usage, changes, refresher, requests, fresh, running, allowed>>

\* A key is created, handed to another user, orphaned or deleted.  History: fresh[k]
\* are the owners of k since the query behind the directory, running[k] those since
\* the query of the refresh under way, and allowed[r] those of r's key since the
\* query behind the directory r was looked up in.
ChangeKey(k, u) ==
  /\ changes < MaxChanges /\ changes' = changes + 1
  /\ owner[k] # Deleted /\ u # owner[k]
  /\ u \in Users \/ (owner[k] \in Users /\ u \in {Null, Deleted})
  /\ owner' = [owner EXCEPT ![k] = u]
  /\ fresh' = [fresh EXCEPT ![k] = @ \cup {u}]
  /\ running' = [running EXCEPT ![k] = @ \cup {u}]
  /\ allowed' = [r \in Requests |-> IF key[r] = k THEN allowed[r] \cup {u} ELSE allowed[r]]
  /\ UNCHANGED <<up, usage, outages, refresher, requests>>

\* sub2api serves a forwarded request of a key it accepts, and logs it.
Bill(r) ==
  /\ state[r] # "none" /\ key[r] # NoKey /\ owner[key[r]] \in Users
  /\ \A i \in DOMAIN usage : usage[i].request # r
  /\ usage' = Append(usage, [request |-> r, id |-> id[r], user |-> owner[key[r]]])
  /\ UNCHANGED <<up, owner, changes, outages, refresher, requests, fresh, running, allowed>>

-----------------------------------------------------------------------------
(* Refresh, first in NewIdentityResolver and then at every tick of Start *)

idleSide == <<sub2api, requests, allowed>>

\* defer rows.Close()
RowsClosed == rows' = [k \in Keys |-> Free]

\* Slip: the goroutine of Start ends at the first error.
AfterFailure_Stop == "stopped"

AfterFailure == "wait"

RefreshFails ==
  /\ rpc' = AfterFailure /\ started' = TRUE /\ RowsClosed
  /\ running' = fresh /\ UNCHANGED <<entries, fresh>>

Tick ==
  /\ rpc = "wait" /\ rpc' = "query"
  /\ UNCHANGED <<idleSide, entries, rows, started, fresh, running>>

\* r.db.QueryContext: the query without the username is tried when the first fails.
Query ==
  /\ rpc = "query"
  /\ \/ /\ up /\ rpc' = "scan"
        /\ rows' = [k \in Keys |-> owner[k]]
        /\ running' = [k \in Keys |-> {owner[k]}]
        /\ UNCHANGED <<entries, started, fresh>>
     \/ ~up /\ RefreshFails
  /\ UNCHANGED idleSide

\* WHERE k.deleted_at IS NULL
NextEntries == [k \in Keys |-> IF rows[k] \in Users THEN rows[k] ELSE Unknown]

\* Slip: the error of the rows is not looked at, and what was read replaces the directory.
Broken_Swapped ==
  /\ rpc' = "wait" /\ started' = TRUE
  /\ \E read \in SUBSET Keys :
       entries' = [k \in Keys |-> IF k \in read THEN NextEntries[k] ELSE Unknown]
  /\ RowsClosed /\ UNCHANGED <<fresh, running>>

\* rows.Err() or a Scan that fails: the directory stays as it is.
Broken == RefreshFails

Scan ==
  /\ rpc = "scan"
  /\ \/ /\ up /\ \A k \in Keys : rows[k] # Null
        /\ entries' = NextEntries /\ fresh' = running /\ UNCHANGED running
        /\ rpc' = "wait" /\ started' = TRUE /\ RowsClosed
     \/ (~up \/ \E k \in Keys : rows[k] = Null) /\ Broken
  /\ UNCHANGED idleSide

-----------------------------------------------------------------------------
(* The identity of a request *)

\* extractAPIKey
ExtractAPIKey(h) ==
  IF h.bearer # NoKey THEN h.bearer
  ELSE IF h.apiKey # NoKey THEN h.apiKey ELSE h.googKey

Lookup(k) == IF k = NoKey THEN Unknown ELSE entries[k]

\* correlationID: the id the client sent, or a new one.
CorrelationIds(r) == RequestIds \cup {r}

\* A record with key k, id i and identity u goes to the queue.
Enqueue(r, k, i, u, users) ==
  /\ state[r] = "none" /\ \A q \in 1..(r - 1) : state[q] # "none"
  /\ state' = [state EXCEPT ![r] = "queued"]
  /\ key' = [key EXCEPT ![r] = k] /\ id' = [id EXCEPT ![r] = i]
  /\ looked' = [looked EXCEPT ![r] = u] /\ identity' = [identity EXCEPT ![r] = u]
  /\ allowed' = [allowed EXCEPT ![r] = users]
  /\ UNCHANGED <<sub2api, refresher, tries, fresh, running>>

\* A request arrives: captureHTTP, or the start of a WebSocket and its first frame.
Arrive(r, h) ==
  LET k == ExtractAPIKey(h) IN
  /\ started
  /\ \E i \in CorrelationIds(r) :
       Enqueue(r, k, i, Lookup(k), IF k = NoKey THEN {} ELSE fresh[k])

\* A further frame r of the WebSocket that q began: nothing is looked up again.
Frame(r, q) ==
  /\ state[q] # "none"
  /\ Enqueue(r, key[q], id[q], looked[q], allowed[q])

\* Slip: the log is searched without the request id.
LogRows_AnyRequest(r) == DOMAIN usage

\* WHERE l.request_id = $1
LogRows(r) == {i \in DOMAIN usage : usage[i].id = id[r]}

\* ORDER BY l.created_at DESC LIMIT 1
LoggedUser(r) == usage[Max(LogRows(r))].user

Resolvable(r) == up /\ LogRows(r) # {}

Resolved(r) == identity[r] \in Users

\* One call of ResolveRequestID in persist.  It may miss a row that is there: its
\* deadline passes, or there is no users.username, for which it has no second query.
ResolveRequestID(r) ==
  /\ state[r] = "queued" /\ ~Resolved(r) /\ tries[r] < Attempts
  /\ \/ /\ Resolvable(r) /\ UNCHANGED tries
        /\ identity' = [identity EXCEPT ![r] = LoggedUser(r)]
     \/ tries' = [tries EXCEPT ![r] = @ + 1] /\ UNCHANGED identity
  /\ UNCHANGED <<sub2api, refresher, state, key, id, looked, fresh, running, allowed>>

\* The record is stored, or left out because its user is unknown.
Persist(r) ==
  /\ state[r] = "queued" /\ (Resolved(r) \/ tries[r] = Attempts)
  /\ state' = [state EXCEPT ![r] = "done"] /\ tries' = [tries EXCEPT ![r] = 0]
  /\ UNCHANGED <<sub2api, refresher, key, id, looked, identity, fresh, running, allowed>>

-----------------------------------------------------------------------------
Next ==
  \/ Database \/ Tick \/ Query \/ Scan
  \/ \E k \in Keys, u \in Users \cup {Null, Deleted} : ChangeKey(k, u)
  \/ \E r \in Requests :
       \/ \E h \in Headers : Arrive(r, h)
       \/ \E q \in Requests : Frame(r, q)
       \/ Bill(r) \/ ResolveRequestID(r) \/ Persist(r)

SafeSpec == Init /\ [][Next]_vars

\* The ticker ticks and every Refresh ends, by its timeout at the latest.
Spec == SafeSpec /\ WF_vars(Tick \/ Query \/ Scan)

-----------------------------------------------------------------------------
(* Properties *)

\* A user found in the directory has owned the record's API key since the last refresh
\* before the request or, for a frame, before its WebSocket began: a key handed over
\* later is still recorded under the user it had then.  A user found in the usage log has
\* in this sense owned the key of a request with the same id: the record's own if no
\* other request carries its id, and whose key it is if one does.
AttributedToOwner ==
  \A r \in Requests : Resolved(r) =>
    IF looked[r] \in Users THEN identity[r] = looked[r] /\ looked[r] \in allowed[r]
    ELSE \E q \in Requests : id[q] = id[r] /\ identity[r] \in allowed[q]

\* A refresh that fails, at the query or half-way through the rows, takes no key out
\* of the directory: a known key that still has its user stays known.
KnownKeyStaysKnown ==
  [][\A k \in Keys : entries[k] \in Users /\ owner[k] \in Users => entries'[k] \in Users]_vars

\* Once the database stays up, keys no longer change and each has a user or is deleted,
\* the directory agrees with it for good, whatever failed before.
DirectoryCatchesUp ==
  <>[](up /\ \A k \in Keys : owner[k] # Null) /\ <>[][UNCHANGED owner]_owner =>
    <>[](\A k \in Keys : entries[k] = IF owner[k] \in Users THEN owner[k] ELSE Unknown)
=============================================================================
