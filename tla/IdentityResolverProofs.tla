----------------------- MODULE IdentityResolverProofs -----------------------
(***************************************************************************)
(* Proofs about IdentityResolver for any users, keys and requests, any     *)
(* number of key changes and of outages.                                   *)
(***************************************************************************)
EXTENDS IdentityResolver, WellFoundedInduction, TLAPS

Owners == Users \cup {Free, Deleted, Null}
Ids == RequestIds \cup Requests
LogRow == [request : Requests, id : Ids, user : Users]

Types ==
  /\ owner \in [Keys -> Owners] /\ rows \in [Keys -> Owners]
  /\ entries \in [Keys -> Users \cup {Unknown}]
  /\ usage \in Seq(LogRow)
  /\ DOMAIN state = Requests /\ key \in [Requests -> Keys \cup {NoKey}]
  /\ id \in [Requests -> Ids]
  /\ looked \in [Requests -> Users \cup {Unknown}]
  /\ identity \in [Requests -> Users \cup {Unknown}]
  /\ fresh \in [Keys -> SUBSET Owners] /\ running \in [Keys -> SUBSET Owners]
  /\ allowed \in [Requests -> SUBSET Owners]

\* The directory and the rows of a refresh under way name recent owners.
Directory ==
  \A k \in Keys :
    /\ owner[k] \in fresh[k] /\ owner[k] \in running[k]
    /\ entries[k] \in Users => entries[k] \in fresh[k]
    /\ rpc = "scan" => rows[k] \in running[k]

\* A key that never had a user is not in the directory, and a deleted one stays deleted.
KeyLife ==
  \A k \in Keys :
    /\ owner[k] = Free => entries[k] = Unknown /\ (rpc = "scan" => rows[k] = Free)
    /\ rpc = "scan" /\ rows[k] = Free => entries[k] = Unknown
    /\ rpc = "scan" /\ rows[k] = Deleted => owner[k] = Deleted

\* The owner of a request's key, the user looked up for it, and the user it is logged
\* under, may be named.
Arrived ==
  \A r \in Requests :
    /\ state[r] # "none" /\ key[r] # NoKey => owner[key[r]] \in allowed[r]
    /\ state[r] = "none" => key[r] = NoKey /\ allowed[r] = {}
    /\ looked[r] \in Users => identity[r] = looked[r] /\ looked[r] \in allowed[r]
Logged ==
  \A i \in DOMAIN usage :
    LET q == usage[i].request IN
    usage[i].id = id[q] /\ state[q] # "none" /\ usage[i].user \in allowed[q]

\* A user who was not looked up is one that a request with the same id may be named with.
Attribution ==
  \A r \in Requests : Resolved(r) /\ looked[r] \notin Users =>
    \E q \in Requests : id[q] = id[r] /\ identity[r] \in allowed[q]

IInv == Types /\ Directory /\ KeyLife /\ Arrived /\ Logged /\ Attribution

-----------------------------------------------------------------------------
\* A non-empty set of positions has a last one.
LEMMA LastPosition ==
  ASSUME NEW n \in Nat, NEW S \in SUBSET (1..n), S # {}
  PROVE  Max(S) \in S
<1> DEFINE T == {n - i : i \in S}
<1>1. T \subseteq Nat
  OBVIOUS
<1>0. T # {}
  <2>1. PICK i \in S : TRUE
    OBVIOUS
  <2>2. n - i \in T
    BY <2>1
  <2> QED BY <2>2
<1>2. \E x \in T : \A y \in T : ~(<<y, x>> \in OpToRel(<, Nat))
  BY <1>0, <1>1, NatLessThanWellFounded, WFMin, Zenon
<1>3. PICK x \in T : \A y \in T : ~(y < x)
  BY <1>1, <1>2 DEF OpToRel
<1>4. PICK i \in S : x = n - i
  BY <1>3
<1>5. \A j \in S : i >= j
  <2> TAKE j \in S
  <2>1. n - j \in T
    OBVIOUS
  <2>2. ~(n - j < n - i)
    BY <1>3, <1>4, <2>1
  <2>3. i \in 1..n /\ j \in 1..n
    OBVIOUS
  <2> QED BY <2>2, <2>3
<1>6. \E j \in S : \A y \in S : j >= y
  BY <1>4, <1>5
<1> QED BY <1>6 DEF Max

\* The user the request log gives for r is one that a request with r's id allows.
LEMMA LoggedUserAllowed ==
  ASSUME IInv, NEW r \in Requests, LogRows(r) # {}
  PROVE  /\ LoggedUser(r) \in Users
         /\ \E q \in Requests : id[q] = id[r] /\ LoggedUser(r) \in allowed[q]
<1>1. LogRows(r) \in SUBSET (1..Len(usage)) /\ Len(usage) \in Nat
  BY DEF LogRows, IInv, Types
<1>2. Max(LogRows(r)) \in LogRows(r)
  BY <1>1, LastPosition
<1>3. PICK i \in DOMAIN usage : i = Max(LogRows(r)) /\ usage[i].id = id[r]
  BY <1>2 DEF LogRows
<1>4. usage[i] \in LogRow
  BY <1>3 DEF IInv, Types
<1>5. usage[i].request \in Requests /\ usage[i].user \in Users
  BY <1>4 DEF LogRow
<1>6. id[usage[i].request] = id[r] /\ usage[i].user \in allowed[usage[i].request]
  BY <1>3 DEF IInv, Logged
<1> QED BY <1>3, <1>5, <1>6 DEF LoggedUser

LEMMA RowType == ASSUME Types, NEW i \in DOMAIN usage PROVE usage[i].request \in Requests
<1>1. usage[i] \in LogRow
  BY DEF Types
<1> QED BY <1>1 DEF LogRow

LEMMA InitHolds == ASSUME Init PROVE IInv
<1>1. Types
  BY ConstantsAssumption DEF Init, Types, Owners, Ids
<1>2. Directory /\ KeyLife
  BY ConstantsAssumption DEF Init, Directory, KeyLife
<1>3. Arrived /\ Logged
  BY ConstantsAssumption DEF Init, Arrived, Logged
<1>4. Attribution
  BY ConstantsAssumption DEF Init, Attribution, Resolved
<1> QED BY <1>1, <1>2, <1>3, <1>4 DEF IInv

\* A step that leaves requests and what they may be attributed to alone.
LEMMA RequestsKept ==
  ASSUME Arrived, Logged, Attribution,
         UNCHANGED <<owner, usage, state, key, id, looked, identity, allowed>>
  PROVE  Arrived' /\ Logged' /\ Attribution'
BY DEF Arrived, Logged, Attribution, Resolved

LEMMA ChangeKeyStep ==
  ASSUME IInv, NEW k \in Keys, NEW u \in Users \cup {Null, Deleted}, ChangeKey(k, u)
  PROVE  IInv'
<1> USE DEF IInv
<1>0. /\ owner' = [owner EXCEPT ![k] = u]
      /\ fresh' = [fresh EXCEPT ![k] = @ \cup {u}]
      /\ running' = [running EXCEPT ![k] = @ \cup {u}]
      /\ allowed' = [r \in Requests |-> IF key[r] = k THEN allowed[r] \cup {u} ELSE allowed[r]]
      /\ UNCHANGED <<entries, rpc, rows, usage, state, key, id, looked, identity>>
      /\ u # Free /\ owner[k] # Deleted
  BY ConstantsAssumption DEF ChangeKey, refresher, requests, Free, Null, Deleted
<1>1. Types'
  BY <1>0 DEF Types, Owners
<1>2. Directory'
  BY <1>0 DEF Directory, Types
<1>3. KeyLife'
  BY <1>0 DEF KeyLife, Types
<1>4. Arrived'
  BY <1>0, ConstantsAssumption DEF Arrived, Types
<1>5. \A r \in Requests : allowed[r] \subseteq allowed'[r]
  BY <1>0
<1>6. Logged'
  <2> SUFFICES ASSUME NEW i \in DOMAIN usage
               PROVE  /\ usage[i].id = id[usage[i].request]
                      /\ state[usage[i].request] # "none"
                      /\ usage[i].user \in allowed'[usage[i].request]
    BY <1>0 DEF Logged
  <2>1. usage[i].request \in Requests
    BY RowType
  <2> QED BY <1>5, <2>1 DEF Logged
<1>7. Attribution'
  BY <1>0, <1>5 DEF Attribution, Resolved
<1> QED BY <1>1, <1>2, <1>3, <1>4, <1>6, <1>7

LEMMA BillStep == ASSUME IInv, NEW r \in Requests, Bill(r) PROVE IInv'
<1> USE DEF IInv
<1> DEFINE row == [request |-> r, id |-> id[r], user |-> owner[key[r]]]
<1>0. /\ usage' = Append(usage, row) /\ row \in LogRow
      /\ state[r] # "none" /\ owner[key[r]] \in allowed[r]
      /\ UNCHANGED <<owner, entries, rpc, rows, state, key, id, looked, identity, fresh, running, allowed>>
  BY ConstantsAssumption DEF Bill, refresher, requests, Arrived, Types, LogRow
<1>1. Types'
  BY <1>0 DEF Types
<1>2. Directory' /\ KeyLife'
  BY <1>0 DEF Directory, KeyLife
<1>3. Arrived' /\ Attribution'
  BY <1>0 DEF Arrived, Attribution, Resolved
<1>4. Logged'
  <2> SUFFICES ASSUME NEW i \in DOMAIN usage'
               PROVE  /\ usage'[i].id = id[usage'[i].request]
                      /\ state[usage'[i].request] # "none"
                      /\ usage'[i].user \in allowed[usage'[i].request]
    BY <1>0 DEF Logged
  <2>1. CASE i \in DOMAIN usage
    <3>1. usage'[i] = usage[i]
      BY <1>0, <2>1 DEF Types
    <3> QED BY <2>1, <3>1 DEF Logged
  <2>2. CASE i \notin DOMAIN usage
    <3>1. usage'[i] = row
      BY <1>0, <2>2 DEF Types
    <3> QED BY <1>0, <3>1
  <2> QED BY <2>1, <2>2
<1> QED BY <1>1, <1>2, <1>3, <1>4

-----------------------------------------------------------------------------
\* The three ways a Refresh goes on.
LEMMA RefreshFailsStep ==
  ASSUME IInv, RefreshFails, UNCHANGED idleSide, AfterFailure # "scan"
  PROVE  IInv'
<1> USE DEF IInv
<1>0. /\ rpc' # "scan" /\ rows' = [k \in Keys |-> Free] /\ running' = fresh
      /\ UNCHANGED <<owner, usage, entries, fresh, state, key, id, looked, identity, allowed>>
  BY DEF RefreshFails, RowsClosed, idleSide, sub2api, requests
<1>1. Types'
  BY <1>0 DEF Types, Owners
<1>2. Directory' /\ KeyLife'
  BY <1>0 DEF Directory, KeyLife
<1> QED BY <1>0, <1>1, <1>2, RequestsKept

LEMMA QueryStep == ASSUME IInv, Query PROVE IInv'
<1> USE DEF IInv
<1>1. CASE ~up /\ RefreshFails
  BY <1>1, RefreshFailsStep DEF Query, AfterFailure
<1>2. CASE ~(~up /\ RefreshFails)
  <2>0. /\ rpc' = "scan" /\ rows' = [k \in Keys |-> owner[k]]
        /\ running' = [k \in Keys |-> {owner[k]}]
        /\ UNCHANGED <<owner, usage, entries, fresh, state, key, id, looked, identity, allowed>>
    BY <1>2 DEF Query, idleSide, sub2api, requests
  <2>1. Types'
    BY <2>0 DEF Types
  <2>2. Directory' /\ KeyLife'
    BY <2>0 DEF Directory, KeyLife
  <2> QED BY <2>0, <2>1, <2>2, RequestsKept
<1> QED BY <1>1, <1>2

LEMMA ScanStep == ASSUME IInv, Scan PROVE IInv'
<1> USE DEF IInv
<1>1. CASE Broken
  BY <1>1, RefreshFailsStep DEF Scan, Broken, AfterFailure
<1>2. CASE ~Broken
  <2>0. /\ rpc = "scan" /\ entries' = NextEntries /\ fresh' = running /\ running' = running
        /\ rpc' = "wait" /\ rows' = [k \in Keys |-> Free]
        /\ UNCHANGED <<owner, usage, state, key, id, looked, identity, allowed>>
    BY <1>2 DEF Scan, RowsClosed, idleSide, sub2api, requests
  <2>1. Types'
    BY <2>0 DEF Types, NextEntries, Owners
  <2>2. Directory'
    BY <2>0, ConstantsAssumption DEF Directory, NextEntries, Types
  <2>3. ASSUME NEW k \in Keys, owner[k] = Free PROVE rows[k] \notin Users
    BY <2>0, <2>3, ConstantsAssumption DEF KeyLife
  <2>4. KeyLife'
    BY <2>0, <2>3 DEF KeyLife, NextEntries
  <2> QED BY <2>0, <2>1, <2>2, <2>4, RequestsKept
<1> QED BY <1>1, <1>2

\* A new record whose identity, if it has one, is among its users.
LEMMA EnqueueStep ==
  ASSUME IInv, NEW r \in Requests, NEW k \in Keys \cup {NoKey}, NEW i \in Ids,
         NEW u \in Users \cup {Unknown}, NEW users \in SUBSET Owners,
         u \in Users => u \in users, k # NoKey => owner[k] \in users,
         Enqueue(r, k, i, u, users)
  PROVE  IInv'
<1> USE DEF IInv
<1>1. /\ state[r] = "none" /\ state' = [state EXCEPT ![r] = "queued"]
      /\ key' = [key EXCEPT ![r] = k] /\ id' = [id EXCEPT ![r] = i]
      /\ looked' = [looked EXCEPT ![r] = u] /\ identity' = [identity EXCEPT ![r] = u]
      /\ allowed' = [allowed EXCEPT ![r] = users]
      /\ UNCHANGED <<owner, usage, entries, rpc, rows, fresh, running>>
  BY DEF Enqueue, sub2api, refresher
<1>2. Types'
  BY <1>1 DEF Types
<1>3. Directory' /\ KeyLife'
  BY <1>1 DEF Directory, KeyLife
<1>4. Arrived'
  BY <1>1 DEF Arrived, Types
<1>5. Logged'
  <2> SUFFICES ASSUME NEW n \in DOMAIN usage
               PROVE  /\ usage[n].id = id'[usage[n].request]
                      /\ state'[usage[n].request] # "none"
                      /\ usage[n].user \in allowed'[usage[n].request]
    BY <1>1 DEF Logged
  <2>1. usage[n].request \in Requests /\ usage[n].request # r
    BY <1>1, RowType DEF Logged
  <2>2. state'[usage[n].request] = state[usage[n].request]
    BY <1>1, <2>1 DEF Types
  <2>3. allowed'[usage[n].request] = allowed[usage[n].request]
    BY <1>1, <2>1 DEF Types
  <2>4. id'[usage[n].request] = id[usage[n].request]
    BY <1>1, <2>1 DEF Types
  <2> QED BY <2>2, <2>3, <2>4 DEF Logged
<1>6. Attribution'
  <2> SUFFICES ASSUME NEW p \in Requests, identity'[p] \in Users, looked'[p] \notin Users
               PROVE  \E q \in Requests : id'[q] = id'[p] /\ identity'[p] \in allowed'[q]
    BY DEF Attribution, Resolved
  <2>1. p # r
    BY <1>1 DEF Types
  <2>2. identity'[p] = identity[p] /\ looked'[p] = looked[p] /\ id'[p] = id[p]
    BY <1>1, <2>1 DEF Types
  <2>3. PICK q \in Requests : id[q] = id[p] /\ identity[p] \in allowed[q]
    BY <2>2 DEF Attribution, Resolved
  <2>4. q # r
    BY <1>1, <2>3 DEF Arrived
  <2>5. id'[q] = id[q] /\ allowed'[q] = allowed[q]
    BY <1>1, <2>4 DEF Types
  <2> QED BY <2>2, <2>3, <2>5
<1> QED BY <1>2, <1>3, <1>4, <1>5, <1>6

LEMMA ArriveStep ==
  ASSUME IInv, NEW r \in Requests, NEW h \in Headers, Arrive(r, h)
  PROVE  IInv'
<1> DEFINE k == ExtractAPIKey(h)
           users == IF k = NoKey THEN {} ELSE fresh[k]
<1>1. PICK i \in CorrelationIds(r) : Enqueue(r, k, i, Lookup(k), users)
  BY DEF Arrive
<1>2. k \in Keys \cup {NoKey} /\ i \in Ids
  BY <1>1, HeadersAssumption DEF ExtractAPIKey, CorrelationIds, Ids
<1> HIDE DEF k
<1>3. Lookup(k) \in Users \cup {Unknown} /\ users \in SUBSET Owners
  BY <1>2 DEF Lookup, IInv, Types
<1>4. Lookup(k) \in Users => Lookup(k) \in users
  BY <1>2, ConstantsAssumption DEF Lookup, IInv, Directory
<1>5. k # NoKey => owner[k] \in users
  BY <1>2 DEF IInv, Directory
<1> HIDE DEF users
<1> QED BY <1>1, <1>2, <1>3, <1>4, <1>5, EnqueueStep

LEMMA FrameStep ==
  ASSUME IInv, NEW r \in Requests, NEW q \in Requests, Frame(r, q)
  PROVE  IInv'
<1>1. /\ key[q] \in Keys \cup {NoKey} /\ id[q] \in Ids
      /\ looked[q] \in Users \cup {Unknown} /\ allowed[q] \in SUBSET Owners
  BY DEF IInv, Types
<1>2. /\ looked[q] \in Users => looked[q] \in allowed[q]
      /\ key[q] # NoKey => owner[key[q]] \in allowed[q]
  BY DEF Frame, IInv, Arrived
<1>3. Enqueue(r, key[q], id[q], looked[q], allowed[q])
  BY DEF Frame
<1> QED BY <1>1, <1>2, <1>3, EnqueueStep

LEMMA ResolveStep ==
  ASSUME IInv, NEW r \in Requests, ResolveRequestID(r)
  PROVE  IInv'
<1> USE DEF IInv
<1>1. /\ UNCHANGED <<owner, usage, entries, rpc, rows, state, key, id, looked, fresh, running, allowed>>
      /\ \/ identity' = identity
         \/ Resolvable(r) /\ identity' = [identity EXCEPT ![r] = LoggedUser(r)]
  BY DEF ResolveRequestID, sub2api, refresher
<1>2. Directory' /\ KeyLife' /\ Logged'
  BY <1>1 DEF Directory, KeyLife, Logged
<1>3. Arrived'
  <2>1. looked[r] \notin Users
    BY DEF ResolveRequestID, Resolved, Arrived
  <2>2. \A q \in Requests \ {r} : identity'[q] = identity[q]
    BY <1>1 DEF Types
  <2> QED BY <1>1, <2>1, <2>2 DEF Arrived
<1>4. CASE identity' = identity
  BY <1>3, <1>1, <1>2, <1>4 DEF Types, Attribution, Resolved
<1>5. CASE Resolvable(r) /\ identity' = [identity EXCEPT ![r] = LoggedUser(r)]
  <2>1. /\ LoggedUser(r) \in Users
        /\ \E q \in Requests : id[q] = id[r] /\ LoggedUser(r) \in allowed[q]
    BY <1>5, LoggedUserAllowed DEF Resolvable
  <2>2. Types'
    BY <1>1, <1>5, <2>1 DEF Types
  <2>3. Attribution'
    BY <1>1, <1>5, <2>1 DEF Attribution, Resolved, Types
  <2> QED BY <1>3, <1>2, <2>2, <2>3
<1> QED BY <1>1, <1>4, <1>5

LEMMA PersistStep == ASSUME IInv, NEW r \in Requests, Persist(r) PROVE IInv'
<1> USE DEF IInv
<1>1. /\ UNCHANGED <<owner, usage, entries, rpc, rows, key, id, looked, identity, fresh, running, allowed>>
      /\ state[r] = "queued" /\ state' = [state EXCEPT ![r] = "done"]
  BY DEF Persist, sub2api, refresher
<1>2. Types'
  BY <1>1 DEF Types
<1>3. Directory' /\ KeyLife' /\ Attribution'
  BY <1>1 DEF Directory, KeyLife, Attribution, Resolved
<1>4. \A q \in Requests : state'[q] # "none" <=> state[q] # "none"
  BY <1>1 DEF Types
<1>5. Arrived'
  BY <1>1, <1>4 DEF Arrived
<1>6. Logged'
  <2>1. \A i \in DOMAIN usage : usage[i].request \in Requests
    BY RowType
  <2> QED BY <1>1, <1>4, <2>1 DEF Logged
<1> QED BY <1>2, <1>3, <1>5, <1>6

\* Database, Tick and a stuttering step.
LEMMA QuietStep ==
  ASSUME IInv, rpc' = "scan" => rpc = "scan",
         UNCHANGED <<owner, usage, entries, rows, state, key, id, looked, identity, fresh, running, allowed>>
  PROVE  IInv'
<1>1. Types' /\ Directory' /\ KeyLife'
  BY DEF IInv, Types, Directory, KeyLife
<1> QED BY <1>1, RequestsKept DEF IInv

LEMMA Step == ASSUME IInv, [Next]_vars PROVE IInv'
<1>1. CASE Database
  BY <1>1, QuietStep DEF Database, refresher, requests
<1>2. CASE Tick
  BY <1>2, QuietStep DEF Tick, idleSide, sub2api, requests
<1>3. CASE UNCHANGED vars
  BY <1>3, QuietStep DEF vars, refresher, sub2api, requests
<1> QED BY <1>1, <1>2, <1>3, QueryStep, ScanStep, ChangeKeyStep, BillStep, ResolveStep,
           PersistStep, ArriveStep, FrameStep DEF Next

-----------------------------------------------------------------------------
LEMMA Inductive == SafeSpec => []IInv
<1>1. Init => IInv
  BY InitHolds
<1>2. IInv /\ [Next]_vars => IInv'
  BY Step
<1> QED BY <1>1, <1>2, PTL DEF SafeSpec

\* Whichever way a record gets its user, and whatever ids clients choose: a user from the
\* directory has owned the record's API key since the last refresh before the request (for
\* a frame, before its WebSocket began), and one from the log has so owned the key of a
\* request with the record's id.
THEOREM AttributionIsRight == SafeSpec => []AttributedToOwner
<1>1. IInv => AttributedToOwner
  BY DEF IInv, Arrived, Attribution, AttributedToOwner, Resolved
<1> QED BY <1>1, Inductive, PTL

\* No step takes a key that still has its user out of the directory.
StaysKnown ==
  \A k \in Keys : entries[k] \in Users /\ owner[k] \in Users => entries'[k] \in Users

LEMMA NoneForgotten == ASSUME IInv, [Next]_vars PROVE StaysKnown
<1>1. CASE entries' = entries
  BY <1>1 DEF StaysKnown
<1>2. CASE Scan /\ ~Broken
  <2>1. /\ rpc = "scan" /\ entries' = NextEntries /\ \A k \in Keys : rows[k] # Null
    BY <1>2 DEF Scan
  <2> SUFFICES ASSUME NEW k \in Keys, entries[k] \in Users, owner[k] \in Users
               PROVE  rows[k] \in Users
    BY <2>1 DEF StaysKnown, NextEntries
  <2>2. rows[k] # Free /\ rows[k] # Deleted
    BY <2>1, ConstantsAssumption DEF IInv, KeyLife
  <2> QED BY <2>1, <2>2 DEF IInv, Types, Owners
<1>3. entries' = entries \/ (Scan /\ ~Broken)
  BY DEF Next, vars, Database, Tick, Query, Scan, Broken, RefreshFails, ChangeKey, Bill,
         ResolveRequestID, Persist, Arrive, Frame, Enqueue, refresher
<1> QED BY <1>1, <1>2, <1>3

\* A refresh that fails at the query or among the rows, one that runs while keys change,
\* and any other step leave a known key that still has its user known: the directory
\* never answers "unknown" for it.
THEOREM KnownKeysStayKnown == SafeSpec => KnownKeyStaysKnown
<1>1. IInv /\ [Next]_vars => [StaysKnown]_vars
  BY NoneForgotten
<1>2. SafeSpec => [][StaysKnown]_vars
  BY <1>1, Inductive, PTL DEF SafeSpec
<1> QED BY <1>2 DEF KnownKeyStaysKnown, StaysKnown
=============================================================================
