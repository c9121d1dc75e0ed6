---------------------------- MODULE StoreProofs ----------------------------
(***************************************************************************)
(* Proofs about the store: its table as the admin API sees it             *)
(* (ReviewTable) and its schema gate (StoreSchema, RecordWriter).          *)
(*                                                                         *)
(* Every set of records, reviewers and filters and every page size: the    *)
(* answer to a review, and what a walk through the pages of List can miss. *)
(* The walk rests on facts about ranks in a finite set of numbers, which   *)
(* are proved first.                                                       *)
(*                                                                         *)
(* Every set of callers and every length of the window: what makes the     *)
(* safety of the gate inductive is the mutex.  Whoever is past Lock holds  *)
(* it, so a failure or a success of one caller finds no other caller       *)
(* between its decision and its database call.  The insert loop of         *)
(* RecordWriter follows, whose steps at the gate are steps of StoreSchema. *)
(***************************************************************************)
EXTENDS ReviewTable, RecordWriter, FiniteSetTheorems, TLAPS

(* Ranks *)

Above(M, r) == {x \in M : x > r}
Rank(M, r)  == Cardinality(Above(M, r))

LEMMA RankType ==
  ASSUME NEW M, IsFiniteSet(M), NEW r
  PROVE  IsFiniteSet(Above(M, r)) /\ Rank(M, r) \in Nat
<1>1. Above(M, r) \in SUBSET M BY DEF Above
<1> QED BY <1>1, FS_Subset, FS_CardinalityType DEF Rank

\* More records never move a record forward.
LEMMA RankGrows ==
  ASSUME NEW M, NEW N, M \subseteq N, IsFiniteSet(N), NEW r
  PROVE  Rank(M, r) <= Rank(N, r)
<1>1. Above(M, r) \in SUBSET Above(N, r) BY DEF Above
<1> QED BY <1>1, RankType, FS_Subset DEF Rank

\* A member has fewer records above it than there are.
LEMMA RankBound ==
  ASSUME NEW M, IsFiniteSet(M), NEW r \in M, M \subseteq Nat
  PROVE  Rank(M, r) < Cardinality(M)
<1>1. Above(M, r) \in SUBSET (M \ {r}) BY DEF Above
<1>2. IsFiniteSet(M \ {r}) /\ Cardinality(M \ {r}) = Cardinality(M) - 1
  BY FS_RemoveElement
<1>3. Rank(M, r) <= Cardinality(M \ {r}) BY <1>1, <1>2, FS_Subset DEF Rank
<1>4. Rank(M, r) \in Nat /\ Cardinality(M) \in Nat BY RankType, FS_CardinalityType
<1> QED BY <1>2, <1>3, <1>4

\* The later of two members has the smaller rank.
LEMMA RankFalls ==
  ASSUME NEW M, IsFiniteSet(M), M \subseteq Nat, NEW x \in M, NEW y \in M, x < y
  PROVE  Rank(M, y) < Rank(M, x)
<1> DEFINE A == Above(M, x)
<1>1. y \in A /\ A \subseteq Nat /\ IsFiniteSet(A) BY RankType DEF Above
<1>2. Above(M, y) = Above(A, y)
  <2>1. \A z \in M : z > y => z > x OBVIOUS
  <2> QED BY <2>1 DEF Above
<1> HIDE DEF A
<1>3. Rank(A, y) < Cardinality(A) BY <1>1, RankBound
<1> QED BY <1>2, <1>3 DEF Rank, A

\* Of M records no more than l have a rank of t or more when there are at most t + l.
LEMMA TailIsShort ==
  ASSUME NEW M, IsFiniteSet(M), M \subseteq Nat, NEW U, U \subseteq M,
         NEW t \in Nat, NEW l \in Nat, Cardinality(M) <= t + l,
         \A r \in U : Rank(M, r) >= t
  PROVE  Cardinality(U) <= l
<1> DEFINE I == t..(t + l - 1)
           f == [r \in U |-> Rank(M, r)]
<1>1. ASSUME NEW r \in U PROVE Rank(M, r) \in I
  <2>1. r \in M /\ Rank(M, r) \in Nat /\ Cardinality(M) \in Nat BY RankType, FS_CardinalityType
  <2>2. Rank(M, r) < Cardinality(M) BY <2>1, RankBound
  <2> QED BY <2>1, <2>2
<1>2. ASSUME NEW x \in U, NEW y \in U, Rank(M, x) = Rank(M, y) PROVE x = y
  <2>1. x \in M /\ y \in M /\ x \in Nat /\ y \in Nat OBVIOUS
  <2>2. Rank(M, x) \in Nat /\ Rank(M, y) \in Nat BY RankType
  <2>3. x < y => Rank(M, y) < Rank(M, x) BY <2>1, RankFalls, Zenon
  <2>4. y < x => Rank(M, x) < Rank(M, y) BY <2>1, RankFalls, Zenon
  <2> QED BY <1>2, <2>1, <2>2, <2>3, <2>4
<1>3. IsFiniteSet(I) /\ Cardinality(I) = l
  <2>1. t \in Int /\ t + l - 1 \in Int OBVIOUS
  <2>2. IsFiniteSet(t..(t + l - 1)) BY <2>1, FS_Interval
  <2>3. Cardinality(t..(t + l - 1)) = IF t > t + l - 1 THEN 0 ELSE (t + l - 1) - t + 1
    BY <2>1, FS_Interval
  <2> QED BY <2>2, <2>3
<1> HIDE DEF I
<1>4. f \in Injection(U, I) BY <1>1, <1>2 DEF Injection, IsInjective
<1> HIDE DEF f
<1> QED BY <1>3, <1>4, FS_Injection
-----------------------------------------------------------------------------
(* Types *)

Reviews == [status : Statuses, stamped : BOOLEAN, write : Nat]

ReviewTyped ==
  /\ now \in Nat /\ days \in Nat /\ writes \in Nat
  /\ rows \subseteq inserted /\ inserted \subseteq Records
  /\ review \in [Records -> Reviews]
  /\ limit \in 1..MaxLimit /\ offset \in Nat /\ total \in Nat /\ late \subseteq inserted
  /\ rpc \in [Reviewers -> {"idle", "update", "get"}]
  /\ target \in [Reviewers -> Records \cup {NoRecord}]
  /\ status \in [Reviewers -> Statuses]
  /\ own \in [Reviewers -> Nat] /\ shown \in [Reviewers -> Nat]

\* Whatever limit a request asks for, a page holds between one record and MaxLimit.
LEMMA LimitInRange ==
  ASSUME NEW raw \in Int PROVE Limit(raw) \in 1..MaxLimit
BY LimitsAssumption DEF Limit

LEMMA InitTyped == ReviewInit => ReviewTyped
<1> SUFFICES ASSUME ReviewInit PROVE ReviewTyped
  OBVIOUS
<1>1. Unreviewed \in Reviews
  BY DEF Unreviewed, Reviews, Statuses
<1> QED BY <1>1, RecordsAssumption, LimitsAssumption DEF ReviewInit, ReviewTyped, Statuses

LEMMA WriteTyped ==
  ASSUME ReviewTyped, NEW v \in Reviewers, Write(v), rpc[v] = "update", target[v] \in Records
  PROVE  writes' \in Nat /\ own' \in [Reviewers -> Nat] /\ review' \in [Records -> Reviews]
<1>1. writes' \in Nat /\ own' \in [Reviewers -> Nat]
  BY DEF ReviewTyped, Write
<1>2. [status |-> status[v], stamped |-> status[v] # "pending", write |-> writes + 1] \in Reviews
  BY DEF ReviewTyped, Reviews
<1> QED BY <1>1, <1>2 DEF ReviewTyped, Write

\* The record of a call under way was in the table at some time.
Targets == \A v \in Reviewers : rpc[v] # "idle" => target[v] \in inserted

LEMMA MatchingFinite ==
  /\ ReviewTyped => Matching \subseteq Nat /\ IsFiniteSet(Matching)
  /\ ReviewTyped' => Matching' \subseteq Nat /\ IsFiniteSet(Matching')
<1>1. ReviewTyped => Matching \in SUBSET Records BY DEF ReviewTyped, Matching
<1>2. ReviewTyped' => Matching' \in SUBSET Records BY DEF ReviewTyped, Matching
<1> QED BY <1>1, <1>2, RecordsAssumption, FS_Subset, Zenon

\* The offset of the last page: a page from there on reaches the end.
LEMMA LastOffsetReachesEnd ==
  ASSUME ReviewTyped PROVE LastOffset \in Nat /\ LastOffset + limit >= total
<1>1. total \in Nat /\ limit \in Nat /\ limit > 0 BY LimitsAssumption DEF ReviewTyped
<1>2. ASSUME total # 0 PROVE (total - 1) % limit \in 0..(limit - 1) /\ (total - 1) % limit <= total - 1
  BY <1>1, <1>2
<1> QED BY <1>1, <1>2 DEF LastOffset

LEMMA TypedStep ==
  ASSUME ReviewTyped, Targets, [ReviewNext]_reviewVars PROVE ReviewTyped' /\ Targets'
<1> USE RecordsAssumption DEF ReviewTyped, Targets, table, walk, reviewing, pageFrame, Goto
<1>1. CASE DatabaseTurns BY <1>1 DEF DatabaseTurns
<1>2. CASE Clock BY <1>2 DEF Clock
<1>3. CASE Cleanup BY <1>3, Zenon DEF Cleanup
<1>4. CASE ListCount
  <2>1. Cardinality(Matching) \in Nat BY MatchingFinite, FS_CardinalityType
  <2> QED BY <1>4, <2>1 DEF ListCount
<1>5. CASE ListPage
  <2>1. LastOffset \in Nat BY LastOffsetReachesEnd
  <2>2. offset' \in Nat BY <1>5, <2>1, LimitsAssumption DEF ListPage, PageIsPast, PageIsShown
  <2>3. late' \subseteq inserted BY <1>5 DEF ListPage, PageIsPast, PageIsShown
  <2> QED BY <1>5, <2>2, <2>3 DEF ListPage
<1>6. CASE ListFails
  <2>1. offset' \in Nat BY <1>6, LimitsAssumption DEF ListFails
  <2> QED BY <1>6, <2>1 DEF ListFails
<1>7. ASSUME NEW r \in Records, Insert(r) PROVE ReviewTyped' /\ Targets'
  BY <1>7 DEF Insert
<1>8. ASSUME NEW f \in Filters, NEW raw \in RawLimits, StartWalk(f, raw)
      PROVE  ReviewTyped' /\ Targets'
  <2>1. raw \in Int BY LimitsAssumption
  <2> QED BY <1>8, <2>1, LimitInRange DEF StartWalk
<1>9. ASSUME NEW v \in Reviewers, Update(v) PROVE ReviewTyped' /\ Targets'
  <2>1. target[v] \in Records BY <1>9, Zenon DEF Update
  <2>2. /\ writes' \in Nat /\ own' \in [Reviewers -> Nat] /\ review' \in [Records -> Reviews]
    BY <1>9, <2>1, WriteTyped DEF Update
  <2> QED BY <1>9, <2>2 DEF Update
<1>10. ASSUME NEW v \in Reviewers, Get(v) PROVE ReviewTyped' /\ Targets'
  BY <1>10, Zenon DEF Get, Reviews
<1>11. ASSUME NEW v \in Reviewers, NEW r \in inserted, NEW s \in Verdicts, Patch(v, r, s)
       PROVE  ReviewTyped' /\ Targets'
  BY <1>11 DEF Patch
<1>12. CASE UNCHANGED reviewVars BY <1>12 DEF reviewVars
<1> QED BY <1>1, <1>2, <1>3, <1>4, <1>5, <1>6, <1>7, <1>8, <1>9, <1>10, <1>11, <1>12, Zenon DEF ReviewNext

LEMMA TypeCorrect == ReviewSafeSpec => [](ReviewTyped /\ Targets)
<1>1. ReviewInit => Targets BY DEF ReviewInit, Targets
<1>2. ReviewTyped /\ Targets /\ [ReviewNext]_reviewVars => (ReviewTyped /\ Targets)' BY TypedStep
<1> QED BY <1>1, <1>2, InitTyped, PTL DEF ReviewSafeSpec
-----------------------------------------------------------------------------
(* Reviews *)

\* Between the UPDATE and the SELECT of a call the record it wrote, if it is still there,
\* carries that review or a later one; it cannot be deleted and come back.
AnswerInv ==
  \A v \in Reviewers :
    /\ own[v] <= writes
    /\ rpc[v] # "idle" => shown[v] = 0
    /\ rpc[v] = "get" /\ target[v] \in rows => review[target[v]].write >= own[v]
    /\ shown[v] # 0 => shown[v] >= own[v]

\* The variables of the reviews.
reviewState == <<rows, review, writes, rpc, target, own, shown>>

LEMMA AnswerStep ==
  ASSUME ReviewTyped, Targets, AnswerInv, [ReviewNext]_reviewVars PROVE AnswerInv'
<1> USE RecordsAssumption DEF ReviewTyped, Targets, AnswerInv
<1>1. CASE UNCHANGED reviewState BY <1>1 DEF reviewState
<1>2. CASE DatabaseTurns \/ Clock \/ ListCount \/ ListPage \/ ListFails \/ UNCHANGED reviewVars
  BY <1>1, <1>2, Zenon
     DEF DatabaseTurns, Clock, ListCount, ListPage, ListFails, pageFrame, reviewVars, table,
         walk, reviewing, reviewState
<1>3. CASE Cleanup BY <1>3 DEF Cleanup, reviewing
<1>4. ASSUME NEW r \in Records, Insert(r) PROVE AnswerInv'
  BY <1>4 DEF Insert, reviewing
<1>5. ASSUME NEW f \in Filters, NEW raw \in RawLimits, StartWalk(f, raw) PROVE AnswerInv'
  BY <1>1, <1>5, Zenon DEF StartWalk, table, reviewing, reviewState
<1>6. ASSUME NEW v \in Reviewers, Update(v) PROVE AnswerInv'
  <2>1. CASE UNCHANGED <<writes, own, review>> /\ Goto(v, "idle")
    BY <1>6, <2>1 DEF Update, Goto, table
  <2>2. CASE Write(v) /\ (Goto(v, "get") \/ Goto(v, "idle"))
    <3>1. target[v] \in Records /\ UNCHANGED <<rows, target, shown>> /\ rpc[v] = "update"
      BY <1>6, Zenon DEF Update, table
    <3>2. /\ writes' = writes + 1 /\ own' = [own EXCEPT ![v] = writes + 1]
          /\ \A r \in Records : review[r].write \in Nat
          /\ \A r \in Records : r # target[v] => review'[r].write = review[r].write
          /\ target[v] \in rows => review'[target[v]].write = writes + 1
          /\ target[v] \notin rows => review' = review
      BY <2>2, <3>1, Zenon DEF Write, Reviews
    <3>3. rpc'[v] # "update" /\ \A w \in Reviewers : w # v => rpc'[w] = rpc[w]
      BY <2>2 DEF Goto
    <3>4. /\ writes \in Nat /\ shown[v] = 0 /\ own'[v] = writes + 1
          /\ \A w \in Reviewers : own[w] \in Nat /\ own[w] <= writes
          /\ \A w \in Reviewers : w # v => own'[w] = own[w]
      BY <3>1, <3>2, Zenon
    <3>5. ASSUME NEW w \in Reviewers
          PROVE  /\ own'[w] <= writes'
                 /\ rpc'[w] # "idle" => shown'[w] = 0
                 /\ rpc'[w] = "get" /\ target'[w] \in rows' =>
                      review'[target'[w]].write >= own'[w]
                 /\ shown'[w] # 0 => shown'[w] >= own'[w]
      <4>1. /\ rpc[w] # "idle" => shown[w] = 0 /\ target[w] \in Records
            /\ rpc[w] = "get" /\ target[w] \in rows => review[target[w]].write >= own[w]
            /\ shown[w] # 0 => shown[w] >= own[w]
        BY Zenon
      <4> HIDE DEF ReviewTyped, Targets, AnswerInv
      <4>2. CASE w = v
        <5>1. target[v] \in rows => review'[target[v]].write = own'[v] BY <3>2, <3>4
        <5> QED BY <3>1, <3>2, <3>4, <4>2, <5>1
      <4>3. CASE w # v
        <5>1. rpc'[w] = rpc[w] /\ own'[w] = own[w] BY <3>3, <3>4, <4>3
        <5>2. ASSUME rpc[w] = "get", target[w] \in rows
              PROVE  review'[target[w]].write >= own[w]
          <6>1. CASE target[w] = target[v]
            <7>1. review'[target[w]].write = writes + 1 BY <3>2, <5>2, <6>1
            <7> QED BY <3>4, <7>1
          <6>2. CASE target[w] # target[v]
            <7>1. review'[target[w]].write = review[target[w]].write BY <3>2, <4>1, <5>2, <6>2, Zenon
            <7> QED BY <4>1, <5>2, <7>1
          <6> QED BY <6>1, <6>2
        <5> QED BY <3>1, <3>2, <3>4, <4>1, <5>1, <5>2
      <4> QED BY <4>2, <4>3
    <3> QED BY <3>5, Zenon
  <2> QED BY <1>6, <2>1, <2>2, Zenon DEF Update
<1>7. ASSUME NEW v \in Reviewers, Get(v) PROVE AnswerInv'
  BY <1>7 DEF Get, Goto, table, Reviews
<1>8. ASSUME NEW v \in Reviewers, NEW r \in inserted, NEW s \in Verdicts, Patch(v, r, s)
      PROVE  AnswerInv'
  BY <1>8 DEF Patch, Goto, table
<1> QED BY <1>2, <1>3, <1>4, <1>5, <1>6, <1>7, <1>8, Zenon DEF ReviewNext

\* The answer to a review is never older than the review, for any number of reviewers of
\* the same record and whatever retention deletes between the two statements.
THEOREM AnswersAreOwnOrLater == ReviewSafeSpec => []AnswerIsOwnOrLater
<1>1. ReviewInit => AnswerInv BY DEF ReviewInit, AnswerInv
<1>2. ReviewTyped /\ Targets /\ AnswerInv /\ [ReviewNext]_reviewVars => AnswerInv' BY AnswerStep
<1>3. AnswerInv => AnswerIsOwnOrLater BY DEF AnswerInv, AnswerIsOwnOrLater
<1> QED BY <1>1, <1>2, <1>3, TypeCorrect, PTL DEF ReviewSafeSpec
-----------------------------------------------------------------------------
(* The walk *)

LEMMA PositionIsRank == ASSUME NEW r PROVE Position(r) = Rank(Matching, r)
BY DEF Position, Rank, Above

\* A walk that asks for no status does not look at the reviews.
LEMMA MatchingWithoutStatus ==
  ASSUME filter.status = AnyStatus, filter' = filter
  PROVE  /\ Matching = {r \in rows : r >= filter.from /\ r < filter.to}
         /\ Matching' = {r \in rows' : r >= filter.from /\ r < filter.to}
BY DEF Matching, Matches

\* Every record that was there all along and was not shown yet stands at the offset of the
\* next page or behind the largest offset; between the two statements of List only records
\* that arrived after the first one exceed the total.
WalkInv ==
  filter.status = AnyStatus =>
    /\ steady \subseteq Matching
    /\ lpc \in {"count", "select"} =>
         \A r \in steady \ seen : Position(r) >= offset \/ Position(r) >= MaxOffset + limit
    /\ lpc = "select" => Cardinality(Matching) <= total + Cardinality(late)
    /\ lpc = "done" => Cardinality(Missed) <= Cardinality(late)

LEMMA PositionType == ReviewTyped => \A r : Position(r) \in Nat
BY PositionIsRank, MatchingFinite, RankType

LEMMA LateFinite ==
  /\ ReviewTyped => IsFiniteSet(late) /\ Cardinality(late) \in Nat
  /\ ReviewTyped' => IsFiniteSet(late') /\ Cardinality(late') \in Nat
<1>1. ReviewTyped => late \in SUBSET Records BY DEF ReviewTyped
<1>2. ReviewTyped' => late' \in SUBSET Records BY DEF ReviewTyped
<1> QED BY <1>1, <1>2, RecordsAssumption, FS_Subset, FS_CardinalityType, Zenon

\* No record that stays moves forward.
LEMMA PositionsGrow ==
  ASSUME ReviewTyped, ReviewTyped', WalkInv, filter.status = AnyStatus,
         UNCHANGED <<filter, limit, offset, seen, lpc>>,
         steady' \subseteq steady, steady' \subseteq Matching',
         \A r \in steady' : Rank(Matching, r) <= Rank(Matching', r),
         lpc = "select" => Cardinality(Matching') <= total' + Cardinality(late'),
         lpc = "done" => late' = late
  PROVE  WalkInv'
<1>1. ASSUME NEW r \in steady'
      PROVE  /\ Position(r) <= Position(r)' /\ Position(r) \in Nat /\ Position(r)' \in Nat
  <2>1. Position(r) = Rank(Matching, r) /\ Position(r)' = Rank(Matching', r)
    BY DEF Position, Rank, Above
  <2>2. IsFiniteSet(Matching) /\ IsFiniteSet(Matching') BY MatchingFinite
  <2> QED BY <2>1, <2>2, RankType
<1>2. limit \in Nat /\ offset \in Nat /\ MaxOffset \in Nat BY LimitsAssumption DEF ReviewTyped
<1>3. lpc' \in {"count", "select"} =>
        \A r \in steady' \ seen' : \/ Position(r)' >= offset'
                                   \/ Position(r)' >= MaxOffset + limit'
  BY <1>1, <1>2 DEF WalkInv
<1>4. ASSUME lpc' = "done" PROVE Cardinality(Missed') <= Cardinality(late')
  <2>1. Missed' \in SUBSET Missed BY <1>1, <1>2 DEF Missed
  <2>2. Missed \in SUBSET Matching BY DEF WalkInv, Missed
  <2>3. IsFiniteSet(Missed) BY <2>2, MatchingFinite, FS_Subset
  <2>4. /\ Cardinality(Missed') <= Cardinality(Missed)
        /\ Cardinality(Missed') \in Nat /\ Cardinality(Missed) \in Nat
    BY <2>1, <2>3, FS_Subset, FS_CardinalityType
  <2>5. Cardinality(Missed) <= Cardinality(late) BY <1>4 DEF WalkInv
  <2> QED BY <1>4, <2>4, <2>5, LateFinite
<1> QED BY <1>3, <1>4 DEF WalkInv

LEMMA WalkPage ==
  ASSUME ReviewTyped, WalkInv, ListPage, filter.status = AnyStatus
  PROVE  WalkInv'
<1> DEFINE at == Clamp(offset)
<1>1. /\ at \in Nat /\ at <= MaxOffset /\ (at # offset => at = MaxOffset) /\ at <= offset
      /\ limit \in Nat /\ offset \in Nat /\ MaxOffset \in Nat /\ total \in Nat
  BY LimitsAssumption DEF ReviewTyped, Clamp
<1>2. UNCHANGED <<rows, review, filter, limit, steady>> /\ lpc = "select"
  BY DEF ListPage, pageFrame, table
<1>3. Matching' = Matching /\ \A r : Position(r)' = Position(r)
  BY <1>2 DEF Matching, Matches, Position
<1>4. LastOffset \in Nat /\ LastOffset + limit >= total BY LastOffsetReachesEnd
<1>5. \A r : Position(r) \in Nat BY PositionType
<1>6. steady \subseteq Matching /\ Cardinality(Matching) <= total + Cardinality(late)
  BY <1>2 DEF WalkInv
<1>7. \A r \in steady \ seen : Position(r) >= offset \/ Position(r) >= MaxOffset + limit
  BY <1>2 DEF WalkInv
<1>8. CASE PageIsPast
  BY <1>1, <1>2, <1>3, <1>4, <1>5, <1>6, <1>7, <1>8 DEF WalkInv, PageIsPast
<1>9. CASE PageIsShown
  <2>1. seen' = seen \cup Page(at) BY <1>9 DEF PageIsShown
  <2> HIDE DEF at
  <2>2. ASSUME NEW r \in steady \ seen' PROVE Position(r) >= at + limit
    <3>1. r \in Matching /\ r \notin Page(at) /\ r \in steady \ seen BY <1>6, <2>1, <2>2
    <3>2. Position(r) >= at BY <1>1, <1>5, <1>7, <3>1
    <3> QED BY <1>1, <1>5, <3>1, <3>2 DEF Page
  <2>3. CASE lpc' = "count" /\ offset' = offset + limit
    BY <1>1, <1>2, <1>3, <1>5, <1>6, <2>2, <2>3 DEF WalkInv
  <2>4. CASE lpc' = "done" /\ late' = late /\ offset = LastOffset
    <3>1. Missed' \subseteq Matching /\ \A r \in Missed' : r \in steady \ seen' /\ Position(r) < MaxOffset + limit
      BY <1>2, <1>3, <1>6 DEF Missed
    <3>2. ASSUME NEW r \in Missed' PROVE Rank(Matching, r) >= total
      <4>1. Position(r) >= at + limit /\ Position(r) < MaxOffset + limit BY <2>2, <3>1
      <4>2. at = offset BY <1>1, <1>5, <4>1
      <4>3. Position(r) >= total BY <1>1, <1>4, <1>5, <2>4, <4>1, <4>2
      <4> QED BY <4>3, PositionIsRank
    <3>3. Cardinality(Missed') <= Cardinality(late)
      BY <1>1, <1>6, <3>1, <3>2, TailIsShort, MatchingFinite, LateFinite
    <3> QED BY <1>2, <1>3, <1>6, <2>4, <3>3 DEF WalkInv
  <2>5. (lpc' = "count" /\ offset' = offset + limit) \/ (lpc' = "done" /\ late' = late /\ offset = LastOffset)
    BY <1>1, <1>4, <1>9 DEF PageIsShown
  <2> QED BY <2>3, <2>4, <2>5
<1> QED BY <1>8, <1>9 DEF ListPage

\* An arrival between the two statements of List counts as late.
LEMMA WalkInsert ==
  ASSUME ReviewTyped, ReviewTyped', WalkInv, filter.status = AnyStatus,
         NEW r \in Records, Insert(r)
  PROVE  WalkInv'
<1>1. /\ rows' = rows \cup {r} /\ r \notin inserted
      /\ UNCHANGED <<filter, review, limit, offset, seen, steady, lpc, total>>
      /\ late' = IF lpc = "select" /\ Matches(r, filter) THEN late \cup {r} ELSE late
  BY DEF Insert
<1>2. Matching' = IF Matches(r, filter) THEN Matching \cup {r} ELSE Matching
  BY <1>1 DEF Matching, Matches
<1>3. \A x : Rank(Matching, x) <= Rank(Matching', x)
  BY <1>2, MatchingFinite, RankGrows
<1>4. ASSUME lpc = "select" PROVE Cardinality(Matching') <= total' + Cardinality(late')
  <2>1. r \notin Matching /\ r \notin late BY <1>1 DEF ReviewTyped, Matching
  <2>2. /\ IsFiniteSet(Matching) /\ IsFiniteSet(late) /\ total \in Nat
        /\ Cardinality(Matching) \in Nat /\ Cardinality(late) \in Nat
    BY MatchingFinite, LateFinite, FS_CardinalityType DEF ReviewTyped
  <2>3. /\ Cardinality(Matching \cup {r}) = Cardinality(Matching) + 1
        /\ Cardinality(late \cup {r}) = Cardinality(late) + 1
    BY <2>1, <2>2, FS_AddElement
  <2>4. Cardinality(Matching) <= total + Cardinality(late) BY <1>4 DEF WalkInv
  <2> QED BY <1>1, <1>2, <1>4, <2>2, <2>3, <2>4
<1>5. steady' \subseteq Matching' BY <1>1, <1>2 DEF WalkInv
<1> QED BY <1>1, <1>3, <1>4, <1>5, PositionsGrow

\* What the clean-up deletes stands behind everything that stays.
LEMMA WalkCleanup ==
  ASSUME ReviewTyped, ReviewTyped', WalkInv, filter.status = AnyStatus, Cleanup
  PROVE  WalkInv'
<1>1. /\ rows' = {x \in rows : ~Expired(x)} /\ steady' = steady \cap rows'
      /\ UNCHANGED <<filter, limit, offset, seen, lpc, total, late>>
  BY DEF Cleanup
<1>2. Matching' = {x \in Matching : x \in rows'}
  BY <1>1, MatchingWithoutStatus
<1>3. steady' \subseteq Matching' BY <1>1, <1>2 DEF WalkInv
<1>4. ASSUME NEW x \in steady' PROVE Above(Matching', x) = Above(Matching, x)
  <2>1. x \in rows /\ ~Expired(x) /\ x \in Nat
    BY <1>1, <1>4, RecordsAssumption, Zenon DEF ReviewTyped
  <2>2. ASSUME NEW y \in Matching, y > x PROVE y \in rows'
    <3>1. y \in rows /\ y \in Nat BY RecordsAssumption DEF Matching, ReviewTyped
    <3>2. ~Expired(y) BY <2>1, <2>2, <3>1 DEF Expired, ReviewTyped
    <3> QED BY <1>1, <3>1, <3>2
  <2> QED BY <1>2, <2>2 DEF Above
<1>5. \A x \in steady' : Rank(Matching, x) <= Rank(Matching', x)
  <2>1. \A x : Rank(Matching, x) \in Nat BY MatchingFinite, RankType
  <2> QED BY <1>4, <2>1 DEF Rank
<1>6. ASSUME lpc = "select" PROVE Cardinality(Matching') <= total' + Cardinality(late')
  <2>1. Matching' \in SUBSET Matching BY <1>2
  <2>2. /\ Cardinality(Matching') <= Cardinality(Matching)
        /\ Cardinality(Matching') \in Nat /\ Cardinality(Matching) \in Nat
    BY <2>1, MatchingFinite, FS_Subset, FS_CardinalityType
  <2>3. Cardinality(Matching) <= total + Cardinality(late) BY <1>6 DEF WalkInv
  <2> QED BY <1>1, <2>2, <2>3, LateFinite DEF ReviewTyped
<1> QED BY <1>1, <1>3, <1>5, <1>6, PositionsGrow

LEMMA WalkStep ==
  ASSUME ReviewTyped, ReviewTyped', WalkInv, [ReviewNext]_reviewVars PROVE WalkInv'
<1> SUFFICES ASSUME filter'.status = AnyStatus PROVE WalkInv'
  BY DEF WalkInv
<1>1. ASSUME NEW f \in Filters, NEW raw \in RawLimits, StartWalk(f, raw) PROVE WalkInv'
  <2>1. steady' = Matching' /\ offset' = 0 /\ lpc' = "count"
    BY <1>1 DEF StartWalk, Matching, Matches, table
  <2>2. ASSUME NEW r PROVE Position(r)' \in Nat
    <3>1. Position(r)' = Rank(Matching', r) /\ IsFiniteSet(Matching')
      BY MatchingFinite DEF Position, Rank, Above
    <3> QED BY <3>1, RankType
  <2> QED BY <2>1, <2>2 DEF WalkInv
<1>2. CASE ListPage
  BY <1>2, WalkPage DEF ListPage, pageFrame
<1>3. ASSUME UNCHANGED <<rows, filter>>
      PROVE  Matching' = Matching /\ \A r : Position(r)' = Position(r)
  <2>1. Matching' = Matching BY <1>3, MatchingWithoutStatus
  <2> QED BY <2>1 DEF Position
<1>4. CASE ListCount \/ ListFails
  <2>1. UNCHANGED <<rows, filter, limit, seen, steady>> /\ lpc \in {"count", "select"}
    BY <1>4 DEF ListCount, ListFails, pageFrame, table
  <2>2. CASE ListFails
    <3>1. lpc' = "count" /\ offset' \in Nat /\ offset' <= offset /\ offset \in Nat
      BY <2>2, LimitsAssumption DEF ListFails, ReviewTyped
    <3>2. \A r : Position(r) \in Nat BY PositionType
    <3> QED BY <1>3, <2>1, <3>1, <3>2 DEF WalkInv
  <2>3. CASE ListCount
    <3>1. lpc' = "select" /\ total' = Cardinality(Matching) /\ late' = {} /\ offset' = offset
      BY <2>3 DEF ListCount
    <3>2. Cardinality(late') = 0 /\ total' \in Nat BY <3>1, FS_EmptySet DEF ReviewTyped
    <3>3. Matching' = Matching BY <1>3, <2>1
    <3>4. Cardinality(Matching') <= total' + Cardinality(late') BY <3>1, <3>2, <3>3
    <3> QED BY <1>3, <2>1, <3>1, <3>4 DEF WalkInv
  <2> QED BY <1>4, <2>2, <2>3
<1>5. CASE UNCHANGED <<rows, walk>>
  <2>1. UNCHANGED <<rows, filter, limit, offset, seen, steady, lpc, total, late>>
    BY <1>5 DEF walk
  <2> QED BY <1>3, <2>1 DEF WalkInv, Missed
<1>6. CASE DatabaseTurns \/ Clock \/ UNCHANGED reviewVars
  BY <1>5, <1>6 DEF DatabaseTurns, Clock, reviewVars, table
<1>7. ASSUME NEW v \in Reviewers,
             Update(v) \/ Get(v) \/ \E r \in inserted, s \in Verdicts : Patch(v, r, s)
      PROVE  WalkInv'
  BY <1>5, <1>7, Zenon DEF Update, Get, Patch, table
<1>8. ASSUME NEW r \in Records, Insert(r) PROVE WalkInv'
  BY <1>8, WalkInsert DEF Insert
<1>9. CASE Cleanup
  BY <1>9, WalkCleanup DEF Cleanup
<1> QED BY <1>1, <1>2, <1>4, <1>6, <1>7, <1>8, <1>9 DEF ReviewNext

\* A user who pages through the records misses no more of those that were there all along
\* than arrived between the two statements of the last page, for any filter without a
\* status, any page size and any arrivals and deletions meanwhile, up to the largest
\* offset that List accepts.
THEOREM WalksMissOnlyForLate == ReviewSafeSpec => []WalkMissesOnlyForLate
<1>1. ReviewInit => WalkInv BY DEF ReviewInit, WalkInv
<1>2. ReviewTyped /\ ReviewTyped' /\ WalkInv /\ [ReviewNext]_reviewVars => WalkInv' BY WalkStep
<1>3. WalkInv => WalkMissesOnlyForLate BY DEF WalkInv, WalkMissesOnlyForLate
<1> QED BY <1>1, <1>2, <1>3, TypeCorrect, PTL DEF ReviewSafeSpec

-----------------------------------------------------------------------------
(* The schema gate *)

\* schemaMu belongs to the caller between Lock and Return.
Mutex == \A c \in Callers : pc[c] \in {"held", "ping", "exec"} <=> mu = c

\* A caller goes to the database only while the gate is shut, and a window is open
\* only because of a remembered error.
Gate ==
  /\ \A c \in Callers : pc[c] \in {"ping", "exec"} => ~ready /\ window = 0
  /\ window > 0 => failed
  /\ ready => tables /\ ~failed
  /\ \A c \in Callers : result[c] = "ok" => tables

Inv == TypeOK /\ Mutex /\ Gate

LEMMA InitInv == Init => Inv
<1> SUFFICES ASSUME Init PROVE Inv
  OBVIOUS
<1>1. up \in BOOLEAN /\ tables \in BOOLEAN /\ ready \in BOOLEAN /\ failed \in BOOLEAN
      /\ ~ready /\ ~failed
  BY Zenon DEF Init
<1>2. /\ window = 0 /\ window \in 0..Backoff /\ mu = NoCaller /\ ended \subseteq Callers
      /\ pc = [c \in Callers |-> "idle"] /\ result = [c \in Callers |-> "none"]
  BY SchemaAssumption DEF Init
<1>3. TypeOK
  BY <1>1, <1>2 DEF TypeOK
<1>4. Mutex
  BY <1>2, SchemaAssumption, Zenon DEF Mutex
<1>5. Gate
  BY <1>1, <1>2 DEF Gate
<1> QED BY <1>3, <1>4, <1>5 DEF Inv

\* Steps that move no caller past the mutex and leave the gate alone.
LEMMA OutsideStep ==
  ASSUME Inv,
         \/ Database \/ Tick
         \/ \E c \in Callers : EndContext(c) \/ Call(c) \/ Lock(c)
  PROVE  Inv'
<1> USE SchemaAssumption
<1>1. CASE Database
  <2>1. up' \in BOOLEAN
    BY <1>1, Zenon DEF Database
  <2>2. UNCHANGED <<tables, ready, failed, window, mu, pc, result, ended>>
    BY <1>1 DEF Database, gate
  <2> QED BY <2>1, <2>2 DEF Inv, TypeOK, Mutex, Gate
<1>2. CASE Tick
  BY <1>2 DEF Tick, Inv, TypeOK, Mutex, Gate
<1>3. ASSUME NEW c \in Callers, EndContext(c) PROVE Inv'
  BY <1>3 DEF EndContext, gate, Inv, TypeOK, Mutex, Gate
<1>4. ASSUME NEW c \in Callers, Call(c) PROVE Inv'
  BY <1>4 DEF Call, gate, Inv, TypeOK, Mutex, Gate
<1>5. ASSUME NEW c \in Callers, Lock(c) PROVE Inv'
  BY <1>5 DEF Lock, gate, Inv, TypeOK, Mutex, Gate
<1> QED BY <1>1, <1>2, <1>3, <1>4, <1>5

\* The caller that holds the mutex decides, fails or succeeds.
LEMMA InsideStep ==
  ASSUME Inv, NEW c \in Callers, Inside(c)
  PROVE  Inv'
<1> USE SchemaAssumption
<1>1. /\ TypeOK /\ Mutex /\ Gate
      /\ pc \in [Callers -> {"idle", "lock", "held", "ping", "exec"}]
      /\ result \in [Callers -> {"none", "ok", "err"}]
  BY DEF Inv, TypeOK
<1>2. CASE ReturnReady(c)
  BY <1>1, <1>2 DEF ReturnReady, Return, gate, Inv, TypeOK, Mutex, Gate
<1>3. CASE ReturnRemembered(c)
  BY <1>1, <1>3 DEF ReturnRemembered, Return, gate, Inv, TypeOK, Mutex, Gate
<1>4. CASE Contact(c)
  BY <1>1, <1>4 DEF Contact, Remembered, gate, Inv, TypeOK, Mutex, Gate
<1>5. ASSUME pc[c] \in {"ping", "exec"}, Fail(c), tables' \in BOOLEAN, tables => tables'
      PROVE  Inv'
  <2>1. failed' = TRUE /\ window' = Backoff /\ mu' = NoCaller
        /\ pc' = [pc EXCEPT ![c] = "idle"] /\ result' = [result EXCEPT ![c] = "err"]
        /\ ended' = ended \ {c} /\ up' = up /\ ready' = ready
    BY <1>5 DEF Fail, Return
  <2>2. ~ready /\ mu = c
    BY <1>1, <1>5 DEF Mutex, Gate
  <2>3. TypeOK'
    BY <1>1, <1>5, <2>1 DEF TypeOK
  <2>4. Mutex'
    BY <1>1, <2>1, <2>2 DEF Mutex
  <2>5. Gate'
    BY <1>1, <1>5, <2>1, <2>2, <2>4 DEF Gate, Mutex
  <2> QED BY <2>3, <2>4, <2>5 DEF Inv
<1>6. CASE Ping(c)
  <2>1. CASE Answers(c) /\ pc' = [pc EXCEPT ![c] = "exec"]
             /\ UNCHANGED <<up, tables, gate, mu, result, ended>>
    BY <1>1, <1>6, <2>1 DEF Ping, gate, Inv, TypeOK, Mutex, Gate
  <2>2. CASE Fail(c) /\ UNCHANGED tables
    BY <1>1, <1>5, <1>6, <2>2 DEF Ping, TypeOK
  <2> QED BY <1>6, <2>1, <2>2 DEF Ping
<1>7. CASE Exec(c)
  <2>1. CASE /\ tables' = TRUE /\ ready' = TRUE /\ failed' = FALSE /\ window' = 0
             /\ Return(c, "ok") /\ UNCHANGED up
    <3>1. /\ mu' = NoCaller /\ pc' = [pc EXCEPT ![c] = "idle"]
          /\ result' = [result EXCEPT ![c] = "ok"] /\ ended' = ended \ {c}
      BY <2>1 DEF Return
    <3>2. mu = c
      BY <1>1, <1>7 DEF Exec, Mutex
    <3>3. TypeOK'
      <4>1. up' \in BOOLEAN /\ tables' \in BOOLEAN /\ ready' \in BOOLEAN /\ failed' \in BOOLEAN
        BY <1>1, <2>1, Zenon DEF TypeOK
      <4>2. window' \in 0..Backoff
        BY <2>1
      <4> QED BY <1>1, <3>1, <4>1, <4>2 DEF TypeOK
    <3>4. Mutex'
      BY <1>1, <3>1, <3>2 DEF Mutex
    <3>5. Gate'
      BY <1>1, <2>1, <3>1, <3>2, <3>4 DEF Gate, Mutex
    <3> QED BY <3>3, <3>4, <3>5 DEF Inv
  <2>2. CASE Fail(c) /\ tables' \in {tables, TRUE}
    <3>1. tables' \in BOOLEAN /\ (tables => tables')
      <4>1. CASE tables' = tables
        BY <1>1, <4>1 DEF TypeOK
      <4>2. CASE tables' = TRUE
        BY <4>2, Zenon
      <4> QED BY <2>2, <4>1, <4>2, Zenon
    <3>2. pc[c] \in {"ping", "exec"}
      BY <1>7 DEF Exec
    <3> QED BY <1>5, <2>2, <3>1, <3>2
  <2> QED BY <1>7, <2>1, <2>2, Zenon DEF Exec
<1> QED BY <1>2, <1>3, <1>4, <1>6, <1>7 DEF Inside

LEMMA InvCorrect == SafeSpec => []Inv
<1>1. Inv /\ [Next]_vars => Inv'
  <2> SUFFICES ASSUME Inv, [Next]_vars PROVE Inv'
    OBVIOUS
  <2>1. CASE Next
    BY <2>1, OutsideStep, InsideStep DEF Next
  <2>2. CASE UNCHANGED vars
    BY <2>2 DEF vars, gate, Inv, TypeOK, Mutex, Gate
  <2> QED BY <2>1, <2>2
<1> QED BY <1>1, InitInv, PTL DEF SafeSpec

\* ensureSchema returns nil only when the tables exist, for any number of callers.
THEOREM SuccessIsSound == SafeSpec => []SuccessMeansTables
<1>1. Inv => SuccessMeansTables
  BY DEF Inv, Gate, SuccessMeansTables
<1> QED BY <1>1, InvCorrect, PTL

\* While a failure is remembered no caller is between its decision and the end of
\* its database calls, for any number of callers and any length of the window.
THEOREM BackoffIsRespected == SafeSpec => []NoAttemptDuringBackoff
<1>1. Inv => NoAttemptDuringBackoff
  <2> SUFFICES ASSUME Inv, window > 0, NEW c \in Callers, pc[c] \in {"ping", "exec"} PROVE FALSE
    BY Zenon DEF NoAttemptDuringBackoff
  <2>1. window = 0
    BY DEF Inv, Gate
  <2> QED BY <2>1
<1> QED BY <1>1, InvCorrect, PTL
-----------------------------------------------------------------------------
(* The insert loop *)

LEMMA WriterStepsAreGateSteps ==
  ASSUME [WriterNext]_writerVars PROVE [Next]_vars
<1> USE WriterAssumption DEF Next
<1>1. CASE GateStep BY <1>1 DEF GateStep, Others
<1>2. CASE ~GateStep
  BY <1>2 DEF WriterNext, writerVars, WriterTick, TakeRecord, InsertCall, InsertGate,
              InsertExec, InsertAgain
<1> QED BY <1>1, <1>2

LEMMA WriterIsSafe == WriterSafeSpec => SafeSpec
<1>1. WriterInit => Init BY DEF WriterInit
<1>2. [WriterNext]_writerVars => [Next]_vars BY WriterStepsAreGateSteps
<1> QED BY <1>1, <1>2, PTL DEF WriterSafeSpec, SafeSpec

\* The gate keeps both promises while the insert loop with its retries is one of the callers.
THEOREM WriterKeepsGate == WriterSafeSpec => [](SuccessMeansTables /\ NoAttemptDuringBackoff)
BY WriterIsSafe, SuccessIsSound, BackoffIsRespected, PTL

\* While a record is on its way and nothing has gone wrong, every contact would succeed;
\* the loop pauses or gives up only after something went wrong.
WriterInv ==
  /\ trouble \in BOOLEAN
  /\ wpc \in {"attempt", "gate", "exec"} /\ ~trouble => up /\ ended = {} /\ window = 0
  /\ wpc \in {"pause", "failed"} => trouble

\* ensureSchema fails only if the database, the context or a remembered failure is to blame.
LEMMA GateBlames ==
  ASSUME Inv, Inside(Worker), up, ended = {}, window = 0, pc'[Worker] = "idle"
  PROVE  result'[Worker] = "ok"
<1> USE WriterAssumption DEF Inv, TypeOK
<1>1. Answers(Worker) /\ ~Remembered
  BY DEF Answers, Remembered
<1>2. CASE ReturnReady(Worker) BY <1>2 DEF ReturnReady, Return
<1>3. CASE Contact(Worker) BY <1>3 DEF Contact
<1>4. CASE Ping(Worker) BY <1>1, <1>4 DEF Ping
<1>5. CASE Exec(Worker) BY <1>1, <1>5 DEF Exec, Return
<1> QED BY <1>1, <1>2, <1>3, <1>4, <1>5, Zenon DEF Inside, ReturnRemembered

LEMMA WriterStep ==
  ASSUME Inv, Inv', WriterInv, [WriterNext]_writerVars
  PROVE  WriterInv'
<1> USE DEF WriterInv
<1>1. window \in Nat /\ window' \in Nat
  BY SchemaAssumption DEF Inv, TypeOK
<1>2. ASSUME Watch PROVE /\ trouble' \in BOOLEAN /\ (trouble => trouble')
                         /\ ~trouble' => up' /\ ended' = {} /\ window' = 0
  <2>1. trouble' \in BOOLEAN /\ (trouble => trouble') BY <1>2, Zenon DEF Watch
  <2>2. ~trouble' => up' /\ ended' = {} /\ ~(window' > 0) BY <1>2, Zenon DEF Watch
  <2> QED BY <1>1, <2>1, <2>2
<1>3. CASE GateStep BY <1>2, <1>3 DEF GateStep, writer
<1>4. CASE WriterTick
  BY <1>1, <1>4 DEF WriterTick, Tick, vars, gate
<1>5. CASE TakeRecord
  <2>1. trouble' \in BOOLEAN BY <1>5, Zenon DEF TakeRecord
  <2>2. ~trouble' => up /\ ended = {} /\ ~(window > 0) BY <1>5, Zenon DEF TakeRecord
  <2> QED BY <1>1, <1>5, <2>1, <2>2 DEF TakeRecord, vars, gate
<1>6. CASE InsertCall BY <1>2, <1>6 DEF InsertCall
<1>7. CASE InsertGate
  <2>1. CASE pc'[Worker] # "idle" BY <1>2, <1>7, <2>1 DEF InsertGate, writer
  <2>2. CASE pc'[Worker] = "idle" /\ result'[Worker] = "ok"
    BY <1>2, <1>7, <2>2 DEF InsertGate
  <2>3. CASE pc'[Worker] = "idle" /\ result'[Worker] # "ok"
    <3>1. trouble BY <1>7, <2>3, GateBlames DEF InsertGate
    <3> QED BY <1>2, <1>7, <2>3, <3>1 DEF InsertGate, InsertError
  <2> QED BY <2>1, <2>2, <2>3
<1>8. CASE InsertExec
  <2>1. CASE wpc' = "stored" /\ UNCHANGED trouble BY <2>1
  <2>2. CASE InsertError /\ trouble' = TRUE BY <2>2 DEF InsertError
  <2> QED BY <1>8, <2>1, <2>2, Zenon DEF InsertExec
<1>9. CASE InsertAgain BY <1>9 DEF InsertAgain, vars, gate
<1>10. CASE UNCHANGED writerVars BY <1>10 DEF writerVars, writer, vars, gate
<1> QED BY <1>3, <1>4, <1>5, <1>6, <1>7, <1>8, <1>9, <1>10 DEF WriterNext

\* persist gives a record up only if a contact failed or could have failed since it was
\* taken up: with any number of other callers, any pause and any length of the window, a
\* failure that is over costs no record.
THEOREM GivesUpOnlyInTrouble == WriterSafeSpec => []GivenUpOnlyInTrouble
<1>1. WriterInit => WriterInv
  <2> SUFFICES ASSUME WriterInit PROVE WriterInv
    OBVIOUS
  <2>1. trouble \in BOOLEAN BY Zenon DEF WriterInit
  <2> QED BY <2>1 DEF WriterInit, WriterInv
<1>2. Inv /\ Inv' /\ WriterInv /\ [WriterNext]_writerVars => WriterInv'
  BY WriterStep
<1>3. WriterInv => GivenUpOnlyInTrouble BY DEF WriterInv, GivenUpOnlyInTrouble
<1> QED BY <1>1, <1>2, <1>3, WriterIsSafe, InvCorrect, PTL DEF WriterSafeSpec
=============================================================================
