--------------------------- MODULE SidecarProofs ---------------------------
(***************************************************************************)
(* The audit queue alone and inside the process.  What holds of the queue  *)
(* holds for every set of producers and records and every capacity; each   *)
(* invariant is proved inductive relative to the ones before it: types and *)
(* control first, then the lock, the line of records, what the table and   *)
(* the end of Run say about them, and the refinement of AuditLog.  A step  *)
(* of Sidecar is a step of the queue or leaves it alone, so all of it      *)
(* holds there too; main's order of Shutdown, Close, wait and cancel adds  *)
(* the rest, for any number of servers, requests and connections.          *)
(***************************************************************************)
EXTENDS Sidecar, FiniteSetTheorems, TLAPS

\* A producer with a record whose fate is still open, a worker with a record.
Offering == {"rlock", "check", "send"}
Busy     == {"start", "resolve", "resolveWait", "insert", "insertWait"}

\* A producer or a worker at a statement that uses a record has one, and the two
\* loops of persist wait only before their last attempt.
Control ==
  /\ \A p \in Producers : ppc[p] \in Offering => arg[p] \in Records
  /\ IF wpc \in Busy THEN cur \in Records ELSE cur = NoRecord
  /\ wpc \in {"resolveWait", "insertWait"} => attempt < LastAttempt

LEMMA InitTyped == Init => TypeOK /\ Control
<1> SUFFICES ASSUME Init PROVE TypeOK /\ Control
  OBVIOUS
<1>1. /\ chanClosed \in BOOLEAN /\ closed \in BOOLEAN /\ cancelled \in BOOLEAN
      /\ cfg \in Flags
  BY InputsAssumption, Zenon DEF Init
<1>2. rec \in [Records -> RecordData]
  BY DEF Init, RecordData
<1>3. /\ items \in Seq(Records) /\ dropped \in Nat
      /\ ppc \in [Producers -> EnqueueStates]
      /\ arg \in [Producers -> Records \cup {NoRecord}]
      /\ cpc \in CloseStates /\ wpc \in WorkerStates
      /\ cur \in Records \cup {NoRecord} /\ attempt \in 0..LastAttempt
      /\ fate \in [Records -> Fates] /\ rows \in [Records -> Nat]
  BY DEF Init, EnqueueStates, CloseStates, WorkerStates, Fates, Finished, LastAttempt
<1>4. Control
  BY RecordsAssumption DEF Init, Control, Offering, Busy
<1> QED BY <1>1, <1>2, <1>3, <1>4 DEF TypeOK

LEMMA EnqueueTyped ==
  ASSUME TypeOK, Control, NEW p \in Producers,
         Enqueue(p) \/ \E r \in Records : Offer(p, r)
  PROVE  TypeOK' /\ Control'
<1> USE DEF TypeOK, Control, Offering, EnqueueStates, Fates, Finished, queueVars, workerVars
<1>1. ASSUME NEW r \in Records, Offer(p, r) PROVE TypeOK' /\ Control'
  BY <1>1, InputsAssumption DEF Offer
<1>2. CASE RLock(p) BY <1>2 DEF RLock
<1>3. ASSUME ppc[p] \in Offering, Refuse(p), UNCHANGED <<arg, workerVars>>
      PROVE  /\ dropped' \in Nat /\ ppc' \in [Producers -> EnqueueStates]
             /\ fate' \in [Records -> Fates] /\ items' = items /\ Control'
  BY <1>3 DEF Refuse
<1>4. CASE CheckClosed(p)
  <2>1. CASE closed BY <1>3, <1>4, <2>1 DEF CheckClosed, decideFrame
  <2>2. CASE ~closed BY <1>4, <2>2 DEF CheckClosed, decideFrame
  <2> QED BY <2>1, <2>2
<1>5. CASE Send(p)
  <2>1. CASE HasRoom
    <3>1. arg[p] \in Records BY <1>5 DEF Send
    <3>2. items' = Append(items, arg[p]) BY <1>5, <2>1 DEF Send, Accept
    <3>3. items' \in Seq(Records) BY <3>1, <3>2
    <3> QED BY <1>5, <2>1, <3>3 DEF Send, Accept, decideFrame
  <2>2. CASE ~HasRoom BY <1>3, <1>5, <2>2 DEF Send, decideFrame
  <2> QED BY <2>1, <2>2
<1>6. CASE RUnlock(p) BY <1>6 DEF RUnlock
<1> QED BY <1>1, <1>2, <1>4, <1>5, <1>6 DEF Enqueue

LEMMA CloseTyped ==
  ASSUME TypeOK, Control, CloseCall \/ Close \/ Cancel
  PROVE  TypeOK' /\ Control'
BY ZenonT(40)
DEF TypeOK, Control, CloseCall, Close, CloseLock, CloseMark, CloseChannel, CloseUnlock, CloseGoto,
    Cancel, CloseStates, queueVars, workerVars

\* The part of the types that Run and persist can disturb, with their control.
WorkerTyped ==
  /\ wpc \in WorkerStates /\ attempt \in 0..LastAttempt
  /\ fate \in [Records -> Fates]
  /\ IF wpc \in Busy THEN cur \in Records ELSE cur = NoRecord
  /\ wpc \in {"resolveWait", "insertWait"} => attempt < LastAttempt

LEMMA FinishTyped ==
  ASSUME TypeOK, Control, wpc \in Busy, NEW outcome \in Fates,
         NEW to \in {"recv", "exited"}, Finish(outcome, to)
  PROVE  WorkerTyped'
BY DEF TypeOK, Control, WorkerTyped, Finish, WorkerStates, Busy, LastAttempt

LEMMA AdmitTyped ==
  ASSUME TypeOK, Control, wpc \in Busy, NEW known, Admit(known)
  PROVE  WorkerTyped'
<1>1. CASE Finish("filtered", "recv")
  BY <1>1, FinishTyped DEF Fates, Finished
<1>2. CASE wpc' = "insert" /\ attempt' = 0 /\ UNCHANGED <<cur, fate>>
  BY <1>2 DEF TypeOK, Control, WorkerTyped, WorkerStates, Busy, LastAttempt
<1> QED BY <1>1, <1>2 DEF Admit

LEMMA InsertErrorTyped ==
  ASSUME TypeOK, Control, wpc = "insert", InsertError
  PROVE  WorkerTyped'
<1>1. CASE Finish("failed", "recv")
  BY <1>1, FinishTyped DEF Fates, Finished, Busy
<1>2. CASE MoreAttempts /\ wpc' = "insertWait" /\ UNCHANGED <<cur, attempt, fate>>
  BY <1>2 DEF TypeOK, Control, WorkerTyped, WorkerStates, Busy, MoreAttempts
<1> QED BY <1>1, <1>2 DEF InsertError

LEMMA RunTyped ==
  ASSUME TypeOK, Control, Run
  PROVE  TypeOK' /\ Control'
<1>1. /\ WorkerTyped'
      /\ rec' \in [Records -> RecordData] /\ rows' \in [Records -> Nat]
      /\ items' \in Seq(Records) /\ UNCHANGED producerSide
  <2> USE DEF TypeOK, Control, Busy
  <2>1. CASE Receive
    <3>1. Head(items) \in Records /\ Tail(items) \in Seq(Records)
      BY <2>1 DEF Receive
    <3> QED BY <2>1, <3>1 DEF Receive, WorkerTyped, WorkerStates, Fates
  <2>2. CASE RangeEnd BY <2>2 DEF RangeEnd, WorkerTyped, WorkerStates
  <2>3. CASE Start
    <3>1. CASE wpc' = "resolve" /\ attempt' = 0 /\ UNCHANGED <<cur, fate>>
      BY <2>3, <3>1 DEF Start, WorkerTyped, WorkerStates, LastAttempt
    <3>2. CASE Finish("abandoned", "exited")
      BY <2>3, <3>2, FinishTyped DEF Start, Fates, Finished
    <3>3. CASE Admit(TRUE) BY <2>3, <3>3, AdmitTyped DEF Start
    <3> QED BY <2>3, <3>1, <3>2, <3>3 DEF Start
  <2>4. CASE ResolveFound
    <3>1. PICK known \in BOOLEAN : rec' = [rec EXCEPT ![cur].known = known] /\ Admit(known)
      BY <2>4 DEF ResolveFound
    <3>2. rec' \in [Records -> RecordData] BY <3>1 DEF RecordData
    <3> QED BY <2>4, <3>1, <3>2, AdmitTyped DEF ResolveFound
  <2>5. CASE ResolveMissed
    <3>1. CASE MoreAttempts
      BY <2>5, <3>1 DEF ResolveMissed, MoreAttempts, WorkerTyped, WorkerStates
    <3>2. CASE ~MoreAttempts BY <2>5, <3>2, AdmitTyped DEF ResolveMissed
    <3> QED BY <3>1, <3>2
  <2>6. ASSUME NEW from \in Busy, NEW to \in {"resolve", "insert"}, Wait(from, to),
               attempt < LastAttempt
        PROVE  <1>1!1
    <3>1. CASE Finish("abandoned", "recv")
      BY <2>6, <3>1, FinishTyped DEF Wait, Fates, Finished
    <3>2. CASE wpc' = to /\ attempt' = attempt + 1 /\ UNCHANGED <<cur, fate>>
      BY <2>6, <3>2 DEF Wait, WorkerTyped, WorkerStates, LastAttempt
    <3> QED BY <2>6, <3>1, <3>2 DEF Wait, NextAttempt
  <2>7. CASE ResolveWait \/ InsertWait BY <2>6, <2>7 DEF ResolveWait, InsertWait, Wait
  <2>8. ASSUME AddRow, wpc \in Busy PROVE rows' \in [Records -> Nat]
    BY <2>8 DEF AddRow
  <2>9. CASE InsertStored
    BY <2>8, <2>9, FinishTyped DEF InsertStored, Fates, Finished
  <2>10. CASE InsertReplyLost BY <2>8, <2>10, InsertErrorTyped DEF InsertReplyLost
  <2>11. CASE InsertFailed BY <2>11, InsertErrorTyped DEF InsertFailed
  <2> QED BY <2>1, <2>2, <2>3, <2>4, <2>5, <2>7, <2>9, <2>10, <2>11 DEF Run
<1> QED BY <1>1 DEF TypeOK, Control, WorkerTyped, producerSide

LEMMA StutterTyped ==
  ASSUME TypeOK, Control, UNCHANGED vars PROVE TypeOK' /\ Control'
BY DEF TypeOK, Control, vars, queueVars, workerVars

LEMMA ControlCorrect == SafeSpec => [](TypeOK /\ Control)
<1>1. TypeOK /\ Control /\ [Next]_vars => (TypeOK /\ Control)'
  BY EnqueueTyped, CloseTyped, RunTyped, StutterTyped DEF Next
<1> QED BY InitTyped, <1>1, PTL DEF SafeSpec

\* The variables of the queue keep their types: the loops of persist make three
\* attempts at most, and only records of the program are queued or at hand.
THEOREM TypeCorrect == SafeSpec => []TypeOK
BY ControlCorrect, PTL
-----------------------------------------------------------------------------
(* The lock *)

\* Readers and the writer exclude each other, a producer about to send was let in
\* before the closer, and q.closed and the channel follow the closer.
LockInv ==
  /\ \A p \in Producers :
       /\ ReadHeld(p) => ~WriteHeld
       /\ ppc[p] = "send" => cpc \in {"idle", "lock"}
  /\ closed <=> cpc \in {"close", "unlock", "done"}
  /\ chanClosed <=> cpc \in {"unlock", "done"}

\* The worker leaves the producers, the closer and the context alone.
LEMMA RunFrame == ASSUME Run PROVE UNCHANGED producerSide
BY DEF Run, Receive, RangeEnd, Start, ResolveFound, ResolveMissed, ResolveWait,
       InsertWait, Wait, InsertStored, InsertReplyLost, InsertFailed

\* The closer, the cancellation and a stuttering step leave records and worker alone.
LEMMA CloseFrame ==
  ASSUME CloseCall \/ Close \/ Cancel \/ UNCHANGED vars
  PROVE  UNCHANGED <<items, dropped, ppc, arg, workerVars, cfg, rec, fate, rows>>
BY DEF CloseCall, Close, CloseLock, CloseMark, CloseChannel, CloseUnlock, CloseGoto,
       Cancel, vars, queueVars

LEMMA LockInvStep ==
  ASSUME TypeOK, LockInv, [Next]_vars PROVE LockInv'
<1> USE DEF TypeOK, LockInv, ReadHeld, WriteHeld, EnqueueStates, CloseStates,
            queueVars, workerVars
<1>1. ASSUME NEW p \in Producers, NEW r \in Records, Offer(p, r) PROVE LockInv'
  BY <1>1 DEF Offer
<1>2. ASSUME NEW p \in Producers, RLock(p) PROVE LockInv'
  BY <1>2 DEF RLock, WritePending
<1>3. ASSUME NEW p \in Producers, CheckClosed(p) PROVE LockInv'
  BY <1>3 DEF CheckClosed, Refuse, decideFrame
<1>4. ASSUME NEW p \in Producers, Send(p) PROVE LockInv'
  BY <1>4 DEF Send, Accept, Refuse, decideFrame
<1>5. ASSUME NEW p \in Producers, RUnlock(p) PROVE LockInv'
  BY <1>5 DEF RUnlock
<1>6. CASE CloseCall \/ Close
  BY <1>6 DEF CloseCall, Close, CloseLock, CloseMark, CloseChannel, CloseUnlock, CloseGoto
<1>7. CASE Cancel BY <1>7 DEF Cancel
<1>9. CASE Run BY <1>9, RunFrame DEF producerSide
<1>10. CASE UNCHANGED vars BY <1>10 DEF vars
<1> QED BY <1>1, <1>2, <1>3, <1>4, <1>5, <1>6, <1>7, <1>9, <1>10 DEF Next, Enqueue

LEMMA LockCorrect == SafeSpec => []LockInv
<1>1. Init => LockInv
  BY DEF Init, LockInv, ReadHeld, WriteHeld
<1>2. TypeOK /\ LockInv /\ [Next]_vars => LockInv'
  BY LockInvStep
<1> QED BY <1>1, <1>2, TypeCorrect, PTL DEF SafeSpec

\* Enqueue never sends on the closed channel: for any number of goroutines in
\* Enqueue, Close waits until none of them is between its check and its send.
THEOREM NeverSendsOnClosedChannel == SafeSpec => []NoSendOnClosedChannel
<1>1. LockInv => NoSendOnClosedChannel
  BY DEF LockInv, NoSendOnClosedChannel
<1> QED BY <1>1, LockCorrect, PTL
-----------------------------------------------------------------------------
(* Where each record is *)

\* A record is offered by one producer at most, queued once, in the worker's hand,
\* or at rest, and its fate says which.
OfferInv ==
  \A p \in Producers : ppc[p] \in Offering =>
    /\ fate[arg[p]] = "offered"
    /\ \A q \in Producers : ppc[q] \in Offering /\ arg[q] = arg[p] => q = p

QueueInv ==
  /\ \A i \in 1..Len(items) : fate[items[i]] = "queued"
  /\ \A i, j \in 1..Len(items) : items[i] = items[j] => i = j
  /\ \A r \in Records : fate[r] = "queued" => \E i \in 1..Len(items) : items[i] = r

WorkInv == \A r \in Records : fate[r] = "working" <=> r = cur

FateInv == OfferInv /\ QueueInv /\ WorkInv

\* Enqueue decides on its record: refused, or appended to the channel.
LEMMA DecideStep ==
  ASSUME TypeOK, Control, FateInv, NEW p \in Producers, CheckClosed(p) \/ Send(p)
  PROVE  FateInv'
<1> USE RecordsAssumption DEF TypeOK, Control, Offering, EnqueueStates, workerVars
<1>1. arg[p] \in Records /\ fate[arg[p]] = "offered" /\ arg' = arg /\ cur' = cur
  BY DEF CheckClosed, Send, decideFrame, FateInv, OfferInv
<1>2. ASSUME NEW f \in {"refused", "queued"}, ppc' = [ppc EXCEPT ![p] = "runlock"],
             fate' = [fate EXCEPT ![arg[p]] = f]
      PROVE  OfferInv' /\ WorkInv'
  <2>1. ASSUME NEW q \in Producers, ppc'[q] \in Offering
        PROVE  q # p /\ ppc[q] = ppc'[q] /\ arg[q] # arg[p] /\ fate'[arg[q]] = fate[arg[q]]
    <3>1. q # p /\ ppc[q] = ppc'[q] BY <1>2, <2>1
    <3>2. arg[q] # arg[p] BY <2>1, <3>1 DEF CheckClosed, Send, FateInv, OfferInv
    <3> QED BY <1>2, <2>1, <3>1, <3>2
  <2>2. OfferInv' BY <1>1, <2>1 DEF FateInv, OfferInv
  <2>3. WorkInv' BY <1>1, <1>2 DEF FateInv, WorkInv
  <2> QED BY <2>2, <2>3
<1>5. CASE Refuse(p)
  <2>1. OfferInv' /\ WorkInv' BY <1>2, <1>5 DEF Refuse
  <2>2. ASSUME NEW i \in 1..Len(items) PROVE items[i] \in Records /\ items[i] # arg[p]
    <3>1. fate[items[i]] = "queued" BY DEF FateInv, QueueInv
    <3> QED BY <1>1, <3>1
  <2>3. QueueInv' BY <1>1, <1>5, <2>2, ZenonT(40) DEF Refuse, FateInv, QueueInv
  <2> QED BY <2>1, <2>3 DEF FateInv
<1>3. CASE ppc' = [ppc EXCEPT ![p] = "send"] /\ UNCHANGED <<items, fate>> /\ ppc[p] = "check"
  <2>1. OfferInv' BY <1>1, <1>3 DEF FateInv, OfferInv
  <2>2. /\ items' = items /\ fate' = fate /\ cur' = cur BY <1>1, <1>3
  <2>3. WorkInv' BY <2>2 DEF FateInv, WorkInv
  <2>4. QueueInv' BY <2>2, Zenon DEF FateInv, QueueInv
  <2> QED BY <2>1, <2>3, <2>4 DEF FateInv
<1>4. CASE /\ items' = Append(items, arg[p])
           /\ fate' = [fate EXCEPT ![arg[p]] = "queued"]
           /\ ppc' = [ppc EXCEPT ![p] = "runlock"]
  <2>1. OfferInv' /\ WorkInv' BY <1>2, <1>4
  <2>2. /\ Len(items') = Len(items) + 1 /\ Len(items) \in Nat
        /\ \A i \in 1..Len(items) : items'[i] = items[i] /\ items[i] \in Records
        /\ items'[Len(items) + 1] = arg[p]
    BY <1>1, <1>4
  <2>3. QueueInv'
    BY <1>1, <1>4, <2>2 DEF FateInv, QueueInv
  <2> QED BY <2>1, <2>3 DEF FateInv
<1> QED BY <1>3, <1>4, <1>5 DEF CheckClosed, Send, Accept

\* The worker takes the first record of the line.
LEMMA ReceiveStep ==
  ASSUME TypeOK, Control, FateInv, Receive
  PROVE  FateInv'
<1> USE RecordsAssumption DEF TypeOK, Control, Busy, producerSide
<1> DEFINE h == Head(items)
<1>1. /\ h \in Records /\ h = items[1] /\ Len(items) \in Nat \ {0}
      /\ Len(items') = Len(items) - 1
      /\ \A i \in 1..Len(items') : items'[i] = items[i + 1]
      /\ \A i \in 1..Len(items) : items[i] \in Records
  BY DEF Receive
<1>2. fate[h] = "queued" /\ cur = NoRecord
  BY <1>1 DEF FateInv, QueueInv, Receive
<1>3. OfferInv' BY <1>1, <1>2 DEF FateInv, OfferInv, Receive
<1>4. WorkInv' BY <1>1, <1>2 DEF FateInv, WorkInv, Receive
<1>5. QueueInv'
  <2>1. fate' = [fate EXCEPT ![h] = "working"] BY DEF Receive
  <2> HIDE DEF h
  <2>2. ASSUME NEW i \in 1..Len(items')
        PROVE  /\ i + 1 \in 1..Len(items) /\ items'[i] = items[i + 1]
               /\ items[i + 1] # h /\ items[i + 1] \in Records
    <3>1. i + 1 \in 1..Len(items) /\ 1 \in 1..Len(items) /\ i + 1 # 1 BY <1>1
    <3>2. items[i + 1] # items[1] BY <3>1 DEF FateInv, QueueInv
    <3> QED BY <1>1, <3>1, <3>2
  <2>3. ASSUME NEW i \in 1..Len(items') PROVE fate'[items'[i]] = "queued"
    <3>1. fate[items[i + 1]] = "queued" BY <2>2 DEF FateInv, QueueInv
    <3> QED BY <2>1, <2>2, <3>1
  <2>4. ASSUME NEW i \in 1..Len(items'), NEW j \in 1..Len(items'), items'[i] = items'[j]
        PROVE  i = j
    <3>1. i + 1 = j + 1 BY <2>2, <2>4 DEF FateInv, QueueInv
    <3> QED BY <1>1, <3>1
  <2>5. ASSUME NEW r \in Records, fate'[r] = "queued"
        PROVE  \E i \in 1..Len(items') : items'[i] = r
    <3>1. fate[r] = "queued" /\ r # h BY <1>1, <2>1, <2>5
    <3>2. PICK i \in 1..Len(items) : items[i] = r
      BY <3>1 DEF FateInv, QueueInv
    <3>3. i - 1 \in 1..Len(items') /\ (i - 1) + 1 = i BY <1>1, <3>1, <3>2
    <3> QED BY <1>1, <3>2, <3>3
  <2> QED BY <2>3, <2>4, <2>5 DEF QueueInv
<1> QED BY <1>3, <1>4, <1>5 DEF FateInv

\* A step of the worker receives a record, keeps the one it has, or leaves it with
\* an outcome.
LEMMA PersistMoves ==
  ASSUME Run, ~Receive
  PROVE  /\ UNCHANGED <<ppc, arg, items>>
         /\ \/ UNCHANGED <<cur, fate>>
            \/ \E outcome \in Finished, to \in {"recv", "exited"} :
                  wpc \in Busy /\ Finish(outcome, to)
BY RunFrame
   DEF Run, RangeEnd, Start, ResolveFound, ResolveMissed, ResolveWait, InsertWait, Wait,
       InsertStored, InsertReplyLost, InsertFailed, InsertError, Admit, Busy, Finished,
       producerSide

LEMMA PersistStep ==
  ASSUME TypeOK, Control, FateInv, UNCHANGED <<ppc, arg, items>>,
         \/ UNCHANGED <<cur, fate>>
         \/ \E outcome \in Finished, to \in {"recv", "exited"} :
               wpc \in Busy /\ Finish(outcome, to)
  PROVE  FateInv'
<1>1. CASE UNCHANGED <<cur, fate>>
  BY <1>1 DEF FateInv, OfferInv, QueueInv, WorkInv
<1>2. ASSUME NEW outcome \in Finished, NEW to \in {"recv", "exited"},
             wpc \in Busy, Finish(outcome, to)
      PROVE  FateInv'
  <2>1. cur \in Records /\ fate[cur] = "working"
    BY <1>2 DEF Control, FateInv, WorkInv
  <2> QED
    BY <1>2, <2>1, RecordsAssumption
       DEF TypeOK, Control, FateInv, OfferInv, QueueInv, WorkInv, Finish, Finished, Offering
<1> QED BY <1>1, <1>2

LEMMA FateInvStep ==
  ASSUME TypeOK, Control, FateInv, [Next]_vars PROVE FateInv'
<1>1. ASSUME NEW p \in Producers, NEW r \in Records, Offer(p, r) PROVE FateInv'
  <2> USE RecordsAssumption DEF TypeOK, Control, Offer, queueVars, workerVars
  <2>1. OfferInv'
    BY <1>1 DEF FateInv, OfferInv, Offering, EnqueueStates
  <2>2. ASSUME NEW i \in 1..Len(items) PROVE items[i] \in Records /\ items[i] # r
    <3>1. fate[items[i]] = "queued" BY DEF FateInv, QueueInv
    <3> QED BY <1>1, <3>1
  <2>3. QueueInv' BY <1>1, <2>2 DEF FateInv, QueueInv
  <2>4. WorkInv' BY <1>1 DEF FateInv, WorkInv
  <2> QED BY <2>1, <2>3, <2>4 DEF FateInv
<1>2. ASSUME NEW p \in Producers, RLock(p) \/ RUnlock(p) PROVE FateInv'
  <2>1. OfferInv'
    BY <1>2 DEF TypeOK, RLock, RUnlock, FateInv, OfferInv, Offering, EnqueueStates
  <2>2. UNCHANGED <<items, fate, cur>>
    BY <1>2 DEF RLock, RUnlock, queueVars, workerVars
  <2> QED BY <2>1, <2>2 DEF FateInv, QueueInv, WorkInv
<1>3. CASE CloseCall \/ Close \/ Cancel \/ UNCHANGED vars
  <2>1. UNCHANGED <<ppc, arg, items, cur, fate>> BY <1>3, CloseFrame DEF workerVars
  <2> QED BY <2>1, PersistStep
<1>4. CASE Run
  <2>1. CASE Receive BY <2>1, ReceiveStep
  <2> QED BY <1>4, <2>1, PersistMoves, PersistStep
<1> QED BY <1>1, <1>2, <1>3, <1>4, DecideStep DEF Next, Enqueue

LEMMA FateCorrect == SafeSpec => []FateInv
<1>1. Init => FateInv
  BY RecordsAssumption DEF Init, FateInv, OfferInv, QueueInv, WorkInv, Offering
<1>2. TypeOK /\ Control /\ FateInv /\ [Next]_vars => FateInv'
  BY FateInvStep
<1> QED BY <1>1, <1>2, ControlCorrect, PTL DEF SafeSpec
-----------------------------------------------------------------------------
(* The table *)

\* What a step of anybody but the worker does to the records: it decides on one that is
\* new or offered, and leaves the worker, the table and the other records alone.
WorkerAside ==
  /\ UNCHANGED <<wpc, cur, rows, cfg>>
  /\ \A r \in Records :
       \/ fate'[r] = fate[r] /\ rec'[r] = rec[r]
       \/ fate[r] \in {"new", "offered"} /\ fate'[r] \in {"offered", "queued", "refused"}
  /\ cancelled => cancelled'
  /\ chanClosed => chanClosed' /\ items' = items

LEMMA OthersAside ==
  ASSUME TypeOK, Control, LockInv, FateInv, [Next]_vars, ~Run
  PROVE  WorkerAside
<1> USE RecordsAssumption DEF TypeOK, Control, WorkerAside, queueVars, workerVars
<1>1. ASSUME NEW p \in Producers, NEW r \in Records, Offer(p, r) PROVE WorkerAside
  BY <1>1 DEF Offer
<1>2. ASSUME NEW p \in Producers, RLock(p) \/ RUnlock(p) PROVE WorkerAside
  BY <1>2 DEF RLock, RUnlock
<1>3. ASSUME NEW p \in Producers, CheckClosed(p) \/ Send(p) PROVE WorkerAside
  <2>1. arg[p] \in Records /\ fate[arg[p]] = "offered"
    BY <1>3 DEF CheckClosed, Send, Offering, FateInv, OfferInv
  <2>2. ppc[p] = "send" => ~chanClosed
    BY ZenonT(40) DEF LockInv
  <2> QED BY <1>3, <2>1, <2>2 DEF CheckClosed, Send, Refuse, Accept, decideFrame
<1>4. CASE CloseCall \/ Close \/ Cancel \/ UNCHANGED vars
  <2>1. UNCHANGED <<items, wpc, cur, cfg, rec, fate, rows>> BY <1>4, CloseFrame
  <2>2. (cancelled => cancelled') /\ (chanClosed => chanClosed')
    BY <1>4 DEF CloseCall, Close, CloseLock, CloseMark, CloseChannel, CloseUnlock, CloseGoto,
                Cancel, vars
  <2> QED BY <2>1, <2>2
<1> QED BY <1>1, <1>2, <1>3, <1>4 DEF Next, Enqueue

\* The record at hand has no row before its first INSERT.
RowsInv ==
  /\ RowsMatchFate
  /\ wpc \in {"start", "resolve", "resolveWait"} => rows[cur] = 0

LEMMA RowsStep ==
  ASSUME TypeOK, Control, LockInv, FateInv, RowsInv, [Next]_vars
  PROVE  RowsInv'
<1> USE RecordsAssumption DEF TypeOK, Control, RowsInv, RowsMatchFate, Busy
<1>1. CASE ~Run
  BY <1>1, OthersAside DEF WorkerAside
<1>2. CASE Receive
  <2>1. Head(items) \in Records /\ fate[Head(items)] = "queued"
    BY <1>2 DEF Receive, FateInv, QueueInv
  <2> QED BY <1>2, <2>1 DEF Receive
<1>3. wpc \in Busy => cur \in Records /\ fate[cur] = "working"
  BY DEF FateInv, WorkInv
<1>4. ASSUME NEW outcome \in {"filtered", "abandoned"}, NEW to \in {"recv", "exited"},
             Finish(outcome, to), rows' = rows, wpc \in Busy,
             outcome = "filtered" => rows[cur] = 0
      PROVE  RowsInv'
  BY <1>3, <1>4 DEF Finish
<1>5. ASSUME NEW known, Admit(known), rows' = rows,
             wpc \in {"start", "resolve"}
      PROVE  RowsInv'
  BY <1>3, <1>4, <1>5 DEF Admit
<1>6. CASE RangeEnd BY <1>6 DEF RangeEnd
<1>7. CASE Start BY <1>4, <1>5, <1>7 DEF Start
<1>8. CASE ResolveFound BY <1>5, <1>8 DEF ResolveFound
<1>9. CASE ResolveMissed BY <1>5, <1>9 DEF ResolveMissed
<1>10. CASE ResolveWait \/ InsertWait
  BY <1>4, <1>10 DEF ResolveWait, InsertWait, Wait
<1>11. CASE InsertStored BY <1>3, <1>11 DEF InsertStored, AddRow, Finish
<1>12. CASE InsertReplyLost \/ InsertFailed
  <2>1. cur \in Records /\ fate[cur] = "working" /\ wpc = "insert"
    BY <1>3, <1>12 DEF InsertReplyLost, InsertFailed
  <2>2. \/ rows' = rows
        \/ rows[cur] = 0 /\ rows' = [rows EXCEPT ![cur] = @ + 1]
    BY <1>12 DEF InsertReplyLost, InsertFailed, AddRow
  <2>3. \A r \in Records : rows'[r] <= 1 /\ (r # cur => rows'[r] = rows[r])
    BY <2>1, <2>2
  <2>4. CASE wpc' = "insertWait" /\ UNCHANGED <<cur, fate>> BY <2>1, <2>3, <2>4
  <2>5. CASE Finish("failed", "recv") BY <2>1, <2>3, <2>5 DEF Finish
  <2> QED BY <1>12, <2>4, <2>5 DEF InsertReplyLost, InsertFailed, InsertError
<1> QED BY <1>1, <1>2, <1>6, <1>7, <1>8, <1>9, <1>10, <1>11, <1>12 DEF Run

LEMMA RowsCorrect == SafeSpec => []RowsInv
<1>1. Init => RowsInv
  BY DEF Init, RowsInv, RowsMatchFate
<1>2. TypeOK /\ Control /\ LockInv /\ FateInv /\ RowsInv /\ [Next]_vars => RowsInv'
  BY RowsStep
<1> QED BY <1>1, <1>2, ControlCorrect, LockCorrect, FateCorrect, PTL DEF SafeSpec

\* A record is stored at most once, whatever replies are lost and however often persist
\* tries again, and only a record that persist has taken up is stored.
THEOREM StoredAtMostOnce == SafeSpec => []RowsMatchFate
<1>1. RowsInv => RowsMatchFate BY DEF RowsInv
<1> QED BY <1>1, RowsCorrect, PTL
-----------------------------------------------------------------------------
(* The filters *)

\* What the flags ask of record r.
Allowed(r) ==
  /\ rec[r].known \/ cfg.AllowUnknownIdentity
  /\ ~rec[r].empty \/ cfg.CaptureEmptyPrompts

\* The identity is resolved only for a record without one, and a record that is being
\* inserted has passed the filters.
AllowedInv ==
  /\ \A r \in Records : rows[r] > 0 => Allowed(r)
  /\ wpc \in {"resolve", "resolveWait"} => ~rec[cur].known
  /\ wpc \in {"insert", "insertWait"} => Allowed(cur)

LEMMA AllowedStep ==
  ASSUME TypeOK, Control, LockInv, FateInv, RowsInv, AllowedInv, [Next]_vars
  PROVE  AllowedInv'
<1> USE RecordsAssumption DEF TypeOK, Control, AllowedInv, Allowed, Busy
<1>3. wpc \in Busy => cur \in Records /\ fate[cur] = "working"
  BY DEF FateInv, WorkInv
<1>1. CASE ~Run
  <2>1. ASSUME NEW r \in Records, fate[r] \in {"new", "offered"} PROVE ~(rows[r] > 0)
    <3>1. rows[r] = 0 BY <2>1, ZenonT(40) DEF RowsInv, RowsMatchFate
    <3> QED BY <3>1
  <2> QED BY <1>1, <1>3, <2>1, OthersAside DEF WorkerAside
<1>2. CASE Receive BY <1>2 DEF Receive, producerSide
<1>4. ASSUME NEW outcome, NEW to \in {"recv", "exited"}, Finish(outcome, to),
             UNCHANGED <<rows, rec, cfg>>
      PROVE  AllowedInv'
  BY <1>4 DEF Finish
<1>6. CASE RangeEnd BY <1>6 DEF RangeEnd, producerSide
<1>7. CASE Start
  BY <1>3, <1>4, <1>7 DEF Start, Admit, PassesFilters, producerSide
<1>8. CASE ResolveFound
  <2>1. PICK known \in BOOLEAN : rec' = [rec EXCEPT ![cur].known = known] /\ Admit(known)
    BY <1>8 DEF ResolveFound
  <2>2. cur \in Records /\ rows[cur] = 0 /\ UNCHANGED <<rows, cfg>>
    BY <1>3, <1>8 DEF ResolveFound, RowsInv, producerSide
  <2>3. /\ rec'[cur].known = known /\ rec'[cur].empty = rec[cur].empty
        /\ \A r \in Records \ {cur} : rec'[r] = rec[r]
    BY <2>1, <2>2 DEF RecordData
  <2>4. CASE PassesFilters(known)
    BY <2>1, <2>2, <2>3, <2>4 DEF Admit, PassesFilters
  <2>5. CASE ~PassesFilters(known)
    BY <2>1, <2>2, <2>3, <2>5 DEF Admit, Finish
  <2> QED BY <2>4, <2>5
<1>9. CASE ResolveMissed
  BY <1>3, <1>4, <1>9 DEF ResolveMissed, Admit, PassesFilters, producerSide
<1>10. CASE ResolveWait \/ InsertWait
  BY <1>4, <1>10 DEF ResolveWait, InsertWait, Wait, producerSide
<1>11. CASE InsertStored BY <1>3, <1>11 DEF InsertStored, AddRow, Finish, producerSide
<1>12. CASE InsertReplyLost \/ InsertFailed
  BY <1>3, <1>12, ZenonT(40)
  DEF InsertReplyLost, InsertFailed, InsertError, AddRow, Finish, producerSide
<1> QED BY <1>1, <1>2, <1>6, <1>7, <1>8, <1>9, <1>10, <1>11, <1>12 DEF Run

\* Only what the configuration allows reaches the table, whichever of the attempts found
\* the identity of the user.
THEOREM StoresOnlyAllowed == SafeSpec => []StoredOnlyIfAllowed
<1>1. Init => AllowedInv
  BY DEF Init, AllowedInv
<1>2. TypeOK /\ Control /\ LockInv /\ FateInv /\ RowsInv /\ AllowedInv /\ [Next]_vars
        => AllowedInv'
  BY AllowedStep
<1>3. AllowedInv => StoredOnlyIfAllowed
  BY DEF AllowedInv, Allowed, StoredOnlyIfAllowed
<1> QED BY <1>1, <1>2, <1>3, ControlCorrect, LockCorrect, FateCorrect, RowsCorrect, PTL
        DEF SafeSpec
-----------------------------------------------------------------------------
(* The end of Run *)

\* Without a cancellation nothing is abandoned, and the worker stops only in front of a
\* closed and empty channel, to which nothing can be added.
DrainInv ==
  ~cancelled =>
    /\ wpc = "exited" => chanClosed /\ items = <<>>
    /\ \A r \in Records : fate[r] # "abandoned"

LEMMA DrainStep ==
  ASSUME TypeOK, Control, LockInv, FateInv, DrainInv, [Next]_vars
  PROVE  DrainInv'
<1> USE RecordsAssumption DEF TypeOK, Control, DrainInv, Busy, producerSide
<1>1. CASE ~Run
  BY <1>1, OthersAside DEF WorkerAside
<1>2. CASE Receive BY <1>2 DEF Receive
<1>3. ASSUME NEW outcome \in {"written", "failed", "filtered"}, Finish(outcome, "recv"),
             UNCHANGED cancelled
      PROVE  DrainInv'
  BY <1>3 DEF Finish
<1>6. CASE RangeEnd BY <1>6 DEF RangeEnd, Drained
<1>7. CASE Start BY <1>3, <1>7 DEF Start, Admit
<1>8. CASE ResolveFound BY <1>3, <1>8 DEF ResolveFound, Admit
<1>9. CASE ResolveMissed BY <1>3, <1>9 DEF ResolveMissed, Admit
<1>10. CASE ResolveWait \/ InsertWait BY <1>10 DEF ResolveWait, InsertWait, Wait
<1>11. CASE InsertStored BY <1>3, <1>11 DEF InsertStored
<1>12. CASE InsertReplyLost \/ InsertFailed
  BY <1>3, <1>12 DEF InsertReplyLost, InsertFailed, InsertError
<1> QED BY <1>1, <1>2, <1>6, <1>7, <1>8, <1>9, <1>10, <1>11, <1>12 DEF Run

LEMMA DrainCorrect == SafeSpec => []DrainInv
<1>1. Init => DrainInv
  BY DEF Init, DrainInv
<1>2. TypeOK /\ Control /\ LockInv /\ FateInv /\ DrainInv /\ [Next]_vars => DrainInv'
  BY DrainStep
<1> QED BY <1>1, <1>2, ControlCorrect, LockCorrect, FateCorrect, PTL DEF SafeSpec

LEMMA DrainedImplied ==
  ASSUME Control, LockInv, FateInv, DrainInv PROVE DrainedUnlessCancelled
<1> SUFFICES ASSUME wpc = "exited", ~cancelled
             PROVE  closed /\ \A r \in Records : fate[r] \notin {"queued", "working", "abandoned"}
  BY DEF DrainedUnlessCancelled
<1>1. chanClosed /\ items = <<>> BY DEF DrainInv
<1>2. closed BY <1>1 DEF LockInv
<1>3. ASSUME NEW r \in Records PROVE fate[r] \notin {"queued", "working", "abandoned"}
  <2>1. fate[r] # "abandoned" BY DEF DrainInv
  <2>2. fate[r] # "queued" BY <1>1 DEF FateInv, QueueInv
  <2>3. fate[r] # "working" BY RecordsAssumption DEF Control, Busy, FateInv, WorkInv
  <2> QED BY <2>1, <2>2, <2>3
<1> QED BY <1>2, <1>3

\* After a plain Close every accepted record has gone through persist when Run returns:
\* nothing is sent behind the worker's back once it has seen the channel empty and closed.
THEOREM DrainsUnlessCancelled == SafeSpec => []DrainedUnlessCancelled
<1>1. Control /\ LockInv /\ FateInv /\ DrainInv => DrainedUnlessCancelled
  BY DrainedImplied
<1> QED BY <1>1, ControlCorrect, LockCorrect, FateCorrect, DrainCorrect, PTL
-----------------------------------------------------------------------------
(* The promise of AuditLog *)

\* Enqueue decides on a record: the line accepts it, or refuses it because it is full or
\* shut.
LEMMA DecideRefines ==
  ASSUME TypeOK, Control, LockInv, FateInv, NEW p \in Producers, CheckClosed(p) \/ Send(p)
  PROVE  [Promise!Next]_Promise!vars
<1> DEFINE a == arg[p]
<1> USE RecordsAssumption DEF TypeOK
<1>1. /\ a \in Records /\ fate[a] = "offered" /\ a \notin Decided
      /\ UNCHANGED <<cur, Stored, closed>>
  BY DEF CheckClosed, Send, decideFrame, workerVars, Control, Offering, FateInv, OfferInv,
         Decided, Stored
<1>2. Promise!Full <=> ~HasRoom
  BY QueueSizeAssumption DEF Promise!Full, HasRoom
<1>3. CASE Refuse(p)
  <2>1. Decided' = Decided \cup {a} /\ items' = items /\ dropped' = dropped + 1
    BY <1>1, <1>3 DEF Refuse, Decided
  <2>2. closed \/ ~HasRoom
    BY <1>3 DEF CheckClosed, Send, Refuse, Accept
  <2>3. Promise!Refuse(a)
    BY <1>1, <1>2, <2>1, <2>2 DEF Promise!Refuse
  <2> QED BY <1>1, <2>3 DEF Promise!Next
<1>4. CASE HasRoom /\ Accept(p) /\ Send(p)
  <2>1. Decided' = Decided \cup {a} /\ items' = Append(items, a) /\ dropped' = dropped
    BY <1>1, <1>4 DEF Accept, Decided
  <2>2. ~closed
    BY <1>4 DEF Send, LockInv
  <2>3. Promise!Accept(a)
    BY <1>1, <1>2, <1>4, <2>1, <2>2 DEF Promise!Accept
  <2> QED BY <1>1, <2>3 DEF Promise!Next
<1>5. CASE UNCHANGED <<items, dropped, fate>>
  BY <1>1, <1>5 DEF Promise!vars, Decided
<1> QED BY <1>3, <1>4, <1>5 DEF CheckClosed, Send

\* The worker takes a record, leaves it, or stores it.
LEMMA RunRefines ==
  ASSUME TypeOK, Control, FateInv, RowsInv, Run
  PROVE  [Promise!Next]_Promise!vars
<1> USE RecordsAssumption DEF TypeOK
<1>1. UNCHANGED <<dropped, closed>> BY RunFrame DEF producerSide
<1>2. CASE Receive
  <2>1. Head(items) \in Records /\ fate[Head(items)] = "queued" /\ cur = NoRecord
    BY <1>2 DEF Receive, FateInv, QueueInv, Control, Busy
  <2>2. Decided' = Decided /\ Stored' = Stored
    BY <1>2, <2>1 DEF Receive, Decided, Stored
  <2>3. Promise!Take BY <1>1, <1>2, <2>1, <2>2 DEF Receive, Promise!Take
  <2> QED BY <2>3 DEF Promise!Next
<1>3. CASE ~Receive
  <2>1. UNCHANGED items BY <1>3, PersistMoves
  <2>2. ASSUME wpc \in Busy PROVE cur \in Records /\ cur # NoRecord /\ fate[cur] = "working"
    BY <2>2 DEF Control, FateInv, WorkInv
  <2>3. ASSUME NEW outcome \in Finished, NEW to, Finish(outcome, to), wpc \in Busy
        PROVE  Decided' = Decided /\ cur' = NoRecord
    BY <2>2, <2>3 DEF Finish, Decided, Finished
  <2>4. Decided' = Decided /\ (cur' = cur \/ (wpc \in Busy /\ cur' = NoRecord))
    <3>1. CASE UNCHANGED <<cur, fate>> BY <3>1 DEF Decided
    <3> QED BY <1>3, <2>3, <3>1, PersistMoves
  <2>5. CASE rows' = rows
    <3>1. Stored' = Stored BY <2>5 DEF Stored
    <3>2. CASE cur' = cur BY <1>1, <2>1, <2>4, <3>1, <3>2 DEF Promise!vars
    <3>3. CASE wpc \in Busy /\ cur' = NoRecord
      <4>1. Promise!Leave BY <1>1, <2>1, <2>2, <2>4, <3>1, <3>3 DEF Promise!Leave
      <4> QED BY <4>1 DEF Promise!Next
    <3> QED BY <2>4, <3>2, <3>3
  <2>6. CASE wpc \in Busy /\ AddRow
    <3>1. cur \in Records /\ Stored' = Stored \cup {cur} /\ cur \notin Stored
      BY <2>2, <2>6 DEF AddRow, Stored
    <3>2. Promise!Store BY <1>1, <2>1, <2>2, <2>4, <2>6, <3>1 DEF Promise!Store
    <3> QED BY <3>2 DEF Promise!Next
  <2>7. rows' = rows \/ (wpc \in Busy /\ AddRow)
    <3> HIDE DEF TypeOK
    <3> QED BY <1>3 DEF Run, RangeEnd, Start, ResolveFound, ResolveMissed, ResolveWait,
                InsertWait, Wait, InsertStored, InsertReplyLost, InsertFailed, Busy
  <2> QED BY <2>5, <2>6, <2>7
<1> QED BY <1>2, <1>3

\* The locked queue, its worker and the retries of persist implement AuditLog for any
\* number of producers and records and any capacity: records are stored in the order
\* Enqueue accepted them, at most once, and Enqueue refuses a full or a closed queue and no
\* other.
THEOREM QueueKeepsPromise == SafeSpec => ImplementsAuditLog
<1>1. Init => Promise!Init
  BY DEF Init, Promise!Init, Decided, Stored
<1>2. TypeOK /\ Control /\ LockInv /\ FateInv /\ RowsInv /\ [Next]_vars
        => [Promise!Next]_Promise!vars
  <2> SUFFICES ASSUME TypeOK, Control, LockInv, FateInv, RowsInv, [Next]_vars
               PROVE  [Promise!Next]_Promise!vars
    OBVIOUS
  <2>1. ASSUME NEW p \in Producers, NEW r \in Records, Offer(p, r)
        PROVE  UNCHANGED Promise!vars
    <3>1. Decided' = Decided
      BY <2>1 DEF Offer, Decided, TypeOK
    <3> QED BY <2>1, <3>1 DEF Offer, queueVars, workerVars, Promise!vars, Stored
  <2>2. ASSUME NEW p \in Producers, RLock(p) \/ RUnlock(p) PROVE UNCHANGED Promise!vars
    BY <2>2 DEF RLock, RUnlock, queueVars, workerVars, Promise!vars, Decided, Stored
  <2>3. CASE CloseCall \/ Close \/ Cancel \/ UNCHANGED vars
    <3>1. UNCHANGED <<Decided, items, cur, Stored, dropped>>
      BY <2>3, CloseFrame DEF workerVars, Decided, Stored
    <3>2. closed' = closed \/ closed' = TRUE
      BY <2>3 DEF CloseCall, Close, CloseLock, CloseMark, CloseChannel, CloseUnlock, CloseGoto,
                  Cancel, vars, queueVars
    <3> QED BY <3>1, <3>2 DEF Promise!vars, Promise!Next, Promise!Shut
  <2> QED BY <2>1, <2>2, <2>3, DecideRefines, RunRefines DEF Next, Enqueue
<1> QED BY <1>1, <1>2, ControlCorrect, LockCorrect, FateCorrect, RowsCorrect, PTL
        DEF SafeSpec, ImplementsAuditLog, Promise!Spec

-----------------------------------------------------------------------------
(* The counter *)

Refused == {r \in Records : fate[r] = "refused"}

LEMMA CountStep ==
  ASSUME TypeOK, Control, FateInv, DroppedCountsRefusals, [Next]_vars
  PROVE  DroppedCountsRefusals'
<1> USE RecordsAssumption
<1>1. IsFiniteSet(Refused) BY FS_Subset DEF Refused
<1>2. ASSUME NEW p \in Producers, ppc[p] \in Offering, Refuse(p)
      PROVE  DroppedCountsRefusals'
  <2>1. /\ arg[p] \in Records /\ arg[p] \notin Refused
        /\ fate' = [fate EXCEPT ![arg[p]] = "refused"]
    BY <1>2 DEF Control, FateInv, OfferInv, Refused, Refuse
  <2>2. Refused' = Refused \cup {arg[p]} BY <2>1 DEF Refused, TypeOK
  <2>3. Cardinality(Refused') = Cardinality(Refused) + 1
    BY <1>1, <2>1, <2>2, FS_AddElement
  <2> QED BY <1>2, <2>3 DEF Refuse, DroppedCountsRefusals, Refused
<1>3. ASSUME dropped' = dropped, NEW r \in Records, fate[r] # "refused",
             NEW f \in Fates \ {"refused"}, fate' = [fate EXCEPT ![r] = f]
      PROVE  DroppedCountsRefusals'
  <2>1. Refused' = Refused BY <1>3 DEF Refused, TypeOK
  <2> QED BY <1>3, <2>1 DEF DroppedCountsRefusals, Refused
<1>4. ASSUME dropped' = dropped, fate' = fate PROVE DroppedCountsRefusals'
  BY <1>4 DEF DroppedCountsRefusals
<1>5. ASSUME NEW p \in Producers, NEW r \in Records, Offer(p, r)
      PROVE  DroppedCountsRefusals'
  BY <1>3, <1>5 DEF Offer, Fates, queueVars
<1>6. ASSUME NEW p \in Producers, RLock(p) \/ RUnlock(p) PROVE DroppedCountsRefusals'
  BY <1>4, <1>6 DEF RLock, RUnlock, queueVars
<1>7. ASSUME NEW p \in Producers, CheckClosed(p) PROVE DroppedCountsRefusals'
  BY <1>2, <1>4, <1>7 DEF CheckClosed, Offering
<1>8. ASSUME NEW p \in Producers, Send(p) PROVE DroppedCountsRefusals'
  <2>1. ppc[p] \in Offering /\ arg[p] \in Records /\ fate[arg[p]] = "offered"
    BY <1>8 DEF Send, Offering, Control, FateInv, OfferInv
  <2> QED BY <1>2, <1>3, <1>8, <2>1 DEF Send, Accept, Fates
<1>9. CASE CloseCall \/ Close \/ Cancel \/ UNCHANGED vars
  BY <1>4, <1>9, CloseFrame
<1>10. CASE Run
  <2>1. dropped' = dropped BY <1>10, RunFrame DEF producerSide
  <2>2. CASE Receive
    <3>1. Head(items) \in Records /\ fate[Head(items)] = "queued"
      BY <2>2 DEF TypeOK, Receive, FateInv, QueueInv
    <3> QED BY <1>3, <2>1, <2>2, <3>1 DEF Receive, Fates
  <2>3. CASE UNCHANGED <<cur, fate>> BY <1>4, <2>1, <2>3
  <2>4. ASSUME NEW outcome \in Finished, NEW to, wpc \in Busy, Finish(outcome, to)
        PROVE  DroppedCountsRefusals'
    <3>1. cur \in Records /\ fate[cur] = "working"
      BY <2>4 DEF Control, FateInv, WorkInv
    <3> QED BY <1>3, <2>1, <2>4, <3>1 DEF Finish, Fates, Finished
  <2> QED BY <1>10, <2>2, <2>3, <2>4, PersistMoves
<1> QED BY <1>5, <1>6, <1>7, <1>8, <1>9, <1>10 DEF Next, Enqueue

\* /healthz reports exactly the refusals: whatever interleaves, Enqueue adds one
\* to dropped for each record it refuses and never for one it accepts.
THEOREM DroppedIsExact == SafeSpec => []DroppedCountsRefusals
<1>1. Init => DroppedCountsRefusals
  <2> SUFFICES ASSUME Init PROVE DroppedCountsRefusals
    OBVIOUS
  <2>1. {r \in Records : fate[r] = "refused"} = {} BY DEF Init
  <2> QED BY <2>1, FS_EmptySet DEF Init, DroppedCountsRefusals
<1>2. TypeOK /\ Control /\ FateInv /\ DroppedCountsRefusals /\ [Next]_vars
        => DroppedCountsRefusals'
  BY CountStep
<1> QED BY <1>1, <1>2, ControlCorrect, FateCorrect, PTL DEF SafeSpec
-----------------------------------------------------------------------------
(* The process *)

\* A step of the process is a step of the queue, or leaves the queue alone.
LEMMA SidecarStepsAreQueueSteps ==
  ASSUME [SidecarNext]_sidecarVars PROVE [Next]_vars
BY DEF SidecarNext, sidecarVars, Arrive, Capture, Complete, Signal, Expire, ListenerError,
       Main, ShutdownListener, ShutdownReturns, MainClose, WaitWorker, StopWorker, Return, Next

LEMMA SidecarIsSafe == SidecarSpec => SafeSpec
<1>1. SidecarInit => Init BY DEF SidecarInit
<1>2. [SidecarNext]_sidecarVars => [Next]_vars BY SidecarStepsAreQueueSteps
<1> QED BY <1>1, <1>2, PTL DEF SidecarSpec, SafeSpec

\* The queue keeps the promise of AuditLog inside the process too, through the listeners'
\* shutdown, the deadline and the cancellation of the worker.
THEOREM SidecarKeepsPromise == SidecarSpec => ImplementsAuditLog
BY SidecarIsSafe, QueueKeepsPromise, PTL

QueueFacts == TypeOK /\ Control /\ LockInv /\ FateInv /\ DrainInv

LEMMA QueueFactsHold == SidecarSpec => []QueueFacts
<1>1. TypeOK /\ Control /\ LockInv /\ FateInv /\ DrainInv => QueueFacts BY DEF QueueFacts
<1> QED BY <1>1, SidecarIsSafe, ControlCorrect, LockCorrect, FateCorrect, DrainCorrect, PTL

\* main before, after and past its call of queue.Close.
Draining == {"serving", "shutdown", "drain"}
Ending   == {"wait", "stop", "return", "exited"}

\* Servers behind turn are shut down: they accept nothing and, if no Shutdown gave up,
\* none of their requests is open.  main closes the queue behind the last of them.
MainInv ==
  /\ mpc \in Draining \cup {"close"} \cup Ending
  /\ IF mpc \in Draining THEN turn \in 1..Servers ELSE turn = Servers + 1
  /\ mpc = "serving" => turn = 1
  /\ mpc \in Draining => cpc = "idle"
  /\ mpc = "close" => cpc # "done"
  /\ mpc \in Ending => cpc = "done"
  /\ cancelled <=> mpc \in {"return", "exited"}
  /\ active \subseteq Producers
  /\ mpc = "drain" => turn \notin listening
  /\ \A s \in 1..Servers : s < turn => s \notin listening /\ (forced \/ Waited(s) = {})

LEMMA MainStep ==
  ASSUME TypeOK, MainInv, [SidecarNext]_sidecarVars
  PROVE  MainInv'
<1> USE SidecarAssumption DEF MainInv, Draining, Ending, Waited
<1>1. CASE UNCHANGED <<mainVars, cpc, cancelled>>
  BY <1>1 DEF mainVars
<1>2. ASSUME NEW p \in Producers, Arrive(p) PROVE MainInv'
  BY <1>2 DEF Arrive, vars
<1>3. ASSUME NEW p \in Producers, Complete(p) PROVE MainInv'
  BY <1>3 DEF Complete, vars
<1>4. ASSUME NEW p \in Producers, Capture(p) \/ (Enqueue(p) /\ UNCHANGED mainVars)
      PROVE  UNCHANGED <<mainVars, cpc, cancelled>>
  BY <1>4 DEF Capture, Offer, Enqueue, RLock, CheckClosed, Send, RUnlock, decideFrame
<1>5. CASE Run /\ UNCHANGED mainVars
  BY <1>1, <1>5, RunFrame DEF producerSide
<1>6. CASE Signal \/ \E s \in listening : ListenerError(s)
  BY <1>6 DEF Signal, ListenerError, MainGoto, vars
<1>7. CASE Expire BY <1>7 DEF Expire, vars
<1>8. CASE ShutdownListener BY <1>8 DEF ShutdownListener, MainGoto, vars
<1>9. CASE ShutdownReturns
  <2>1. /\ mpc = "drain" /\ turn \in 1..Servers /\ turn' = turn + 1
        /\ mpc' = IF turn = Servers THEN "close" ELSE "shutdown"
        /\ forced' = (forced \/ Waited(turn) # {})
        /\ UNCHANGED <<listening, active, cpc, cancelled>>
    BY <1>9 DEF ShutdownReturns, MainGoto, LastServer, vars
  <2>2. ASSUME NEW s \in 1..Servers, s < turn'
        PROVE  s \notin listening' /\ (forced' \/ Waited(s)' = {})
    <3>1. CASE s = turn BY <2>1, <3>1
    <3>2. CASE s < turn BY <2>1, <3>2
    <3> QED BY <2>1, <2>2, <3>1, <3>2
  <2> QED BY <2>1, <2>2
<1>10. CASE MainClose
  <2>1. UNCHANGED cancelled
    BY <1>10 DEF MainClose, CloseCall, Close, CloseLock, CloseMark, CloseChannel, CloseUnlock,
                 CloseGoto
  <2>2. /\ mpc = "close" /\ mpc' = IF cpc' = "done" THEN "wait" ELSE "close"
        /\ UNCHANGED <<turn, listening, active, forced>>
    BY <1>10 DEF MainClose
  <2>3. \A s \in 1..Servers : Waited(s)' = Waited(s) BY <2>2
  <2> QED BY <2>1, <2>2, <2>3
<1>11. CASE WaitWorker BY <1>11 DEF WaitWorker, MainGoto, vars
<1>12. CASE StopWorker BY <1>12 DEF StopWorker, MainGoto, Cancel
<1>13. CASE Return BY <1>13 DEF Return, MainGoto, vars
<1>14. CASE UNCHANGED sidecarVars BY <1>1, <1>14 DEF sidecarVars, vars
<1> QED BY <1>1, <1>2, <1>3, <1>4, <1>5, <1>6, <1>7, <1>8, <1>9, <1>10, <1>11, <1>12, <1>13,
           <1>14 DEF SidecarNext, Main

LEMMA MainCorrect == SidecarSpec => []MainInv
<1>1. SidecarInit => MainInv
  BY SidecarAssumption DEF SidecarInit, Init, MainInv, Draining, Ending
<1>2. TypeOK /\ MainInv /\ [SidecarNext]_sidecarVars => MainInv'
  BY MainStep
<1> QED BY <1>1, <1>2, SidecarIsSafe, TypeCorrect, PTL DEF SidecarSpec

\* Unless the deadline passes, no HTTP request is open once the queue is closed, for any
\* number of requests and however they are spread over the servers: main closes the queue
\* after the Shutdown of the last server, and a server that was shut down takes no new ones.
THEOREM RequestsPrecedeClose == SidecarSpec => []QueueOutlivesRequests
<1>1. LockInv /\ MainInv => QueueOutlivesRequests
  <2> SUFFICES ASSUME LockInv, MainInv, closed, ~forced, NEW p \in active, p \notin Sockets
               PROVE  FALSE
    BY DEF QueueOutlivesRequests
  <2>1. turn = Servers + 1 BY DEF LockInv, MainInv
  <2>2. p \in Producers /\ ServerOf[p] \in 1..Servers /\ ServerOf[p] < turn
    BY <2>1, SidecarAssumption DEF MainInv
  <2>3. Waited(ServerOf[p]) = {} BY <2>2 DEF MainInv
  <2> QED BY <2>2, <2>3 DEF Waited
<1> QED BY <1>1, SidecarIsSafe, LockCorrect, MainCorrect, PTL

\* Past its wait and within the deadline, main has seen the worker end in front of an
\* empty channel, and nothing is added to it or abandoned any more.
EndInv ==
  mpc \in {"stop", "return", "exited"} /\ ~expired =>
    /\ wpc = "exited" /\ items = <<>>
    /\ \A r \in Records : fate[r] # "abandoned"

LEMMA EndStep ==
  ASSUME QueueFacts, MainInv, EndInv, [SidecarNext]_sidecarVars
  PROVE  EndInv'
<1> SUFFICES ASSUME mpc' \in {"stop", "return", "exited"}, ~expired'
             PROVE  /\ wpc' = "exited" /\ items' = <<>>
                    /\ \A r \in Records : fate'[r] # "abandoned"
  BY DEF EndInv
<1>1. CASE WaitWorker
  BY <1>1 DEF WaitWorker, MainGoto, WorkerOver, QueueFacts, DrainInv, MainInv, vars, queueVars,
              workerVars
<1>2. CASE ~WaitWorker
  <2>1. mpc \in {"stop", "return", "exited"} /\ ~expired
    <3>1. CASE StopWorker \/ Return BY <3>1 DEF StopWorker, Return, MainGoto
    <3>2. CASE ShutdownListener \/ ShutdownReturns \/ MainClose
      BY <3>2 DEF ShutdownListener, ShutdownReturns, MainClose, MainGoto
    <3>3. CASE Signal \/ Expire \/ \E s \in listening : ListenerError(s)
      BY <3>3 DEF Signal, ListenerError, Expire, MainGoto
    <3>4. CASE \E p \in Producers : Arrive(p) \/ Capture(p) \/ Complete(p)
      <4>1. PICK p \in Producers : Arrive(p) \/ Capture(p) \/ Complete(p) BY <3>4
      <4>2. CASE Arrive(p) BY <4>2 DEF Arrive
      <4>3. CASE Capture(p) BY <4>3 DEF Capture, mainVars
      <4>4. CASE Complete(p) BY <4>4 DEF Complete
      <4> QED BY <4>1, <4>2, <4>3, <4>4
    <3>5. CASE UNCHANGED mainVars BY <3>5 DEF mainVars
    <3>6. CASE UNCHANGED sidecarVars BY <3>5, <3>6 DEF sidecarVars
    <3> QED BY <1>2, <3>1, <3>2, <3>3, <3>4, <3>5, <3>6 DEF SidecarNext, Main
  <2>2. chanClosed /\ wpc = "exited" /\ items = <<>>
        /\ \A r \in Records : fate[r] # "abandoned"
    BY <2>1 DEF QueueFacts, LockInv, MainInv, Ending, EndInv
  <2>3. ~Run
    BY <2>2 DEF Run, Receive, RangeEnd, Start, ResolveFound, ResolveMissed, ResolveWait,
                InsertWait, Wait, InsertStored, InsertReplyLost, InsertFailed
  <2>4. WorkerAside
    BY <2>3, SidecarStepsAreQueueSteps, OthersAside DEF QueueFacts
  <2> QED BY <2>2, <2>4 DEF WorkerAside
<1> QED BY <1>1, <1>2

\* A shutdown within the deadline loses no accepted record, whatever WebSocket pumps try to
\* enqueue meanwhile: main cancels the worker only after it has ended by itself.
THEOREM ExitInTimeLosesNothing == SidecarSpec => []ExitLosesNothingInTime
<1>1. SidecarInit => EndInv
  BY DEF SidecarInit, EndInv
<1>2. QueueFacts /\ MainInv /\ EndInv /\ [SidecarNext]_sidecarVars => EndInv'
  BY EndStep
<1>3. QueueFacts /\ EndInv => ExitLosesNothingInTime
  <2> SUFFICES ASSUME QueueFacts, EndInv, mpc \in {"return", "exited"}, ~expired
               PROVE  /\ wpc = "exited"
                      /\ \A r \in Records : fate[r] \notin {"queued", "working", "abandoned"}
    BY DEF ExitLosesNothingInTime
  <2>1. wpc = "exited" /\ items = <<>> /\ \A r \in Records : fate[r] # "abandoned"
    BY DEF EndInv
  <2>2. \A r \in Records : fate[r] # "queued"
    BY <2>1 DEF QueueFacts, FateInv, QueueInv
  <2>3. \A r \in Records : fate[r] # "working"
    BY <2>1, RecordsAssumption DEF QueueFacts, Control, Busy, FateInv, WorkInv
  <2> QED BY <2>1, <2>2, <2>3
<1> QED BY <1>1, <1>2, <1>3, QueueFactsHold, MainCorrect, PTL DEF SidecarSpec
=============================================================================
