--------------------------- MODULE WebSocketPumps ---------------------------
(***************************************************************************)
(* One WebSocket session of websocket.go: the handler dials upstream,      *)
(* upgrades the client, starts a pump for each direction, waits for the    *)
(* first error and closes both connections.  The client's pump offers a    *)
(* frame to the audit queue before it forwards it.  The peers send, read   *)
(* and leave when they like; there is no deadline on a read or a write.    *)
(***************************************************************************)
EXTENDS Integers, Sequences

CONSTANTS
  MaxFrames,   \* bound: frames each peer sends
  Window       \* frames a connection holds that its peer has not read

ASSUME PumpsAssumption == MaxFrames \in Nat /\ Window \in Nat \ {0}

Frames == 1..MaxFrames
Peers == {"client", "upstream"}
Pumps == {"up", "down"}     \* copyClientFrames, copyServerFrames
Src(d) == IF d = "up" THEN "client" ELSE "upstream"
Dst(d) == IF d = "up" THEN "upstream" ELSE "client"

VARIABLES
  audited,     \* the client's frames whose extraction makes a record
  hpc,         \* where ServeHTTP is
  conn,        \* our end of each connection
  gone,        \* the peers that have left
  pc,          \* where each pump is
  given, got,   \* frames its source has sent and the pump has read
  out, taken,  \* frames the pump has written, how many of them its target has read
  recorded,    \* how often each frame of the client was handed to Enqueue
  errs         \* errors in errCh

session == <<hpc, conn, errs>>
frames  == <<given, got, out, taken, recorded>>
vars    == <<audited, session, gone, pc, frames>>

Init ==
  /\ audited \in SUBSET Frames
  /\ hpc = "dial" /\ conn = [x \in Peers |-> "none"] /\ errs = 0
  /\ gone = {} /\ pc = [d \in Pumps |-> "off"]
  /\ given = [d \in Pumps |-> 0] /\ got = [d \in Pumps |-> 0]
  /\ out = [d \in Pumps |-> <<>>] /\ taken = [d \in Pumps |-> 0]
  /\ recorded = [n \in Frames |-> 0]

-----------------------------------------------------------------------------
(* The peers *)

PeerSends(d) ==
  /\ conn[Src(d)] = "open" /\ Src(d) \notin gone /\ given[d] < MaxFrames
  /\ given' = [given EXCEPT ![d] = @ + 1]
  /\ UNCHANGED <<audited, session, gone, pc, got, out, taken, recorded>>

PeerReads(d) ==
  /\ Dst(d) \notin gone /\ taken[d] < Len(out[d])
  /\ taken' = [taken EXCEPT ![d] = @ + 1]
  /\ UNCHANGED <<audited, session, gone, pc, given, got, out, recorded>>

PeerLeaves(x) ==
  /\ conn[x] = "open" /\ x \notin gone
  /\ gone' = gone \cup {x}
  /\ UNCHANGED <<audited, session, pc, frames>>

-----------------------------------------------------------------------------
(* ServeHTTP *)

\* DialContext; an error is answered and returned.
Dial ==
  /\ hpc = "dial"
  /\ \/ hpc' = "upgrade" /\ conn' = [conn EXCEPT !["upstream"] = "open"]
     \/ hpc' = "returned" /\ UNCHANGED conn
  /\ UNCHANGED <<audited, errs, gone, pc, frames>>

\* Upgrade, and the two go statements; an error goes to the deferred Close.
Upgrade ==
  /\ hpc = "upgrade"
  /\ \/ /\ hpc' = "wait" /\ conn' = [conn EXCEPT !["client"] = "open"]
        /\ pc' = [d \in Pumps |-> "read"]
     \/ hpc' = "defer" /\ UNCHANGED <<conn, pc>>
  /\ UNCHANGED <<audited, errs, gone, frames>>

\* <-errCh
Receive ==
  /\ hpc = "wait" /\ errs > 0
  /\ errs' = errs - 1 /\ hpc' = "closeClient"
  /\ UNCHANGED <<audited, conn, gone, pc, frames>>

\* closeBoth: client.Close(), then upstream.Close()
CloseBoth ==
  /\ \/ hpc = "closeClient" /\ hpc' = "closeUpstream"
        /\ conn' = [conn EXCEPT !["client"] = "closed"]
     \/ hpc = "closeUpstream" /\ hpc' = "defer"
        /\ conn' = [conn EXCEPT !["upstream"] = "closed"]
  /\ UNCHANGED <<audited, errs, gone, pc, frames>>

\* defer upstream.Close(), defer client.Close()
Closed(x) == IF conn[x] = "none" THEN "none" ELSE "closed"

Deferred ==
  /\ hpc = "defer" /\ hpc' = "returned"
  /\ conn' = [x \in Peers |-> Closed(x)]
  /\ UNCHANGED <<audited, errs, gone, pc, frames>>

Handler == Dial \/ Upgrade \/ Receive \/ CloseBoth \/ Deferred

-----------------------------------------------------------------------------
(* The pumps *)

Goto(d, from, to) == pc[d] = from /\ pc' = [pc EXCEPT ![d] = to]

\* Slip: the client's frames are forwarded unseen.
AfterRead_NoAudit(d) == "write"

AfterRead(d) == IF d = "up" THEN "record" ELSE "write"

\* ReadMessage returns a frame.
Read(d) ==
  /\ conn[Src(d)] = "open" /\ got[d] < given[d]
  /\ Goto(d, "read", AfterRead(d))
  /\ got' = [got EXCEPT ![d] = @ + 1]
  /\ UNCHANGED <<audited, session, gone, given, out, taken, recorded>>

\* Slip: the pump reads on after the peer has left.
Broken_OwnEndOnly(x) == conn[x] = "closed"

\* A read or a write fails; what a peer that left had sent before may be lost.
Broken(x) == conn[x] = "closed" \/ x \in gone

ReadFails(d) ==
  /\ Broken(Src(d)) /\ Goto(d, "read", "report")
  /\ UNCHANGED <<audited, session, gone, frames>>

\* Slip: a frame without a record is not forwarded.
AfterRecord_AuditedOnly == IF got["up"] \in audited THEN "write" ELSE "read"

AfterRecord == "write"

\* Enqueue, which does not wait, if the frame makes a record.
Record ==
  /\ Goto("up", "record", AfterRecord)
  /\ recorded' = [recorded EXCEPT ![got["up"]] = IF got["up"] \in audited THEN @ + 1 ELSE @]
  /\ UNCHANGED <<audited, session, gone, given, got, out, taken>>

HasRoom(d) == Len(out[d]) - taken[d] < Window

\* WriteMessage; a frame may still go into the connection of a peer that has left.
Write(d) ==
  /\ conn[Dst(d)] = "open" /\ HasRoom(d)
  /\ Goto(d, "write", "read")
  /\ out' = [out EXCEPT ![d] = Append(@, got[d])]
  /\ UNCHANGED <<audited, session, gone, given, got, taken, recorded>>

WriteFails(d) ==
  /\ Broken(Dst(d)) /\ Goto(d, "write", "report")
  /\ UNCHANGED <<audited, session, gone, frames>>

\* Slip: errCh has no buffer.
Buffered_None == hpc = "wait" /\ errs = 0

\* make(chan error, 2)
Buffered == errs < 2

\* errCh <- err
Report(d) ==
  /\ Buffered /\ Goto(d, "report", "ended")
  /\ errs' = errs + 1
  /\ UNCHANGED <<audited, hpc, conn, gone, frames>>

Pump(d) == \/ Read(d) \/ ReadFails(d) \/ (d = "up" /\ Record)
           \/ Write(d) \/ WriteFails(d) \/ Report(d)

-----------------------------------------------------------------------------
Next ==
  \/ Handler
  \/ \E d \in Pumps : Pump(d) \/ PeerSends(d) \/ PeerReads(d)
  \/ \E x \in Peers : PeerLeaves(x)

SafeSpec == Init /\ [][Next]_vars

\* The three goroutines are scheduled, and the dial ends, by its HandshakeTimeout at the
\* latest.  The upgrader has no timeout, so nothing is said of Upgrade, which writes to
\* the client.  The peers need never do anything.
Spec ==
  /\ SafeSpec
  /\ WF_vars(Dial \/ Receive \/ CloseBoth \/ Deferred)
  /\ \A d \in Pumps : WF_vars(Pump(d))

-----------------------------------------------------------------------------
(* Properties *)

TypeOK ==
  /\ audited \subseteq Frames
  /\ hpc \in {"dial", "upgrade", "wait", "closeClient", "closeUpstream", "defer", "returned"}
  /\ conn \in [Peers -> {"none", "open", "closed"}]
  /\ gone \subseteq Peers /\ errs \in 0..2
  /\ pc \in [Pumps -> {"off", "read", "record", "write", "report", "ended"}]
  /\ given \in [Pumps -> 0..MaxFrames] /\ got \in [Pumps -> 0..MaxFrames]
  /\ out \in [Pumps -> Seq(Frames)] /\ taken \in [Pumps -> Nat]
  /\ recorded \in [Frames -> Nat]

\* Either peer gets the other's frames in the order sent, each once and none left
\* out, whatever the audit makes of them and whenever a connection breaks.
FramesInOrder ==
  \A d \in Pumps : \A n \in 1..Len(out[d]) : out[d][n] = n

\* A frame that makes a record goes upstream only after it was offered to the queue,
\* and is offered once; at most one frame is recorded that upstream never gets.
AuditLeadsByOne ==
  \E ahead \in {0, 1} : \A n \in Frames :
    recorded[n] = IF n \in audited /\ n <= Len(out["up"]) + ahead THEN 1 ELSE 0

\* The first error ends the session and both pumps and leaves no connection open,
\* though a pump may be blocked in a read or a write and neither peer may ever move
\* again.
SessionEnds ==
  \A d \in Pumps :
    pc[d] = "report" ~> /\ hpc = "returned" /\ \A e \in Pumps : pc[e] = "ended"
                        /\ \A x \in Peers : conn[x] # "open"

\* A peer that leaves ends the session, however much was on its way to it, if the other
\* peer keeps reading what is forwarded to it and the upgrade was answered.  (If the
\* other one does not read, a pump may stay in its write for ever, and so may the
\* upgrade: neither write has a deadline.)
LeavingIsNoticed ==
  (\A d \in Pumps : []<>(HasRoom(d) \/ Dst(d) \in gone)) =>
    (gone # {} /\ hpc \notin {"dial", "upgrade"} ~> hpc = "returned")
=============================================================================
