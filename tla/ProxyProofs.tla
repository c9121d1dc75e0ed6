---------------------------- MODULE ProxyProofs ----------------------------
(***************************************************************************)
(* Proofs about what passes through the proxy: the body of a request       *)
(* (BodyCapture), the frames of a WebSocket session (WebSocketPumps), and  *)
(* the prompt that is cut from either (Prompt).                            *)
(*                                                                         *)
(* Bodies of any size, any limit below the largest int64 and reads of any  *)
(* length: the bytes sent upstream and the bytes put back are together the *)
(* bytes read from the client, in order.                                   *)
(*                                                                         *)
(* Any number of frames and any window: a pump holds at most one frame,    *)
(* the last it has read; so what it has written is what it has read up to  *)
(* that frame, and what it has recorded is what it has read up to the      *)
(* frame it is about to record.                                            *)
(*                                                                         *)
(* Every text and every limit: the loop keeps the index at or below the    *)
(* size it has counted, because no rune takes more bytes than its encoding *)
(* has; and the index is the sum of the runes before it, by induction on   *)
(* the text.                                                               *)
(***************************************************************************)
EXTENDS BodyCapture, WebSocketPumps, Prompt, WellFoundedInduction, TLAPS

(* The body of a request *)

Types ==
  /\ req \in HttpRequests /\ limit \in CaptureLimits
  /\ pos \in Nat /\ pos <= req.size /\ left \in Int
  /\ prefix \in Seq(Nat) /\ sent \in Seq(Nat)

\* Byte i of the body is i: sent, and then prefix, are what was read so far.
Accounted ==
  /\ Len(sent) + Len(prefix) = pos
  /\ \A i \in 1..Len(sent) : sent[i] = i
  /\ \A i \in 1..Len(prefix) : prefix[i] = Len(sent) + i

\* What holds at each place of ServeHTTP.
AtServe == pos = 0 /\ original = TRUE /\ closed = FALSE /\ copy = NotCaptured
AtRead ==
  /\ Len(sent) = 0 /\ original = TRUE /\ closed = FALSE /\ copy = NotCaptured
  /\ left = limit + 1 - Len(prefix) /\ left >= 0
  /\ ShouldCapture /\ Readable
AtForward ==
  \/ original = TRUE /\ closed = FALSE
  \/ original = FALSE /\ pos = req.size /\ req.broken = FALSE
Delivered == Len(sent) = req.size
Whole ==
  spc \notin {"serve", "read"} =>
    copy = IF ShouldCapture /\ Readable /\ ~req.broken /\ req.size <= limit
             THEN Body(req.size) ELSE NotCaptured

Places ==
  /\ spc \in {"serve", "read", "forward", "complete", "aborted", "unavailable"}
  /\ spc = "serve" => AtServe
  /\ spc = "read" => AtRead
  /\ spc = "forward" => AtForward
  /\ spc = "complete" => Delivered /\ req.broken = FALSE
  /\ spc = "aborted" => Delivered /\ req.broken = TRUE
  /\ Whole

BodyInv == Types /\ Accounted /\ Places

-----------------------------------------------------------------------------
LEMMA RequestTypes ==
  ASSUME req \in HttpRequests, limit \in CaptureLimits, Representable
  PROVE  /\ req.size \in Nat /\ req.broken \in BOOLEAN
         /\ limit \in Nat \ {0} /\ limit < MaxInt /\ MaxInt \in Nat
<1>1. req \in Request
  BY RequestsAssumption
<1>2. req.size \in Nat /\ req.broken \in BOOLEAN
  BY <1>1, Zenon DEF Request
<1>3. limit \in 1..MaxInt /\ limit # MaxInt /\ MaxInt \in Nat
  BY LimitsAssumption DEF Representable
<1> QED BY <1>2, <1>3

LEMMA ChunkType == Chunk \in Nat \ {0}
BY LimitsAssumption

LEMMA Joined ==
  ASSUME NEW s \in Seq(Nat), NEW t \in Seq(Nat)
  PROVE  /\ s \o t \in Seq(Nat) /\ Len(s \o t) = Len(s) + Len(t)
         /\ \A i \in 1..Len(s) : (s \o t)[i] = s[i]
         /\ \A i \in (Len(s) + 1)..(Len(s) + Len(t)) : (s \o t)[i] = t[i - Len(s)]
<1>1. Len(s) \in Nat /\ Len(t) \in Nat
  OBVIOUS
<1>2. /\ s \o t \in Seq(Nat) /\ Len(s \o t) = Len(s) + Len(t)
      /\ \A i \in 1..(Len(s) + Len(t)) :
           (s \o t)[i] = IF i <= Len(s) THEN s[i] ELSE t[i - Len(s)]
  OBVIOUS
<1> QED BY <1>1, <1>2

LEMMA Split ==
  ASSUME NEW s \in Seq(Nat), NEW n \in Nat, 1 <= n, n <= Len(s)
  PROVE  /\ SubSeq(s, 1, n) \in Seq(Nat) /\ Len(SubSeq(s, 1, n)) = n
         /\ \A i \in 1..n : SubSeq(s, 1, n)[i] = s[i]
         /\ SubSeq(s, n + 1, Len(s)) \in Seq(Nat)
         /\ Len(SubSeq(s, n + 1, Len(s))) = Len(s) - n
         /\ \A i \in 1..(Len(s) - n) : SubSeq(s, n + 1, Len(s))[i] = s[n + i]
<1>1. Len(s) \in Nat /\ \A i \in 1..Len(s) : s[i] \in Nat
  OBVIOUS
<1>2. \A i \in 1..n : s[i] \in Nat
  BY <1>1
<1>3. \A i \in (n + 1)..Len(s) : s[i] \in Nat
  BY <1>1
<1>4. /\ SubSeq(s, 1, n) \in Seq(Nat)
      /\ Len(SubSeq(s, 1, n)) = IF 1 <= n THEN n - 1 + 1 ELSE 0
      /\ \A i \in 1..(n - 1 + 1) : SubSeq(s, 1, n)[i] = s[1 + i - 1]
  BY <1>2
<1>5. /\ SubSeq(s, n + 1, Len(s)) \in Seq(Nat)
      /\ Len(SubSeq(s, n + 1, Len(s)))
           = IF n + 1 <= Len(s) THEN Len(s) - (n + 1) + 1 ELSE 0
      /\ \A i \in 1..(Len(s) - (n + 1) + 1) :
           SubSeq(s, n + 1, Len(s))[i] = s[(n + 1) + i - 1]
  <2> DEFINE a == n + 1
             b == Len(s)
  <2>1. a \in Int /\ b \in Int /\ \A i \in a..b : s[i] \in Nat
    BY <1>1, <1>3
  <2> HIDE DEF a, b
  <2>2. /\ SubSeq(s, a, b) \in Seq(Nat)
        /\ Len(SubSeq(s, a, b)) = IF a <= b THEN b - a + 1 ELSE 0
        /\ \A i \in 1..(b - a + 1) : SubSeq(s, a, b)[i] = s[a + i - 1]
    BY <2>1
  <2> QED BY <2>2 DEF a, b
<1>6. Len(SubSeq(s, 1, n)) = n /\ \A i \in 1..n : SubSeq(s, 1, n)[i] = s[i]
  BY <1>4
<1>7. /\ Len(SubSeq(s, n + 1, Len(s))) = Len(s) - n
      /\ \A i \in 1..(Len(s) - n) : SubSeq(s, n + 1, Len(s))[i] = s[n + i]
  BY <1>1, <1>5
<1> QED BY <1>4, <1>5, <1>6, <1>7

LEMMA BodyInit == ASSUME ServeInit, Representable PROVE BodyInv
<1>1. Types
  BY RequestTypes DEF ServeInit, Types
<1>2. Accounted
  BY DEF ServeInit, Accounted
<1>3. Places
  BY DEF ServeInit, Places, AtServe, Whole
<1> QED BY <1>1, <1>2, <1>3 DEF BodyInv

\* Neither the request nor the configuration changes, nor what is decided from them.
LEMMA SameDecision ==
  ASSUME UNCHANGED <<req, limit>>
  PROVE  ShouldCapture' = ShouldCapture /\ Readable' = Readable
BY DEF ShouldCapture, Readable

LEMMA ServeStep == ASSUME BodyInv, ServeHTTP, Representable PROVE BodyInv'
<1> USE DEF BodyInv
<1>1. Types'
  BY RequestTypes DEF ServeHTTP, Types, ReadLimit, Wrap
<1>2. Accounted'
  BY DEF ServeHTTP, Accounted
<1>3. Places'
  <2>1. AtServe /\ Len(prefix) = 0 /\ Len(sent) = 0
    BY DEF ServeHTTP, Places, Accounted, AtServe, Types
  <2>2. CASE ShouldCapture /\ Readable
    <3>1. ReadLimit = limit + 1
      BY RequestTypes DEF ReadLimit, Wrap, Types
    <3>2. spc' = "read" /\ AtRead'
      BY <2>1, <2>2, <3>1, SameDecision, RequestTypes
      DEF ServeHTTP, AtServe, AtRead, Types
    <3> QED BY <3>2 DEF Places, Whole
  <2>3. CASE ~(ShouldCapture /\ Readable)
    <3>1. spc' = "forward" /\ AtForward' /\ copy' = NotCaptured
      BY <2>1, <2>3 DEF ServeHTTP, AtServe, AtForward
    <3>2. Whole'
      BY <2>3, <3>1, SameDecision DEF ServeHTTP, Whole
    <3> QED BY <3>1, <3>2 DEF Places
  <2> QED BY <2>2, <2>3
<1> QED BY <1>1, <1>2, <1>3

LEMMA ReadAllStep == ASSUME BodyInv, ReadAll, Representable PROVE BodyInv'
<1> USE DEF BodyInv
<1>1. PICK n \in Reads(left) :
        prefix' = prefix \o Ahead(n) /\ pos' = pos + n /\ left' = left - n
  BY DEF ReadAll
<1>2. n \in Nat /\ n >= 1 /\ n <= left /\ n <= req.size - pos
  BY ChunkType DEF Reads
<1>3. Ahead(n) \in Seq(Nat) /\ Len(Ahead(n)) = n /\ \A i \in 1..n : Ahead(n)[i] = pos + i
  BY <1>2 DEF Ahead, Types
<1>j. /\ prefix' \in Seq(Nat) /\ Len(prefix') = Len(prefix) + n
      /\ \A i \in 1..Len(prefix) : prefix'[i] = prefix[i]
      /\ \A i \in (Len(prefix) + 1)..(Len(prefix) + n) :
           prefix'[i] = Ahead(n)[i - Len(prefix)]
  <2> DEFINE t == Ahead(n)
  <2>1. prefix \in Seq(Nat) /\ t \in Seq(Nat) /\ Len(t) = n /\ prefix' = prefix \o t
    BY <1>1, <1>3 DEF Types
  <2> HIDE DEF t
  <2> SUFFICES /\ prefix' \in Seq(Nat) /\ Len(prefix') = Len(prefix) + n
               /\ \A i \in 1..Len(prefix) : prefix'[i] = prefix[i]
               /\ \A i \in (Len(prefix) + 1)..(Len(prefix) + n) :
                    prefix'[i] = t[i - Len(prefix)]
    BY DEF t
  <2> QED BY <2>1, Joined, Zenon
<1>l. Len(prefix) \in Nat /\ Len(sent) \in Nat
  BY DEF Types
<1>4. Types'
  <2>1. pos' \in Nat /\ left' \in Int /\ pos' <= req.size
    BY <1>1, <1>2, RequestTypes DEF Types
  <2> QED BY <1>j, <2>1 DEF ReadAll, Types
<1>5. AtRead
  BY DEF ReadAll, Places
<1>6. Accounted'
  <2>2. ASSUME NEW i \in 1..Len(prefix') PROVE prefix'[i] = Len(sent) + i
    <3>1. CASE i <= Len(prefix)
      BY <1>j, <1>l, <2>2, <3>1 DEF Accounted
    <3>2. CASE i > Len(prefix)
      <4>1. i - Len(prefix) \in 1..n
        BY <1>2, <1>j, <1>l, <2>2, <3>2
      <4>2. prefix'[i] = pos + (i - Len(prefix))
        BY <1>2, <1>3, <1>j, <1>l, <2>2, <3>2, <4>1
      <4> QED BY <1>l, <4>2 DEF Accounted
    <3> QED BY <1>l, <3>1, <3>2
  <2>3. sent' = sent /\ Len(sent') + Len(prefix') = pos'
    BY <1>1, <1>2, <1>j, <1>l DEF ReadAll, Accounted
  <2> QED BY <2>2, <2>3 DEF Accounted
<1>7. AtRead'
  <2>1. left' = limit' + 1 - Len(prefix') /\ left' >= 0
    <3>1. limit \in Nat /\ limit' = limit
      BY RequestTypes DEF ReadAll, Types
    <3> QED BY <1>1, <1>2, <1>5, <1>j, <1>l, <3>1 DEF AtRead, Types
  <2> QED BY <1>5, <2>1, SameDecision DEF ReadAll, AtRead
<1>8. Places'
  BY <1>7 DEF ReadAll, Places, Whole
<1> QED BY <1>4, <1>6, <1>8

\* What ReadAll has read when it is captured is the whole body.
LEMMA WholeWhenCaptured ==
  ASSUME Types, Accounted, AtRead, AtEnd, ~ReadError, Len(prefix) <= limit, Representable
  PROVE  pos = req.size /\ req.broken = FALSE /\ prefix = Body(req.size)
<1>1. left > 0
  BY RequestTypes DEF AtRead, Types
<1>2. pos = req.size
  BY <1>1 DEF AtEnd, Types
<1>3. req.broken = FALSE
  BY <1>1, RequestTypes DEF ReadError, Types
<1>4. Len(prefix) = req.size /\ \A i \in 1..Len(prefix) : prefix[i] = i
  BY <1>2 DEF Accounted, AtRead, Types
<1>5. prefix = [i \in 1..Len(prefix) |-> prefix[i]]
  BY DEF Types
<1>6. prefix = Body(req.size)
  BY <1>4, <1>5 DEF Body
<1> QED BY <1>2, <1>3, <1>6

LEMMA ReadDoneStep == ASSUME BodyInv, ReadDone, Representable PROVE BodyInv'
<1> USE DEF BodyInv
<1>1. AtRead /\ AtEnd /\ spc' = "forward"
  BY DEF ReadDone, Places
<1>2. Types'
  BY DEF ReadDone, Types
<1>3. Accounted'
  BY DEF ReadDone, Accounted
<1>4. UNCHANGED <<req, limit>>
  BY DEF ReadDone
<1>5. CASE ReadError \/ Len(prefix) > limit
  <2>1. AtForward' /\ copy' = NotCaptured
    BY <1>1, <1>5, Zenon DEF ReadDone, PutBack, AtRead, AtForward
  <2>2. req.broken = TRUE \/ req.size > limit
    BY <1>1, <1>5, RequestTypes DEF ReadError, AtRead, Accounted, Types
  <2>3. Whole'
    BY <1>4, <2>1, <2>2, RequestTypes, SameDecision DEF Whole, Types
  <2> QED BY <1>1, <1>2, <1>3, <2>1, <2>3 DEF Places
<1>6. CASE ~(ReadError \/ Len(prefix) > limit)
  <2>1. Len(prefix) <= limit
    BY <1>6, RequestTypes DEF Types
  <2>2. pos = req.size /\ req.broken = FALSE /\ prefix = Body(req.size)
    BY <1>1, <1>6, <2>1, WholeWhenCaptured, Zenon
  <2>3. original' = FALSE /\ copy' = prefix /\ pos' = pos
    BY <1>6 DEF ReadDone, Capture
  <2>4. AtForward'
    BY <1>4, <2>2, <2>3 DEF AtForward
  <2>5. req.size <= limit
    BY <1>1, <2>1, <2>2, RequestTypes DEF Accounted, AtRead, Types
  <2>6. ShouldCapture /\ Readable
    BY <1>1 DEF AtRead
  <2>7. copy' = Body(req.size)
    BY <2>2, <2>3
  <2>8. Whole'
    BY <1>4, <2>2, <2>5, <2>6, <2>7, SameDecision DEF Whole, Body
  <2> QED BY <1>1, <1>2, <1>3, <2>4, <2>8 DEF Places
<1> QED BY <1>5, <1>6

-----------------------------------------------------------------------------
LEMMA SendPrefixStep == ASSUME BodyInv, SendPrefix PROVE BodyInv'
<1> USE DEF BodyInv
<1>1. PICK n \in {k \in 1..Chunk : k <= Len(prefix)} :
        /\ sent' = sent \o SubSeq(prefix, 1, n)
        /\ prefix' = SubSeq(prefix, n + 1, Len(prefix))
  BY Zenon DEF SendPrefix
<1>2. n \in Nat /\ n >= 1 /\ n <= Len(prefix) /\ Len(prefix) \in Nat
  BY ChunkType DEF Types
<1>3. /\ SubSeq(prefix, 1, n) \in Seq(Nat) /\ Len(SubSeq(prefix, 1, n)) = n
      /\ \A i \in 1..n : SubSeq(prefix, 1, n)[i] = prefix[i]
  BY <1>2, Split DEF Types
<1>4. /\ prefix' \in Seq(Nat) /\ Len(prefix') = Len(prefix) - n
      /\ \A i \in 1..(Len(prefix) - n) : prefix'[i] = prefix[n + i]
  BY <1>1, <1>2, Split DEF Types
<1>5. /\ sent' \in Seq(Nat) /\ Len(sent') = Len(sent) + n
      /\ \A i \in 1..Len(sent) : sent'[i] = sent[i]
      /\ \A i \in (Len(sent) + 1)..(Len(sent) + n) :
           sent'[i] = SubSeq(prefix, 1, n)[i - Len(sent)]
  <2> DEFINE t == SubSeq(prefix, 1, n)
  <2>1. sent \in Seq(Nat) /\ t \in Seq(Nat) /\ Len(t) = n /\ sent' = sent \o t
    BY <1>1, <1>3 DEF Types
  <2> HIDE DEF t
  <2> SUFFICES /\ sent' \in Seq(Nat) /\ Len(sent') = Len(sent) + n
               /\ \A i \in 1..Len(sent) : sent'[i] = sent[i]
               /\ \A i \in (Len(sent) + 1)..(Len(sent) + n) : sent'[i] = t[i - Len(sent)]
    BY Zenon DEF t
  <2> QED BY <2>1, Joined, Zenon
<1>l. Len(sent) \in Nat
  BY DEF Types
<1>6. Types'
  BY <1>4, <1>5, Zenon DEF SendPrefix, Types
<1>7. Accounted'
  <2>1. ASSUME NEW i \in 1..Len(sent') PROVE sent'[i] = i
    <3>1. CASE i <= Len(sent)
      <4>1. i \in 1..Len(sent)
        BY <1>2, <1>5, <1>l, <2>1, <3>1
      <4> QED BY <1>5, <4>1, Zenon DEF Accounted
    <3>2. CASE i > Len(sent)
      <4>1. i - Len(sent) \in 1..n
        BY <1>2, <1>5, <1>l, <2>1, <3>2
      <4>2. sent'[i] = prefix[i - Len(sent)]
        <5>1. i \in (Len(sent) + 1)..(Len(sent) + n)
          BY <1>2, <1>5, <1>l, <2>1, <3>2
        <5>2. sent'[i] = SubSeq(prefix, 1, n)[i - Len(sent)]
          BY <1>5, <5>1, Zenon
        <5> QED BY <1>3, <4>1, <5>2, Zenon
      <4> QED BY <1>2, <1>l, <4>1, <4>2 DEF Accounted
    <3> QED BY <1>l, <3>1, <3>2
  <2>2. ASSUME NEW i \in 1..Len(prefix') PROVE prefix'[i] = Len(sent') + i
    <3>1. i \in Nat /\ n + i \in 1..Len(prefix) /\ prefix'[i] = prefix[n + i]
      BY <1>2, <1>4, <2>2
    <3> QED BY <1>2, <1>5, <1>l, <3>1 DEF Accounted
  <2>3. pos' = pos /\ Len(sent') + Len(prefix') = pos'
    <3>1. pos' = pos /\ Len(sent) + Len(prefix) = pos
      BY DEF SendPrefix, Accounted
    <3> QED BY <1>2, <1>4, <1>5, <1>l, <3>1
  <2> QED BY <2>1, <2>2, <2>3 DEF Accounted
<1>8. spc = "forward" /\ UNCHANGED <<req, limit, spc, pos, closed, original, copy>>
  BY DEF SendPrefix
<1>9. Places'
  BY <1>8, SameDecision DEF Places, AtForward, Whole, Body
<1> QED BY <1>6, <1>7, <1>9

LEMMA SendOriginalStep == ASSUME BodyInv, SendOriginal, Representable PROVE BodyInv'
<1> USE DEF BodyInv
<1>1. PICK n \in Reads(Chunk) : sent' = sent \o Ahead(n) /\ pos' = pos + n
  BY DEF SendOriginal
<1>2. n \in Nat /\ n >= 1 /\ n <= req.size - pos
  BY ChunkType DEF Reads
<1>3. Ahead(n) \in Seq(Nat) /\ Len(Ahead(n)) = n /\ \A i \in 1..n : Ahead(n)[i] = pos + i
  BY <1>2 DEF Ahead, Types
<1>4. /\ sent' \in Seq(Nat) /\ Len(sent') = Len(sent) + n
      /\ \A i \in 1..Len(sent) : sent'[i] = sent[i]
      /\ \A i \in (Len(sent) + 1)..(Len(sent) + n) : sent'[i] = Ahead(n)[i - Len(sent)]
  <2> DEFINE t == Ahead(n)
  <2>1. sent \in Seq(Nat) /\ t \in Seq(Nat) /\ Len(t) = n /\ sent' = sent \o t
    BY <1>1, <1>3 DEF Types
  <2> HIDE DEF t
  <2> SUFFICES /\ sent' \in Seq(Nat) /\ Len(sent') = Len(sent) + n
               /\ \A i \in 1..Len(sent) : sent'[i] = sent[i]
               /\ \A i \in (Len(sent) + 1)..(Len(sent) + n) : sent'[i] = t[i - Len(sent)]
    BY Zenon DEF t
  <2> QED BY <2>1, Joined, Zenon
<1>5. Types'
  <2>1. pos' \in Nat /\ pos' <= req.size
    BY <1>1, <1>2, RequestTypes DEF Types
  <2>2. UNCHANGED <<req, limit, left, prefix>> BY Zenon DEF SendOriginal
  <2> QED BY <1>4, <2>1, <2>2, Zenon DEF Types
<1>6. Len(prefix) = 0 /\ Len(sent) = pos /\ prefix' = prefix
  BY DEF SendOriginal, Accounted, Types
<1>7. Accounted'
  <2>1. ASSUME NEW i \in 1..Len(sent') PROVE sent'[i] = i
    <3>1. CASE i <= Len(sent)
      BY <1>4, <1>6, <2>1, <3>1 DEF Accounted, Types
    <3>2. CASE i > Len(sent)
      <4>1. pos \in Nat /\ i - Len(sent) \in 1..n
        BY <1>2, <1>4, <1>6, <2>1, <3>2 DEF Types
      <4>2. sent'[i] = pos + (i - Len(sent))
        BY <1>2, <1>3, <1>4, <1>6, <2>1, <3>2, <4>1
      <4> QED BY <1>6, <2>1, <4>1, <4>2
    <3> QED BY <1>6, <2>1, <3>1, <3>2 DEF Types
  <2> QED BY <1>1, <1>2, <1>4, <1>6, <2>1 DEF Accounted, Types
<1>8. /\ spc = "forward" /\ UNCHANGED <<req, limit, spc, closed, original, copy>>
      /\ original /\ ~closed
  BY DEF SendOriginal
<1>9. AtForward'
  BY <1>8 DEF Places, AtForward
<1>10. Places'
  BY <1>8, <1>9, SameDecision DEF Places, Whole, Body
<1> QED BY <1>5, <1>7, <1>10

LEMMA SendDoneStep == ASSUME BodyInv, SendDone, Representable PROVE BodyInv'
<1> USE DEF BodyInv
<1>1. AtForward /\ UNCHANGED <<req, limit, pos, left, prefix, original, copy, sent>>
  BY DEF SendDone, Places
<1>2. Types' /\ Accounted'
  BY <1>1 DEF Types, Accounted
<1>3. pos = req.size /\ Len(sent) = req.size
  BY <1>1 DEF SendDone, AtForward, Accounted, Types
<1>4. CASE BodyFails
  <2>1. req.broken = TRUE /\ spc' = "aborted"
    BY <1>1, <1>4, RequestTypes DEF SendDone, BodyFails, AtForward, Types
  <2> QED BY <1>1, <1>2, <1>3, <2>1, SameDecision
          DEF Places, Delivered, Whole, Body, SendDone
<1>5. CASE ~BodyFails
  <2>1. req.broken = FALSE /\ spc' = "complete"
    BY <1>1, <1>5, RequestTypes DEF SendDone, BodyFails, AtForward, Types
  <2> QED BY <1>1, <1>2, <1>3, <2>1, SameDecision
          DEF Places, Delivered, Whole, Body, SendDone
<1> QED BY <1>4, <1>5

LEMMA UpstreamFailsStep == ASSUME BodyInv, UpstreamFails PROVE BodyInv'
<1>1. UNCHANGED <<req, limit, pos, left, prefix, original, copy, sent>>
  BY DEF UpstreamFails
<1> QED BY <1>1, SameDecision
        DEF BodyInv, Types, Accounted, Places, UpstreamFails, Whole, Body

LEMMA BodyStutter == ASSUME BodyInv, UNCHANGED serveVars PROVE BodyInv'
BY SameDecision DEF BodyInv, Types, Accounted, Places, AtServe, AtRead, AtForward, Delivered,
                    Whole, Body, serveVars

LEMMA SameLimit == [ServeNext]_serveVars => limit' = limit
BY DEF ServeNext, ServeHTTP, ReadAll, ReadDone, SendPrefix, SendOriginal, SendDone, UpstreamFails,
       serveVars

LEMMA BodyCorrect == ServeSpec => [](Representable => BodyInv)
<1>1. ServeInit => (Representable => BodyInv)
  BY BodyInit
<1>2. ASSUME Representable => BodyInv, [ServeNext]_serveVars, Representable' PROVE BodyInv'
  <2>1. Representable BY <1>2, SameLimit DEF Representable
  <2>2. BodyInv BY <1>2, <2>1
  <2> QED
    BY <1>2, <2>1, <2>2, ServeStep, ReadAllStep, ReadDoneStep, SendPrefixStep, SendOriginalStep,
       SendDoneStep, UpstreamFailsStep, BodyStutter DEF ServeNext
<1> QED BY <1>1, <1>2, PTL DEF ServeSpec

\* Of a body of any size upstream gets the original bytes, each once and in order,
\* whether readBodyForCapture took it, left it because it was too long, or met an error,
\* for every MaxCaptureBytes but the largest int64.
THEOREM ForwardingIsFaithful == ServeSpec => []ForwardedIsOriginal
<1>1. (Representable => BodyInv) => ForwardedIsOriginal
  <2> SUFFICES ASSUME BodyInv, Representable PROVE ForwardedIsOriginal
    BY DEF ForwardedIsOriginal
  <2>1. req.size \in Nat /\ req.broken \in BOOLEAN /\ Len(sent) \in Nat
    BY RequestTypes DEF BodyInv, Types
  <2>2. sent = [i \in 1..Len(sent) |-> sent[i]]
    BY DEF BodyInv, Types
  <2>3. sent = Body(Len(sent))
    BY <2>2 DEF BodyInv, Accounted, Body
  <2>4. Len(sent) <= req.size
    BY <2>1 DEF BodyInv, Accounted, Types
  <2>5. /\ spc = "complete" => Len(sent) = req.size /\ ~req.broken
        /\ spc = "aborted" => Len(sent) = req.size /\ req.broken
    BY <2>1 DEF BodyInv, Places, Delivered
  <2> QED BY <2>3, <2>4, <2>5 DEF ForwardedIsOriginal
<1> QED BY <1>1, BodyCorrect, PTL

\* The extractor gets the whole body or nothing, and gets it exactly when the request
\* qualifies and the body arrived within the limit, if that is not the largest int64.
THEOREM CaptureIsWhole == ServeSpec => []CapturedIsWhole
<1>1. (Representable => BodyInv) => CapturedIsWhole
  BY DEF BodyInv, Places, Whole, CapturedIsWhole
<1> QED BY <1>1, BodyCorrect, PTL
-----------------------------------------------------------------------------
(* The frames of a session *)

\* How far a pump's writes are behind its reads.
Position ==
  \A d \in Pumps :
    /\ pc[d] \in {"off", "read"} => Len(out[d]) = got[d]
    /\ pc[d] \in {"record", "write"} => Len(out[d]) = got[d] - 1
    /\ pc[d] \in {"report", "ended"} => Len(out[d]) \in {got[d] - 1, got[d]}

\* The client's frames that have passed Record.
Seen == IF pc["up"] = "record" THEN got["up"] - 1 ELSE got["up"]

Audit == \A n \in Frames : recorded[n] = IF n \in audited /\ n <= Seen THEN 1 ELSE 0

\* The pumps are started by Upgrade.
Early == hpc \in {"dial", "upgrade"} => \A d \in Pumps : pc[d] = "off"

PumpInv == TypeOK /\ Position /\ Audit /\ Early /\ FramesInOrder

LEMMA PumpInit == Init => PumpInv
<1> SUFFICES ASSUME Init PROVE PumpInv
  OBVIOUS
<1> USE PumpsAssumption DEF Init
<1>1. TypeOK
  BY DEF TypeOK, Frames
<1>2. Position /\ Early
  BY DEF Position, Early
<1>3. Audit
  BY DEF Audit, Seen, Frames, Pumps
<1>4. FramesInOrder
  BY DEF FramesInOrder
<1> QED BY <1>1, <1>2, <1>3, <1>4 DEF PumpInv

\* A step that leaves the pumps and their frames alone.
LEMMA QuietStep ==
  ASSUME PumpInv, TypeOK', Early', UNCHANGED <<audited, pc, got, out, recorded>>
  PROVE  PumpInv'
BY DEF PumpInv, Position, Audit, Seen, FramesInOrder

LEMMA PeerStep ==
  ASSUME PumpInv, \/ \E d \in Pumps : PeerSends(d) \/ PeerReads(d)
              \/ \E x \in Peers : PeerLeaves(x)
  PROVE  PumpInv'
<1> USE PumpsAssumption
<1>1. ASSUME NEW d \in Pumps, PeerSends(d) PROVE PumpInv'
  <2>1. given[d] + 1 \in 0..MaxFrames
    BY <1>1 DEF PeerSends, PumpInv, TypeOK
  <2>2. TypeOK' /\ Early'
    BY <1>1, <2>1 DEF PeerSends, session, PumpInv, TypeOK, Early
  <2> QED BY <1>1, <2>2, QuietStep DEF PeerSends
<1>2. ASSUME NEW d \in Pumps, PeerReads(d) PROVE PumpInv'
  <2>1. TypeOK' /\ Early'
    BY <1>2 DEF PeerReads, session, PumpInv, TypeOK, Early
  <2> QED BY <1>2, <2>1, QuietStep DEF PeerReads
<1>3. ASSUME NEW x \in Peers, PeerLeaves(x) PROVE PumpInv'
  <2>1. TypeOK' /\ Early'
    BY <1>3 DEF PeerLeaves, session, frames, PumpInv, TypeOK, Early
  <2> QED BY <1>3, <2>1, QuietStep DEF PeerLeaves, frames
<1> QED BY <1>1, <1>2, <1>3

LEMMA HandlerStep == ASSUME PumpInv, Handler PROVE PumpInv'
<1> USE DEF frames
<1>1. CASE Upgrade
  <2>1. TypeOK'
    BY <1>1 DEF Upgrade, PumpInv, TypeOK, Peers
  <2>2. Early'
    BY <1>1 DEF Upgrade, PumpInv, Early
  <2>3. \A d \in Pumps : pc[d] = "off" /\ pc'[d] \in {"off", "read"}
    BY <1>1 DEF Upgrade, PumpInv, Early
  <2>4. UNCHANGED <<audited, got, out, recorded>>
    BY <1>1 DEF Upgrade
  <2>5. Position'
    BY <2>3, <2>4 DEF PumpInv, Position
  <2>6. Audit'
    BY <2>3, <2>4 DEF PumpInv, Audit, Seen, Pumps
  <2>7. FramesInOrder'
    BY <2>4 DEF PumpInv, FramesInOrder
  <2> QED BY <2>1, <2>2, <2>5, <2>6, <2>7 DEF PumpInv
<1>2. ASSUME Dial \/ Receive \/ CloseBoth \/ Deferred PROVE PumpInv'
  <2>1. TypeOK'
    <3>1. CASE Dial
      BY <3>1 DEF Dial, PumpInv, TypeOK
    <3>2. CASE Receive
      BY <3>2 DEF Receive, PumpInv, TypeOK
    <3>3. CASE CloseBoth
      BY <3>3, Zenon DEF CloseBoth, PumpInv, TypeOK
    <3>4. CASE Deferred
      BY <3>4 DEF Deferred, Closed, PumpInv, TypeOK
    <3> QED BY <1>2, <3>1, <3>2, <3>3, <3>4
  <2>2. Early'
    BY <1>2 DEF Dial, Receive, CloseBoth, Deferred, PumpInv, Early
  <2> QED BY <1>2, <2>1, <2>2, QuietStep DEF Dial, Receive, CloseBoth, Deferred
<1> QED BY <1>1, <1>2 DEF Handler

\* A pump that fails or reports keeps the frames as they are.
LEMMA ErrorStep ==
  ASSUME PumpInv, NEW d \in Pumps, ReadFails(d) \/ WriteFails(d) \/ Report(d)
  PROVE  PumpInv'
<1> USE DEF frames, session
<1>1. /\ UNCHANGED <<audited, hpc, conn, gone, given, got, out, taken, recorded>>
      /\ errs' \in 0..2
      /\ \/ pc[d] \in {"read", "write"} /\ pc' = [pc EXCEPT ![d] = "report"]
         \/ pc[d] = "report" /\ pc' = [pc EXCEPT ![d] = "ended"]
  BY DEF ReadFails, WriteFails, Report, Goto, Buffered, PumpInv, TypeOK
<1>2. pc \in [Pumps -> {"off", "read", "record", "write", "report", "ended"}]
  BY DEF PumpInv, TypeOK
<1>3. TypeOK'
  BY <1>1, Zenon DEF PumpInv, TypeOK
<1>4. Early'
  BY <1>1, <1>2 DEF PumpInv, Early
<1>5. Position'
  BY <1>1, <1>2 DEF PumpInv, Position
<1>6. pc'["up"] = "record" <=> pc["up"] = "record"
  BY <1>1, <1>2 DEF Pumps
<1>7. Audit' /\ FramesInOrder'
  BY <1>1, <1>6 DEF PumpInv, Audit, Seen, FramesInOrder
<1> QED BY <1>3, <1>4, <1>5, <1>7 DEF PumpInv

LEMMA ReadStep == ASSUME PumpInv, NEW d \in Pumps, Read(d) PROVE PumpInv'
<1> USE PumpsAssumption
<1>1. /\ UNCHANGED <<audited, hpc, conn, gone, errs, given, out, taken, recorded>>
      /\ pc[d] = "read" /\ pc' = [pc EXCEPT ![d] = AfterRead(d)]
      /\ got' = [got EXCEPT ![d] = got[d] + 1] /\ got[d] < given[d]
  BY DEF Read, Goto, session
<1>2. /\ pc \in [Pumps -> {"off", "read", "record", "write", "report", "ended"}]
      /\ got \in [Pumps -> 0..MaxFrames] /\ given[d] \in 0..MaxFrames
  BY DEF PumpInv, TypeOK
<1>3. got[d] + 1 \in 0..MaxFrames /\ AfterRead(d) \in {"record", "write"}
  BY <1>1, <1>2 DEF AfterRead
<1>4. TypeOK'
  BY <1>1, <1>3 DEF PumpInv, TypeOK
<1>5. Early'
  BY <1>1, <1>2 DEF PumpInv, Early
<1>6. Position'
  BY <1>1, <1>2, <1>3 DEF PumpInv, Position
<1>7. Seen' = Seen
  BY <1>1, <1>2 DEF Seen, AfterRead, Pumps
<1>8. Audit' /\ FramesInOrder'
  BY <1>1, <1>7 DEF PumpInv, Audit, FramesInOrder
<1> QED BY <1>4, <1>5, <1>6, <1>8 DEF PumpInv

LEMMA RecordStep == ASSUME PumpInv, Record PROVE PumpInv'
<1> USE PumpsAssumption
<1> DEFINE f == got["up"]
<1>1. /\ UNCHANGED <<audited, hpc, conn, gone, errs, given, got, out, taken>>
      /\ pc["up"] = "record" /\ pc' = [pc EXCEPT !["up"] = "write"]
      /\ recorded' = [recorded EXCEPT ![f] = IF f \in audited THEN @ + 1 ELSE @]
  BY DEF Record, Goto, AfterRecord, session
<1>2. /\ pc \in [Pumps -> {"off", "read", "record", "write", "report", "ended"}]
      /\ recorded \in [Frames -> Nat] /\ f \in 0..MaxFrames /\ "up" \in Pumps
  BY DEF PumpInv, TypeOK, Pumps
<1>3. TypeOK'
  <2> HIDE DEF f
  <2>1. CASE f \in Frames
    <3>1. recorded[f] \in Nat /\ recorded[f] + 1 \in Nat
      BY <1>2, <2>1
    <3> QED BY <1>1, <1>2, <3>1, Zenon DEF PumpInv, TypeOK
  <2>2. CASE f \notin Frames
    BY <1>1, <1>2, <2>2, Zenon DEF PumpInv, TypeOK
  <2> QED BY <2>1, <2>2
<1>4. Early'
  BY <1>1, <1>2 DEF PumpInv, Early
<1>5. Position'
  BY <1>1, <1>2 DEF PumpInv, Position
<1>6. Seen = f - 1 /\ Seen' = f
  BY <1>1, <1>2 DEF Seen
<1>7. Audit'
  <2> SUFFICES ASSUME NEW n \in Frames
               PROVE  recorded'[n] = IF n \in audited /\ n <= f THEN 1 ELSE 0
    BY <1>1, <1>6 DEF Audit
  <2>1. recorded[n] = IF n \in audited /\ n <= f - 1 THEN 1 ELSE 0
    BY <1>6 DEF PumpInv, Audit
  <2> HIDE DEF f
  <2>2. CASE n = f
    BY <1>1, <1>2, <2>1, <2>2
  <2>3. CASE n # f
    <3>1. n <= f - 1 <=> n <= f
      BY <1>2, <2>3 DEF Frames
    <3> QED BY <1>1, <1>2, <2>1, <2>3, <3>1
  <2> QED BY <2>2, <2>3
<1>8. FramesInOrder'
  BY <1>1 DEF PumpInv, FramesInOrder
<1> QED BY <1>3, <1>4, <1>5, <1>7, <1>8 DEF PumpInv

LEMMA WriteStep == ASSUME PumpInv, NEW d \in Pumps, Write(d) PROVE PumpInv'
<1> USE PumpsAssumption
<1>1. /\ UNCHANGED <<audited, hpc, conn, gone, errs, given, got, taken, recorded>>
      /\ pc[d] = "write" /\ pc' = [pc EXCEPT ![d] = "read"]
      /\ out' = [out EXCEPT ![d] = Append(out[d], got[d])]
  BY DEF Write, Goto, session
<1>2. /\ pc \in [Pumps -> {"off", "read", "record", "write", "report", "ended"}]
      /\ got \in [Pumps -> 0..MaxFrames] /\ out \in [Pumps -> Seq(Frames)]
  BY DEF PumpInv, TypeOK
<1>3. Len(out[d]) = got[d] - 1 /\ got[d] \in Frames
  <2>1. Len(out[d]) = got[d] - 1
    BY <1>1 DEF PumpInv, Position
  <2>2. Len(out[d]) \in Nat
    BY <1>2
  <2> QED BY <1>2, <2>1, <2>2 DEF Frames
<1>4. /\ out'[d] \in Seq(Frames) /\ Len(out'[d]) = got[d]
      /\ \A n \in 1..Len(out'[d]) :
           out'[d][n] = IF n = got[d] THEN got[d] ELSE out[d][n]
  BY <1>1, <1>2, <1>3 DEF Frames
<1>5. \A e \in Pumps : e # d => out'[e] = out[e] /\ pc'[e] = pc[e]
  BY <1>1, <1>2
<1>6. TypeOK'
  <2>1. out' \in [Pumps -> Seq(Frames)]
    BY <1>1, <1>2, <1>4
  <2> QED BY <1>1, <2>1 DEF PumpInv, TypeOK
<1>7. Early'
  BY <1>1, <1>2 DEF PumpInv, Early
<1>8. Position'
  BY <1>1, <1>2, <1>4, <1>5 DEF PumpInv, Position
<1>9. Audit'
  BY <1>1, <1>2 DEF PumpInv, Audit, Seen, Pumps
<1>10. FramesInOrder'
  <2> SUFFICES ASSUME NEW e \in Pumps, NEW n \in 1..Len(out'[e]) PROVE out'[e][n] = n
    BY DEF FramesInOrder
  <2>1. CASE e = d
    <3>1. n # got[d] => n \in 1..Len(out[d])
      BY <1>2, <1>3, <1>4, <2>1
    <3> QED BY <1>4, <2>1, <3>1 DEF PumpInv, FramesInOrder
  <2>2. CASE e # d
    BY <1>5, <2>2, Zenon DEF PumpInv, FramesInOrder
  <2> QED BY <2>1, <2>2
<1> QED BY <1>6, <1>7, <1>8, <1>9, <1>10 DEF PumpInv

LEMMA PumpCorrect == SafeSpec => []PumpInv
<1>1. PumpInv /\ [Next]_vars => PumpInv'
  <2> SUFFICES ASSUME PumpInv, [Next]_vars PROVE PumpInv'
    OBVIOUS
  <2>1. ASSUME NEW d \in Pumps, Pump(d) PROVE PumpInv'
    BY <2>1, ReadStep, ErrorStep, RecordStep, WriteStep DEF Pump
  <2>2. CASE UNCHANGED vars
    <3>1. TypeOK' /\ Early'
      BY <2>2 DEF vars, session, frames, PumpInv, TypeOK, Early
    <3> QED BY <2>2, <3>1, QuietStep DEF vars, session, frames
  <2> QED BY <2>1, <2>2, HandlerStep, PeerStep DEF Next
<1> QED BY <1>1, PumpInit, PTL DEF SafeSpec

\* The pumps forward frames in order, none twice and none left out.
THEOREM FramesStayInOrder == SafeSpec => []FramesInOrder
<1>1. PumpInv => FramesInOrder
  BY DEF PumpInv
<1> QED BY <1>1, PumpCorrect, PTL

\* copyClientFrames records a frame before it forwards it, and once.
THEOREM AuditComesFirst == SafeSpec => []AuditLeadsByOne
<1>1. PumpInv => AuditLeadsByOne
  <2> SUFFICES ASSUME PumpInv PROVE AuditLeadsByOne
    OBVIOUS
  <2>1. /\ got["up"] \in 0..MaxFrames /\ Len(out["up"]) \in Nat
        /\ pc["up"] \in {"off", "read", "record", "write", "report", "ended"}
    BY DEF PumpInv, TypeOK, Pumps
  <2>2. PICK ahead \in {0, 1} : Seen = Len(out["up"]) + ahead
    BY <2>1, PumpsAssumption DEF PumpInv, Position, Seen, Pumps
  <2> QED BY <2>2 DEF PumpInv, Audit, AuditLeadsByOne
<1> QED BY <1>1, PumpCorrect, PTL
-----------------------------------------------------------------------------
(* Lengths of texts *)

Less == {p \in Nat \X Nat : p[1] < p[2]}

\* A set of naturals that is not empty has a least element: induction on texts is the
\* search for a least counterexample.
LEMMA LeastIndex ==
  ASSUME NEW T, T \subseteq Nat, T # {}
  PROVE  \E m \in T : \A n \in T : m <= n
<1>1. Less = OpToRel(<, Nat)
  BY Zenon DEF Less, OpToRel
<1>2. IsWellFoundedOn(Less, Nat)
  BY <1>1, NatLessThanWellFounded, Zenon
<1>3. PICK m \in T : \A n \in T : <<n, m>> \notin Less
  BY <1>2, WFMin, Zenon
<1>4. \A n \in T : <<n, m>> \in Nat \X Nat
  OBVIOUS
<1>5. \A n \in T : ~(n < m)
  BY <1>3, <1>4, Zenon DEF Less
<1> QED BY <1>5

\* g has the lengths of the first 0 .. n runes of v.
Sums(v, n, g) ==
  /\ g \in [0..n -> Nat] /\ g[0] = 0
  /\ \A i \in 1..n : g[i] = g[i - 1] + v[i].bytes

LEMMA SumsExist ==
  ASSUME NEW v \in Seq(Runes) PROVE \E g : Sums(v, Len(v), g)
<1> DEFINE Bad == {n \in 0..Len(v) : ~\E g : Sums(v, n, g)}
<1>1. Len(v) \in Nat /\ \A i \in 1..Len(v) : v[i].bytes \in Nat
  <2>1. \A i \in 1..Len(v) : v[i] \in Runes OBVIOUS
  <2> QED BY <2>1, RunesAssumption
<1>2. ASSUME Bad # {} PROVE FALSE
  <2>1. PICK m \in Bad : \A n \in Bad : m <= n
    <3>1. Bad \subseteq Nat BY <1>1
    <3> HIDE DEF Bad
    <3> QED BY <1>2, <3>1, LeastIndex, Zenon
  <2>2. m # 0
    <3>1. Sums(v, 0, [i \in 0..0 |-> 0]) BY DEF Sums
    <3> QED BY <2>1, <3>1
  <2>3. m \in 1..Len(v) /\ m - 1 \in 0..Len(v) /\ m - 1 \notin Bad
    <3>1. m \in 0..Len(v) OBVIOUS
    <3>2. m \in 1..Len(v) /\ m - 1 \in 0..Len(v) /\ ~(m <= m - 1) BY <1>1, <2>2, <3>1
    <3> HIDE DEF Bad
    <3> QED BY <2>1, <3>2
  <2>4. PICK g : Sums(v, m - 1, g) BY <2>3
  <2> DEFINE h == [i \in 0..m |-> IF i = m THEN g[m - 1] + v[m].bytes ELSE g[i]]
  <2>5. Sums(v, m, h)
    <3>1. g[m - 1] \in Nat /\ v[m].bytes \in Nat BY <1>1, <2>3, <2>4 DEF Sums
    <3>2. h \in [0..m -> Nat] BY <2>3, <2>4, <3>1 DEF Sums
    <3>3. h[0] = 0 BY <2>3, <2>4 DEF Sums
    <3>4. ASSUME NEW i \in 1..m PROVE h[i] = h[i - 1] + v[i].bytes
      <4>1. CASE i = m
        <5>1. m \in 0..m /\ m - 1 \in 0..m /\ m - 1 # m BY <2>3
        <5>2. h[m] = g[m - 1] + v[m].bytes /\ h[m - 1] = g[m - 1] BY <5>1
        <5> HIDE DEF h
        <5> QED BY <4>1, <5>2
      <4>2. CASE i # m
        <5>1. i \in 1..(m - 1) /\ i - 1 \in 0..m /\ i - 1 # m BY <2>3, <4>2
        <5> QED BY <2>3, <2>4, <4>2, <5>1 DEF Sums
      <4> QED BY <4>1, <4>2
    <3> HIDE DEF h
    <3> QED BY <3>2, <3>3, <3>4, Zenon DEF Sums
  <2> QED BY <2>1, <2>5
<1>3. Len(v) \notin Bad /\ Len(v) \in 0..Len(v) BY <1>1, <1>2
<1> QED BY <1>3

\* The equation of Offset.
LEMMA OffsetStep ==
  ASSUME NEW v \in Seq(Runes)
  PROVE  /\ Offset(v, 0) = 0 /\ \A i \in 0..Len(v) : Offset(v, i) \in Nat
         /\ \A i \in 1..Len(v) : Offset(v, i) = Offset(v, i - 1) + v[i].bytes
<1> DEFINE Step(g) == [i \in 0..Len(v) |-> IF i = 0 THEN 0 ELSE g[i - 1] + v[i].bytes]
           sum == CHOOSE g : g = Step(g)
<1>0. Len(v) \in Nat OBVIOUS
<1>1. PICK g : Sums(v, Len(v), g) BY SumsExist
<1>2. g = Step(g)
  <2>1. \A i \in 0..Len(v) : g[i] = Step(g)[i] BY <1>0, <1>1 DEF Sums
  <2>2. g \in [0..Len(v) -> Nat] BY <1>1 DEF Sums
  <2> QED BY <2>1, <2>2
<1>3. sum = Step(sum) BY <1>2, Zenon
<1>4. \A n : Offset(v, n) = sum[n] BY Zenon DEF Offset
<1> HIDE DEF sum
<1>5. /\ sum[0] = 0 /\ \A i \in 1..Len(v) : sum[i] = sum[i - 1] + v[i].bytes
  BY <1>0, <1>3
<1>6. \A i \in 0..Len(v) : sum[i] = g[i]
  <2> DEFINE Bad == {i \in 0..Len(v) : sum[i] # g[i]}
  <2>1. ASSUME Bad # {} PROVE FALSE
    <3>1. Bad \subseteq Nat BY <1>0
    <3>2. PICK m \in Bad : \A n \in Bad : m <= n
      <4> HIDE DEF Bad
      <4> QED BY <2>1, <3>1, LeastIndex, Zenon
    <3>3. m \in 0..Len(v) /\ sum[m] # g[m] OBVIOUS
    <3>4. m # 0 BY <1>1, <1>5, <3>3 DEF Sums
    <3>5. m \in 1..Len(v) /\ m - 1 \in 0..Len(v) /\ ~(m <= m - 1) BY <1>0, <3>3, <3>4
    <3>6. sum[m - 1] = g[m - 1] BY <3>2, <3>5
    <3> QED BY <1>1, <1>5, <3>3, <3>5, <3>6 DEF Sums
  <2> QED BY <2>1
<1>7. \A i \in 0..Len(v) : sum[i] \in Nat BY <1>1, <1>6 DEF Sums
<1>8. Offset(v, 0) = 0 BY <1>4, <1>5, Zenon
<1>9. \A i \in 0..Len(v) : Offset(v, i) \in Nat BY <1>4, <1>7, Zenon
<1>10. \A i \in 1..Len(v) : Offset(v, i) = Offset(v, i - 1) + v[i].bytes BY <1>4, <1>5, Zenon
<1> QED BY <1>8, <1>9, <1>10
-----------------------------------------------------------------------------
(* The prompt *)

\* The loop of truncateUTF8 runs only on a text longer than the limit; index is the
\* place of the rune it looks at, and of valid UTF-8 it has taken exactly the runes before.
RangeLoop ==
  /\ max > 0 /\ cursor \in 1..Len(value) + 1
  /\ index \in Nat /\ size \in Nat /\ end \in Nat
  /\ index <= size /\ size <= max /\ end <= max
  /\ Length(value) > max /\ index = Offset(value, cursor - 1)
  /\ Valid => size = index /\ end = index

CutInv ==
  /\ value \in Seq(Runes) /\ max \in Int
  /\ tpc \in {"finalize", "range", "done"}
  /\ tpc = "finalize" => cursor = 1 /\ index = 0 /\ size = 0 /\ end = 0
  /\ tpc = "range" => RangeLoop
  /\ WithinLimit /\ SliceInRange /\ WholeRunes

LEMMA CutInit == PromptInit => CutInv
BY RunesAssumption DEF PromptInit, CutInv, WithinLimit, SliceInRange, WholeRunes

LEMMA LengthType == ASSUME value \in Seq(Runes) PROVE Length(value) \in Nat /\ Len(value) \in Nat
BY OffsetStep DEF Length

LEMMA TakeStep == ASSUME CutInv, Take PROVE CutInv'
<1> DEFINE r == value[cursor]
<1>1. RangeLoop /\ value \in Seq(Runes) /\ max \in Int /\ tpc = "range" /\ Len(value) \in Nat
  BY LengthType, Zenon DEF CutInv, Take
<1>2. r \in Runes /\ cursor \in 1..Len(value)
  <2>1. cursor <= Len(value) BY Zenon DEF Take
  <2>2. cursor \in 1..Len(value) + 1 BY <1>1, Zenon DEF RangeLoop
  <2>3. cursor \in 1..Len(value) BY <1>1, <2>1, <2>2
  <2> QED BY <1>1, <2>3
<1>3. r.bytes \in 1..4 /\ r.size \in 1..4 /\ r.bytes <= r.size
  BY <1>2, RunesAssumption
<1>4. /\ size + r.size <= max /\ size' = size + r.size /\ end' = index + r.size
      /\ index' = index + r.bytes /\ cursor' = cursor + 1 /\ UNCHANGED <<value, max, tpc>>
  BY Zenon DEF Take, Fits, EndAfter
<1>5. Offset(value, cursor) = Offset(value, cursor - 1) + r.bytes
  BY <1>1, <1>2, OffsetStep
<1>6. Valid => r.bytes = r.size
  BY <1>1, <1>2 DEF Valid
<1> HIDE DEF r
<1>7. RangeLoop'
  <2> DEFINE b == r.bytes
             z == r.size
  <2>1. b \in Nat /\ z \in Nat /\ b <= z /\ (Valid => b = z)
    BY <1>3, <1>6
  <2>2. /\ size + z <= max /\ size' = size + z /\ end' = index + z
        /\ index' = index + b
    BY <1>4
  <2> HIDE DEF b, z
  <2>3. /\ index' \in Nat /\ size' \in Nat /\ end' \in Nat
        /\ index' <= size' /\ size' <= max /\ end' <= max
        /\ Valid => size' = index' /\ end' = index'
    <3>1. /\ max \in Int /\ index \in Nat /\ size \in Nat /\ index <= size
          /\ Valid => size = index
      BY <1>1 DEF RangeLoop
    <3> QED BY <2>1, <2>2, <3>1
  <2>4. max' = max /\ max > 0 /\ cursor' \in 1..Len(value) + 1 /\ cursor' - 1 = cursor
    BY <1>1, <1>2, <1>4 DEF RangeLoop
  <2>5. index' = Offset(value, cursor) BY <1>1, <1>4, <1>5 DEF RangeLoop
  <2>6. Valid' <=> Valid BY <1>4 DEF Valid
  <2> QED BY <1>1, <1>4, <2>3, <2>4, <2>5, <2>6 DEF RangeLoop
<1>8. SliceInRange'
  BY <1>1, <1>4, <1>7, LengthType DEF SliceInRange, RangeLoop
<1> QED BY <1>1, <1>4, <1>7, <1>8, Zenon DEF CutInv, RangeLoop, WithinLimit, WholeRunes

\* The rune at which the loop stops is the first that does not fit.
LEMMA LeaveStep == ASSUME CutInv, Leave PROVE CutInv'
<1>1. RangeLoop /\ value \in Seq(Runes) /\ max \in Int /\ Len(value) \in Nat /\ Length(value) \in Nat
  BY LengthType DEF CutInv, Leave
<1>2. tpc' = "done" /\ UNCHANGED <<value, max, truncated, end>> BY DEF Leave
<1>3. SliceInRange' BY <1>1, <1>2 DEF SliceInRange, RangeLoop
<1>4. ASSUME Valid
      PROVE  \E n \in 0..Len(value) - 1 : Offset(value, n) = end /\ Offset(value, n + 1) > max
  <2>1. end = index /\ size = index /\ index = Offset(value, cursor - 1)
    BY <1>1, <1>4 DEF RangeLoop
  <2>2. cursor \in 1..Len(value)
    <3> SUFFICES ASSUME cursor = Len(value) + 1 PROVE FALSE BY <1>1 DEF RangeLoop
    <3>1. index = Length(value) BY <1>1, <2>1 DEF Length
    <3> QED BY <1>1, <2>1, <3>1 DEF RangeLoop
  <2>3. value[cursor] \in Runes /\ value[cursor].bytes = value[cursor].size
    BY <1>1, <1>4, <2>2 DEF Valid
  <2>4. value[cursor].bytes \in Nat BY <2>3, RunesAssumption
  <2>5. ~(size + value[cursor].bytes <= max) BY <1>1, <2>2, <2>3 DEF Leave, Fits
  <2>6. Offset(value, cursor) = Offset(value, cursor - 1) + value[cursor].bytes
    BY <1>1, <2>2, OffsetStep
  <2>7. Offset(value, cursor) > max
    <3> DEFINE b == value[cursor].bytes
    <3>1. b \in Nat /\ ~(size + b <= max) /\ Offset(value, cursor) = size + b
      BY <2>1, <2>4, <2>5, <2>6
    <3> HIDE DEF b
    <3> QED BY <1>1, <3>1 DEF RangeLoop
  <2>8. cursor - 1 \in 0..Len(value) - 1 /\ (cursor - 1) + 1 = cursor BY <1>1, <2>2
  <2> QED BY <2>1, <2>7, <2>8
<1>5. WholeRunes' BY <1>2, <1>4 DEF WholeRunes, Valid
<1> QED BY <1>1, <1>2, <1>3, <1>5 DEF CutInv, WithinLimit

LEMMA FinalizeStep == ASSUME CutInv, Finalize PROVE CutInv'
<1>1. /\ UNCHANGED <<value, max, cursor, index, size>> /\ max \in Int /\ tpc = "finalize"
      /\ value \in Seq(Runes) /\ Length(value) \in Nat /\ Len(value) \in Nat
  BY LengthType DEF Finalize, CutInv
<1>2. CASE Short(value)
  <2>1. tpc' = "done" /\ end' = Length(value) /\ ~truncated'
    BY <1>2, Zenon DEF Finalize
  <2>2. max > 0 => end' <= max
    BY <1>1, <1>2, <2>1 DEF Short
  <2> QED BY <1>1, <2>1, <2>2 DEF CutInv, WithinLimit, SliceInRange, WholeRunes
<1>3. CASE ~Short(value)
  <2>1. tpc' = "range" /\ end' = end
    BY <1>3 DEF Finalize
  <2>2. max > 0 /\ Length(value) > max
    BY <1>1, <1>3 DEF Short
  <2>3. cursor = 1 /\ index = 0 /\ size = 0 /\ end = 0 /\ Offset(value, 0) = 0
    BY <1>1, OffsetStep, Zenon DEF CutInv
  <2>4. RangeLoop' BY <1>1, <2>1, <2>2, <2>3 DEF RangeLoop
  <2> QED BY <1>1, <2>1, <2>2, <2>3, <2>4 DEF CutInv, WithinLimit, SliceInRange, WholeRunes
<1> QED BY <1>2, <1>3

LEMMA CutStep == CutInv /\ [PromptNext]_promptVars => CutInv'
<1> SUFFICES ASSUME CutInv, UNCHANGED promptVars PROVE CutInv'
  BY FinalizeStep, TakeStep, LeaveStep DEF PromptNext
<1> QED BY Zenon DEF promptVars, CutInv, RangeLoop, WithinLimit, SliceInRange, WholeRunes, Valid

LEMMA CutCorrect == PromptSpec => []CutInv
BY CutInit, CutStep, PTL DEF PromptSpec

\* The prompt text never exceeds MaxPromptBytes, whatever bytes the text consists of.
THEOREM PromptWithinLimit == PromptSpec => []WithinLimit
<1>1. CutInv => WithinLimit
  BY DEF CutInv
<1> QED BY <1>1, CutCorrect, PTL

\* truncateUTF8 never slices past the end of the text, though it counts three bytes for
\* one that is no UTF-8: the loop runs only on texts longer than the limit.
THEOREM PromptSliceInRange == PromptSpec => []SliceInRange
<1>1. CutInv => SliceInRange
  BY DEF CutInv
<1> QED BY <1>1, CutCorrect, PTL

\* Of valid UTF-8 a truncated prompt is the longest run of whole characters within the
\* limit, for texts of any length.
THEOREM PromptIsWholeRunes == PromptSpec => []WholeRunes
<1>1. CutInv => WholeRunes
  BY DEF CutInv
<1> QED BY <1>1, CutCorrect, PTL
=============================================================================
