---------------------------- MODULE BodyCapture ----------------------------
(***************************************************************************)
(* One HTTP request in ServeHTTP of proxy.go: readBodyForCapture reads the *)
(* body up to the limit and puts it back, captureHTTP gets the copy, and   *)
(* the reverse proxy sends the body upstream.  Byte i of the body is the   *)
(* number i, so a byte lost, doubled or moved shows in a sequence.         *)
(***************************************************************************)
EXTENDS Integers, Sequences

CONSTANTS
  HttpRequests,    \* what clients send (a subset of Request)
  CapturePrefixes, \* cfg.CapturePrefixes, as sequences of path segments
  CaptureLimits,   \* values of cfg.MaxCaptureBytes
  MaxInt,          \* the largest int64
  Chunk            \* the most a Read returns

ASSUME LimitsAssumption ==
  /\ MaxInt \in Nat /\ Chunk \in Nat \ {0}
  /\ CaptureLimits \subseteq 1..MaxInt

\* size: the bytes of the body that arrive; broken: the client's connection fails
\* after them, where a complete body ends.
Request ==
  [method : {"GET", "POST", "PUT", "PATCH"}, path : Seq(STRING),
   encoding : {"", "identity", "gzip"}, type : {"", "json", "form", "multipart", "octets"},
   size : Nat, broken : BOOLEAN]

ASSUME RequestsAssumption == HttpRequests \subseteq Request

NotCaptured == <<0>>   \* no copy was handed to captureHTTP

VARIABLES
  req, limit,   \* the request and maxBytes
  spc,          \* where ServeHTTP is
  pos, closed,  \* the original body: bytes read from it so far, and Close
  left,         \* LimitedReader.N
  prefix,       \* what ReadAll has; later what is left of it in r.Body
  original,     \* r.Body goes on with the original body
  copy,         \* the body given to captureHTTP
  sent          \* what upstream has received

serveVars == <<req, limit, spc, pos, closed, left, prefix, original, copy, sent>>

Body(n) == [i \in 1..n |-> i]

ServeInit ==
  /\ req \in HttpRequests /\ limit \in CaptureLimits
  /\ spc = "serve" /\ pos = 0 /\ closed = FALSE
  /\ left = 0 /\ prefix = <<>> /\ original = TRUE
  /\ copy = NotCaptured /\ sent = <<>>

\* strings.TrimRight(prefix, "/"), then equality or HasPrefix(path, prefix+"/")
ShouldCapture ==
  /\ req.method \in {"POST", "PUT", "PATCH"}
  /\ \E p \in CapturePrefixes : Len(p) <= Len(req.path) /\ SubSeq(req.path, 1, Len(p)) = p

\* The early returns of readBodyForCapture.
Readable ==
  /\ limit > 0
  /\ req.encoding \in {"", "identity"}
  /\ req.type \in {"", "json", "form", "multipart"}

\* int64 arithmetic
Wrap(n) == IF n > MaxInt THEN n - 2 * (MaxInt + 1) ELSE n

\* Slip: the limited reader stops at the limit itself.
ReadLimit_Exact == limit

\* io.LimitReader(original, maxBytes+1)
ReadLimit == Wrap(limit + 1)

ServeHTTP ==
  /\ spc = "serve"
  /\ IF ShouldCapture /\ Readable
       THEN spc' = "read" /\ left' = ReadLimit
       ELSE spc' = "forward" /\ left' = left
  /\ UNCHANGED <<req, limit, pos, closed, prefix, original, copy, sent>>

\* The next n bytes of the original body.
Ahead(n) == [i \in 1..n |-> pos + i]

\* How many bytes one Read of the original may return.
Reads(most) == {n \in 1..Chunk : n <= most /\ n <= req.size - pos}

\* One turn of io.ReadAll over the limited reader.
ReadAll ==
  /\ spc = "read" /\ left > 0 /\ pos < req.size
  /\ \E n \in Reads(left) :
       prefix' = prefix \o Ahead(n) /\ pos' = pos + n /\ left' = left - n
  /\ UNCHANGED <<req, limit, spc, closed, original, copy, sent>>

AtEnd == left <= 0 \/ pos = req.size
ReadError == left > 0 /\ req.broken

\* Slip: the original is closed as soon as it was read.
PutBack_Closed ==
  /\ closed' = TRUE /\ UNCHANGED <<original, copy>>

\* r.Body = &preservedBody{MultiReader(prefix, original)}
PutBack == UNCHANGED <<closed, original, copy>>

\* r.Body = NopCloser(prefix), and captureHTTP gets the same bytes
Capture == closed' = TRUE /\ original' = FALSE /\ copy' = prefix

ReadDone ==
  /\ spc = "read" /\ AtEnd
  /\ IF ReadError \/ Len(prefix) > limit THEN PutBack ELSE Capture
  /\ spc' = "forward"
  /\ UNCHANGED <<req, limit, pos, left, prefix, sent>>

-----------------------------------------------------------------------------
(* p.reverse.ServeHTTP: the transport reads r.Body and closes it *)

SendPrefix ==
  /\ spc = "forward" /\ prefix # <<>>
  /\ \E n \in {k \in 1..Chunk : k <= Len(prefix)} :
       /\ sent' = sent \o SubSeq(prefix, 1, n)
       /\ prefix' = SubSeq(prefix, n + 1, Len(prefix))
  /\ UNCHANGED <<req, limit, spc, pos, closed, left, original, copy>>

SendOriginal ==
  /\ spc = "forward" /\ prefix = <<>> /\ original /\ ~closed /\ pos < req.size
  /\ \E n \in Reads(Chunk) : sent' = sent \o Ahead(n) /\ pos' = pos + n
  /\ UNCHANGED <<req, limit, spc, closed, left, prefix, original, copy>>

\* A Read of a closed or broken body is an error: the request is aborted.
BodyFails == original /\ (closed \/ req.broken)

SendDone ==
  /\ spc = "forward" /\ prefix = <<>> /\ (original /\ ~closed => pos = req.size)
  /\ spc' = IF BodyFails THEN "aborted" ELSE "complete"
  /\ closed' = TRUE
  /\ UNCHANGED <<req, limit, pos, left, prefix, original, copy, sent>>

\* ErrorHandler: upstream went away.
UpstreamFails ==
  /\ spc = "forward" /\ spc' = "unavailable"
  /\ closed' = TRUE
  /\ UNCHANGED <<req, limit, pos, left, prefix, original, copy, sent>>

ServeNext ==
  \/ ServeHTTP \/ ReadAll \/ ReadDone
  \/ SendPrefix \/ SendOriginal \/ SendDone \/ UpstreamFails

ServeSpec == ServeInit /\ [][ServeNext]_serveVars

-----------------------------------------------------------------------------
(* Properties *)

\* maxBytes+1 does not overflow.
Representable == limit < MaxInt

\* What upstream gets is what the client sent, byte by byte, whether the body was
\* captured, too long, of a kind that is not captured, or broke off: a complete
\* request is the whole body, and a body that broke off upstream also sees break off,
\* after the same bytes.  Not so for a limit of the largest int64: nothing is read then,
\* and what qualifies goes upstream as an empty body.
ForwardedIsOriginal ==
  Representable =>
    /\ sent = Body(Len(sent)) /\ Len(sent) <= req.size
    /\ spc = "complete" => Len(sent) = req.size /\ ~req.broken
    /\ spc = "aborted" => Len(sent) = req.size /\ req.broken

\* Extraction gets the whole body or nothing: of the requests that qualify exactly
\* those that arrived whole and within the limit, if that is not the largest int64.
CapturedIsWhole ==
  Representable /\ spc \notin {"serve", "read"} =>
    copy = IF ShouldCapture /\ Readable /\ ~req.broken /\ req.size <= limit
             THEN Body(req.size) ELSE NotCaptured
=============================================================================
