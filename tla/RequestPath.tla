---------------------------- MODULE RequestPath ----------------------------
(***************************************************************************)
(* The way of one request through the proxy, composed of BodyCapture,      *)
(* Extractor and Prompt: ServeHTTP reads the body, captureHTTP extracts    *)
(* the user's text of the copy, finalize joins and cuts it, and only then  *)
(* the body goes upstream.  A WebSocket text frame has the second and the  *)
(* third part alone; its forwarding is in WebSocketPumps.                  *)
(***************************************************************************)
EXTENDS BodyCapture, Extractor, Prompt

\* Sets of cases [req, limit, request, max, words]: a request and the configuration
CONSTANT Families

VARIABLE words    \* the runes behind each text of the body

path == <<serveVars, extractVars, promptVars, words>>

Newline == [bytes |-> 1, size |-> 1, space |-> TRUE]

\* The texts a message can have.
VisibleTexts(values) == {v.text : v \in {v \in values : Is(v, "string") /\ ~Blank(v.text)}}

CasesIn(requests, limits, extractions, texts) ==
  \A family \in Families :
    /\ \A c \in family : /\ c.req \in requests /\ c.limit \in limits
                         /\ c.request \in extractions /\ c.max \in PromptLimits
    /\ \A w \in {c.words : c \in family} : \A t \in texts : t \in DOMAIN w /\ w[t] \in Seq(Runes)

ASSUME FamiliesAssumption ==
  Newline \in Runes /\ CasesIn(HttpRequests, CaptureLimits, Requests, VisibleTexts(JSON))

PathInit ==
  \E family \in Families : \E c \in family :
    /\ req = c.req /\ limit = c.limit /\ spc = "serve"
    /\ pos = 0 /\ closed = FALSE /\ left = 0 /\ prefix = <<>> /\ original = TRUE
    /\ copy = NotCaptured /\ sent = <<>>
    /\ request = c.request /\ next = 0 /\ todo = <<>> /\ extraction = Waiting /\ offered = FALSE
    /\ value = <<>> /\ max = c.max /\ truncated = FALSE
    /\ tpc = "off" /\ cursor = 1 /\ index = 0 /\ size = 0 /\ end = 0
    /\ words = c.words

OverHTTP == request.via = "http"

\* shouldCapture and readBodyForCapture
ReadBody ==
  /\ OverHTTP /\ (ServeHTTP \/ ReadAll \/ ReadDone)
  /\ UNCHANGED <<extractVars, promptVars, words>>

\* What is joined so far with one more part; a part that is all white space is left out.
Glue(joined, part) ==
  IF \A n \in DOMAIN part : part[n].space THEN joined
  ELSE IF joined = <<>> THEN part ELSE joined \o <<Newline, Newline>> \o part

\* strings.Join(parts, "\n\n")
Join(texts) ==
  LET joined[n \in 0..Len(texts)] == IF n = 0 THEN <<>> ELSE Glue(joined[n - 1], texts[n])
  IN  joined[Len(texts)]

Texts(messages) == [n \in DOMAIN messages |-> words[messages[n].text]]

\* captureHTTP gets the copy, or copyClientFrames a frame.
Given == OverHTTP => spc = "forward" /\ copy # NotCaptured

Extract ==
  /\ Given /\ (Begin \/ Iterate \/ Descend)
  /\ UNCHANGED <<serveVars, promptVars, words>>

\* the first lines of finalize
JoinMessages ==
  /\ Given /\ Return
  /\ value' = Join(Texts(extraction.messages)) /\ tpc' = "finalize"
  /\ UNCHANGED <<serveVars, max, truncated, cursor, index, size, end, words>>

\* the rest of finalize
Cut == PromptNext /\ UNCHANGED <<serveVars, extractVars, words>>

\* p.reverse.ServeHTTP, after captureHTTP has returned
Forward ==
  /\ OverHTTP /\ (copy # NotCaptured => tpc = "done")
  /\ SendPrefix \/ SendOriginal \/ SendDone \/ UpstreamFails
  /\ UNCHANGED <<extractVars, promptVars, words>>

PathNext == ReadBody \/ Extract \/ JoinMessages \/ Cut \/ Forward

PathSpec == PathInit /\ [][PathNext]_path
=============================================================================
