------------------------- MODULE RequestPathProofs -------------------------
(***************************************************************************)
(* Proofs about the way of a request (RequestPath).  It is a run of        *)
(* BodyCapture and a run of Extractor, interleaved, so what is proved of   *)
(* each holds of it.  Its prompt is cut only after the extraction has      *)
(* returned, and from a join of texts whose runes are known, so what is    *)
(* proved of every text holds of it.                                       *)
(***************************************************************************)
EXTENDS RequestPath, ProxyProofs, ExtractorProofs

(* The way of a request *)

\* The path starts as its components do, and each of its steps is a step of one of
\* them that leaves the others alone, or a step of the cut.
LEMMA PathStarts == PathInit => ServeInit /\ ExtractInit
<1> SUFFICES ASSUME PathInit PROVE ServeInit /\ ExtractInit
  OBVIOUS
<1>1. PICK family \in Families : \E c \in family :
        req = c.req /\ limit = c.limit /\ request = c.request
  BY Zenon DEF PathInit
<1>2. req \in HttpRequests /\ limit \in CaptureLimits /\ request \in Requests
  BY <1>1, FamiliesAssumption, Zenon DEF CasesIn
<1> QED BY <1>2 DEF PathInit, ServeInit, ExtractInit

LEMMA PathSteps == [PathNext]_path => [ServeNext]_serveVars /\ [ExtractNext]_extractVars
<1>1. ASSUME ReadBody \/ Forward PROVE ServeNext /\ UNCHANGED extractVars
  BY <1>1 DEF ReadBody, Forward, ServeNext
<1>2. ASSUME Extract \/ JoinMessages PROVE UNCHANGED serveVars /\ ExtractNext
  BY <1>2 DEF Extract, JoinMessages, ExtractNext
<1>3. ASSUME Cut \/ UNCHANGED path PROVE UNCHANGED <<serveVars, extractVars>>
  BY <1>3 DEF Cut, path
<1> QED BY <1>1, <1>2, <1>3 DEF PathNext

\* A request on its way through the proxy is served as BodyCapture says: the extraction
\* and the cut in the middle of ServeHTTP add no behaviour, so what is proved of the body
\* holds here too.
THEOREM PathServes == PathSpec => ServeSpec
BY PathStarts, PathSteps, PTL DEF PathSpec, ServeSpec

\* It is extracted as Extractor says, so ExtractorProofs and UserTextProofs speak of it.
THEOREM PathExtracts == PathSpec => ExtractSpec
BY PathStarts, PathSteps, PTL DEF PathSpec, ExtractSpec

\* A copy is made before anything is extracted, and no later step changes it.
Copied == OverHTTP /\ next # 0 => copy # NotCaptured /\ spc \notin {"serve", "read"}

LEMMA CopiedInit == PathInit => Copied
BY DEF PathInit, Copied

LEMMA CopiedStep == Copied /\ [PathNext]_path => Copied'
<1> SUFFICES ASSUME Copied, [PathNext]_path PROVE Copied'
  OBVIOUS
<1>1. request' = request
  <2>1. ASSUME Begin \/ Iterate \/ Descend \/ Return PROVE request' = request
    BY <2>1, Zenon DEF Begin, Iterate, Descend, Return, Make
  <2> QED BY <2>1 DEF PathNext, ReadBody, Extract, JoinMessages, Cut, Forward, path, extractVars
<1>2. CASE ReadBody \/ Forward
  <2>1. next' = next
    BY <1>2 DEF ReadBody, Forward, extractVars
  <2>2. ASSUME copy # NotCaptured, spc \notin {"serve", "read"}
        PROVE  copy' # NotCaptured /\ spc' \notin {"serve", "read"}
    BY <1>2, <2>2, Zenon
    DEF ReadBody, Forward, ServeHTTP, ReadAll, ReadDone, SendPrefix, SendOriginal, SendDone,
        UpstreamFails
  <2> QED BY <1>1, <2>1, <2>2 DEF Copied, OverHTTP
<1>3. CASE Extract \/ JoinMessages
  BY <1>1, <1>3 DEF Extract, JoinMessages, Given, Copied, OverHTTP, serveVars
<1>4. CASE Cut \/ UNCHANGED path
  BY <1>1, <1>4 DEF Cut, path, extractVars, serveVars, Copied, OverHTTP
<1> QED BY <1>2, <1>3, <1>4 DEF PathNext

\* Upstream gets the client's bytes and the extraction gets a whole body or nothing, with
\* captureHTTP between the reading and the forwarding.
THEOREM PathForwards == PathSpec => [](ForwardedIsOriginal /\ CapturedIsWhole)
BY PathServes, ForwardingIsFaithful, CaptureIsWhole, PTL

\* What is recorded of an HTTP request was read from the whole of its body.
RecordedFromWhole ==
  Representable /\ OverHTTP /\ next # 0 => copy = Body(req.size) /\ req.size <= limit

\* No record is made of a part of a body: of a body that broke off, was longer than the
\* limit or is not captured, captureHTTP sees nothing at all.
THEOREM RecordsComeFromWholeBodies == PathSpec => []RecordedFromWhole
<1>1. CapturedIsWhole /\ Copied => RecordedFromWhole
  BY DEF CapturedIsWhole, Copied, RecordedFromWhole
<1>2. PathSpec => []Copied
  BY CopiedInit, CopiedStep, PTL DEF PathSpec
<1> QED BY <1>1, <1>2, PathForwards, PTL

-----------------------------------------------------------------------------
(* The prompt of a request on its way *)

LEMMA GlueTyped ==
  ASSUME NEW a \in Seq(Runes), NEW b \in Seq(Runes) PROVE Glue(a, b) \in Seq(Runes)
<1> DEFINE gap == <<Newline, Newline>>
<1>1. Newline \in Runes BY FamiliesAssumption
<1>2. gap \in Seq(Runes) BY <1>1
<1> HIDE DEF gap
<1>3. a \o gap \in Seq(Runes) BY <1>2
<1>4. (a \o gap) \o b \in Seq(Runes) BY <1>3
<1> QED BY <1>4 DEF Glue, gap

\* g has what the first 0 .. n texts give when they are joined.
Joins(texts, n, g) ==
  /\ g \in [0..n -> Seq(Runes)] /\ g[0] = <<>>
  /\ \A i \in 1..n : g[i] = Glue(g[i - 1], texts[i])

LEMMA JoinsExist ==
  ASSUME NEW texts \in Seq(Seq(Runes)) PROVE \E g : Joins(texts, Len(texts), g)
<1> DEFINE Bad == {n \in 0..Len(texts) : ~\E g : Joins(texts, n, g)}
<1>1. Len(texts) \in Nat /\ \A i \in 1..Len(texts) : texts[i] \in Seq(Runes) OBVIOUS
<1>2. ASSUME Bad # {} PROVE FALSE
  <2>1. PICK m \in Bad : \A n \in Bad : m <= n
    <3>1. Bad \subseteq Nat BY <1>1
    <3> HIDE DEF Bad
    <3> QED BY <1>2, <3>1, LeastNatural, Zenon
  <2>2. m # 0
    <3>1. Joins(texts, 0, [i \in 0..0 |-> <<>>])
      <4>1. [i \in 0..0 |-> <<>>] \in [0..0 -> Seq(Runes)] OBVIOUS
      <4> QED BY <4>1 DEF Joins
    <3> QED BY <2>1, <3>1
  <2>3. m \in 1..Len(texts) /\ m - 1 \in 0..Len(texts) /\ m - 1 \notin Bad
    <3>1. m \in 0..Len(texts) OBVIOUS
    <3>2. m \in 1..Len(texts) /\ m - 1 \in 0..Len(texts) /\ ~(m <= m - 1) BY <1>1, <2>2, <3>1
    <3> HIDE DEF Bad
    <3> QED BY <2>1, <3>2
  <2>4. PICK g : Joins(texts, m - 1, g) BY <2>3
  <2> DEFINE more == Glue(g[m - 1], texts[m])
             h == [i \in 0..m |-> IF i = m THEN more ELSE g[i]]
  <2>5. Joins(texts, m, h)
    <3>1. g[m - 1] \in Seq(Runes) /\ texts[m] \in Seq(Runes) BY <1>1, <2>3, <2>4 DEF Joins
    <3>2. more \in Seq(Runes) BY <3>1, GlueTyped
    <3> HIDE DEF more
    <3>3. h \in [0..m -> Seq(Runes)] BY <2>3, <2>4, <3>2 DEF Joins
    <3>4. h[0] = <<>> BY <2>3, <2>4 DEF Joins
    <3>5. ASSUME NEW i \in 1..m PROVE h[i] = Glue(h[i - 1], texts[i])
      <4>1. CASE i = m
        <5>1. h[i] = more /\ h[i - 1] = g[m - 1] BY <2>3, <4>1
        <5> QED BY <4>1, <5>1 DEF more
      <4>2. CASE i # m
        <5>1. i \in 1..(m - 1) /\ i - 1 \in 0..m /\ i - 1 # m BY <2>3, <4>2
        <5>2. h[i] = g[i] /\ h[i - 1] = g[i - 1] BY <2>3, <4>2, <5>1
        <5>3. g[i] = Glue(g[i - 1], texts[i]) BY <2>4, <5>1 DEF Joins
        <5> QED BY <5>2, <5>3
      <4> QED BY <4>1, <4>2
    <3> HIDE DEF h
    <3> QED BY <3>3, <3>4, <3>5, Zenon DEF Joins
  <2> QED BY <2>1, <2>5
<1>3. Len(texts) \notin Bad /\ Len(texts) \in 0..Len(texts) BY <1>1, <1>2
<1> QED BY <1>3

LEMMA JoinTyped ==
  ASSUME NEW texts \in Seq(Seq(Runes)) PROVE Join(texts) \in Seq(Runes)
<1> DEFINE Step(g) ==
             [n \in 0..Len(texts) |-> IF n = 0 THEN <<>> ELSE Glue(g[n - 1], texts[n])]
           joined == CHOOSE g : g = Step(g)
<1>0. Len(texts) \in Nat OBVIOUS
<1>1. PICK g : Joins(texts, Len(texts), g) BY JoinsExist
<1>2. g = Step(g)
  <2>1. \A i \in 0..Len(texts) : g[i] = Step(g)[i] BY <1>0, <1>1 DEF Joins
  <2>2. g \in [0..Len(texts) -> Seq(Runes)] BY <1>1 DEF Joins
  <2> QED BY <2>1, <2>2
<1>3. joined = Step(joined) BY <1>2, Zenon
<1>4. Join(texts) = joined[Len(texts)] BY Zenon DEF Join
<1> HIDE DEF joined
<1>5. /\ joined[0] = <<>>
      /\ \A i \in 1..Len(texts) : joined[i] = Glue(joined[i - 1], texts[i])
  <2>1. joined[0] = Step(joined)[0] /\ \A i \in 1..Len(texts) : joined[i] = Step(joined)[i]
    BY <1>3, Zenon
  <2>2. Step(joined)[0] = <<>> BY <1>0
  <2>3. ASSUME NEW i \in 1..Len(texts) PROVE Step(joined)[i] = Glue(joined[i - 1], texts[i])
    BY <1>0
  <2> HIDE DEF Step
  <2> QED BY <2>1, <2>2, <2>3, Zenon
<1>6. \A i \in 0..Len(texts) : joined[i] = g[i]
  <2> DEFINE Bad == {i \in 0..Len(texts) : joined[i] # g[i]}
  <2>1. ASSUME Bad # {} PROVE FALSE
    <3>1. Bad \subseteq Nat BY <1>0
    <3>2. PICK m \in Bad : \A n \in Bad : m <= n
      <4> HIDE DEF Bad
      <4> QED BY <2>1, <3>1, LeastNatural, Zenon
    <3>3. m \in 0..Len(texts) /\ joined[m] # g[m] OBVIOUS
    <3>4. m # 0 BY <1>1, <1>5, <3>3 DEF Joins
    <3>5. m \in 1..Len(texts) /\ m - 1 \in 0..Len(texts) /\ ~(m <= m - 1) BY <1>0, <3>3, <3>4
    <3>6. joined[m - 1] = g[m - 1] BY <3>2, <3>5
    <3>7. joined[m] = Glue(joined[m - 1], texts[m]) /\ g[m] = Glue(g[m - 1], texts[m])
      BY <1>1, <1>5, <3>5 DEF Joins
    <3> QED BY <3>3, <3>6, <3>7
  <2> QED BY <2>1
<1> QED BY <1>0, <1>1, <1>4, <1>6 DEF Joins

\* What a message of the path can be, and that the runes of its text are known.
Sayable == {m \in Recorded : m.text \in VisibleTexts(JSON)}
WordsTyped == \A t \in VisibleTexts(JSON) : t \in DOMAIN words /\ words[t] \in Seq(Runes)

\* Before the extraction returns finalize has not begun; then it is at work on a text.
NotBegun ==
  /\ tpc = "off" /\ value = <<>> /\ truncated = FALSE
  /\ cursor = 1 /\ index = 0 /\ size = 0 /\ end = 0
PromptInv ==
  /\ WordsTyped /\ max \in Int /\ extraction.messages \in Seq(Sayable)
  /\ NotBegun \/ (Extracted /\ CutInv)

LEMMA AddSayable ==
  ASSUME NEW c \in Calls PROVE AddUserMessage(c) \in Seq(Sayable)
<1> DEFINE m == [text |-> c.value.text, source |-> c.source]
<1>1. CASE c.name = "text" /\ Is(c.value, "string") /\ ~Blank(c.value.text)
  <2>1. AddUserMessage(c) = <<m>> BY <1>1 DEF AddUserMessage
  <2>2. c.value \in JSON /\ c.source \in Paths BY DEF Calls
  <2>3. c.value.text \in VisibleTexts(JSON) BY <1>1, <2>2 DEF VisibleTexts
  <2>4. c.value.text \in STRING BY <1>1, <2>2, JSONParts DEF Is
  <2>5. m \in Recorded /\ m.text = c.value.text BY <2>2, <2>4 DEF Recorded
  <2> HIDE DEF m
  <2>6. m \in Sayable BY <2>3, <2>5 DEF Sayable
  <2> QED BY <2>1, <2>6
<1>2. CASE ~(c.name = "text" /\ Is(c.value, "string") /\ ~Blank(c.value.text))
  BY <1>2 DEF AddUserMessage
<1> QED BY <1>1, <1>2

LEMMA SayableStep ==
  ASSUME ExtractTypes, extraction.messages \in Seq(Sayable), [ExtractNext]_extractVars
  PROVE  extraction'.messages \in Seq(Sayable)
<1>1. Calls \in SUBSET Calls OBVIOUS
<1>2. \A c \in Calls : CallsOf(c) \in Seq(Calls) /\ AddUserMessage(c) \in Seq(Sayable)
  BY CallsTyped, AddSayable
<1>3. Loop \in Seq(Calls) BY RequestWalk, Zenon DEF ExtractTypes, Loop
<1>4. todo \in Seq(Calls) BY DEF ExtractTypes
<1> QED BY <1>1, <1>2, <1>3, <1>4, Preserved

LEMMA PromptStarts == PathInit => PromptInv
<1> SUFFICES ASSUME PathInit PROVE PromptInv
  OBVIOUS
<1>1. PICK family \in Families : \E c \in family : max = c.max /\ words = c.words
  BY Zenon DEF PathInit
<1>2. PICK c \in family : max = c.max /\ words = c.words BY <1>1
<1>3. max \in PromptLimits BY <1>2, FamiliesAssumption DEF CasesIn
<1>4. max \in Int BY <1>3, RunesAssumption
<1>5. c.words \in {d.words : d \in family} OBVIOUS
<1>6. WordsTyped BY <1>2, <1>5, FamiliesAssumption, Zenon DEF CasesIn, WordsTyped
<1>7. extraction.messages = <<>> BY DEF PathInit, Waiting
<1>8. NotBegun BY Zenon DEF PathInit, NotBegun
<1> QED BY <1>4, <1>6, <1>7, <1>8 DEF PromptInv

LEMMA JoinStep ==
  ASSUME ExtractTypes, PromptInv, JoinMessages PROVE Extracted' /\ CutInv'
<1>1. extraction.status = "waiting" /\ NotBegun
  BY DEF JoinMessages, Return, PromptInv, Extracted
<1>2. Texts(extraction.messages) \in Seq(Seq(Runes))
  <2> DEFINE q == extraction.messages
  <2>1. q \in Seq(Sayable) /\ Len(q) \in Nat /\ DOMAIN q = 1..Len(q) BY DEF PromptInv
  <2>2. ASSUME NEW i \in 1..Len(q) PROVE words[q[i].text] \in Seq(Runes)
    <3>1. q[i].text \in VisibleTexts(JSON) BY <2>1 DEF Sayable
    <3> QED BY <3>1 DEF PromptInv, WordsTyped
  <2>3. Texts(q) = [n \in 1..Len(q) |-> words[q[n].text]] BY <2>1, Zenon DEF Texts
  <2> HIDE DEF q
  <2>4. Texts(q) \in [1..Len(q) -> Seq(Runes)] BY <2>2, <2>3
  <2>5. Texts(q) \in Seq(Seq(Runes)) BY <2>1, <2>4
  <2> QED BY <2>5 DEF q
<1>3. value' \in Seq(Runes) BY <1>2, JoinTyped DEF JoinMessages
<1>4. Extracted'
  <2>1. WalkOf(request).status \in Statuses BY RequestWalk DEF ExtractTypes
  <2>2. FinalStatus(WalkOf(request).status, extraction.messages) # "waiting"
    BY <2>1, Zenon DEF FinalStatus, Statuses
  <2>3. extraction' = [extraction EXCEPT
          !.status = FinalStatus(WalkOf(request).status, extraction.messages)]
    BY Zenon DEF JoinMessages, Return
  <2>4. extraction'.status = FinalStatus(WalkOf(request).status, extraction.messages)
    BY <2>3 DEF ExtractTypes, Extraction
  <2> QED BY <2>2, <2>4 DEF Extracted
<1>5. /\ tpc' = "finalize" /\ max' = max /\ max \in Int
      /\ cursor' = 1 /\ index' = 0 /\ size' = 0 /\ end' = 0
  BY <1>1, Zenon DEF JoinMessages, NotBegun, PromptInv
<1>6. WithinLimit' /\ SliceInRange' /\ WholeRunes'
  BY <1>5 DEF WithinLimit, SliceInRange, WholeRunes
<1> QED BY <1>3, <1>4, <1>5, <1>6 DEF CutInv

LEMMA PromptSteps ==
  ASSUME ExtractTypes, PromptInv, [PathNext]_path PROVE PromptInv'
<1>1. [ExtractNext]_extractVars BY PathSteps
<1>2. extraction'.messages \in Seq(Sayable) BY <1>1, SayableStep DEF PromptInv
<1>3. words' = words /\ max' = max
  BY Zenon DEF PathNext, ReadBody, Extract, JoinMessages, Cut, Forward, PromptNext, Finalize, Take, Leave,
               promptVars, path
<1>4. WordsTyped' /\ max' \in Int BY <1>3 DEF PromptInv, WordsTyped
<1>5. CASE ReadBody \/ Forward \/ UNCHANGED path
  <2>1. UNCHANGED promptVars /\ extraction' = extraction
    BY <1>5, Zenon DEF ReadBody, Forward, extractVars, path
  <2>2. CutInv => CutInv' BY <2>1, CutStep
  <2>3. NotBegun => NotBegun' BY <2>1 DEF promptVars, NotBegun
  <2> QED BY <1>2, <1>4, <2>1, <2>2, <2>3 DEF PromptInv, Extracted
<1>6. CASE Extract
  <2>1. UNCHANGED promptVars BY <1>6 DEF Extract
  <2>2. ~Extracted
    <3>1. Loop \in Seq(Calls) BY RequestWalk DEF ExtractTypes, Loop
    <3>2. DOMAIN Loop = 1..Len(Loop) /\ Len(Loop) \in Nat BY <3>1
    <3>3. next = 0 \/ next \in DOMAIN Loop \/ todo # <<>>
      BY <1>6, Zenon DEF Extract, Begin, Iterate, Descend, Loop
    <3> QED BY <3>2, <3>3 DEF ExtractTypes
  <2>3. NotBegun' BY <2>1, <2>2 DEF PromptInv, NotBegun, promptVars
  <2> QED BY <1>2, <1>4, <2>3 DEF PromptInv
<1>7. CASE JoinMessages
  BY <1>2, <1>4, <1>7, JoinStep DEF PromptInv
<1>8. CASE Cut
  <2>1. PromptNext /\ extraction' = extraction BY <1>8 DEF Cut, extractVars
  <2>2. tpc # "off" BY <2>1, Zenon DEF PromptNext, Finalize, Take, Leave
  <2>3. Extracted /\ CutInv BY <2>2 DEF PromptInv, NotBegun
  <2>4. Extracted' /\ CutInv' BY <2>1, <2>3, CutStep DEF Extracted
  <2> QED BY <1>2, <1>4, <2>4 DEF PromptInv
<1> QED BY <1>5, <1>6, <1>7, <1>8 DEF PathNext

\* The prompt of every request on its way fits MaxPromptBytes, is cut without a panic and
\* between two characters: the messages that the extraction hands to finalize are texts
\* that truncateUTF8 can take.
THEOREM PathCuts == PathSpec => [](WithinLimit /\ SliceInRange /\ WholeRunes)
<1>1. PathInit => ExtractTypes BY PathStarts, TypesInit
<1>2. ExtractTypes /\ [PathNext]_path => ExtractTypes' BY PathSteps, TypesStep
<1>3. ExtractTypes /\ PromptInv /\ [PathNext]_path => PromptInv' BY PromptSteps
<1>4. PromptInv => WithinLimit /\ SliceInRange /\ WholeRunes
  <2>1. ASSUME NotBegun, max \in Int PROVE WithinLimit /\ SliceInRange /\ WholeRunes
    <3>1. value \in Seq(Runes) /\ Len(value) = 0 BY <2>1 DEF NotBegun
    <3>2. Length(value) = 0 BY <3>1, OffsetStep, Zenon DEF Length
    <3> QED BY <2>1, <3>2 DEF NotBegun, WithinLimit, SliceInRange, WholeRunes
  <2> QED BY <2>1 DEF PromptInv, CutInv
<1> QED BY <1>1, <1>2, <1>3, <1>4, PromptStarts, PTL DEF PathSpec
=============================================================================
