----------------------------- MODULE Extractor -----------------------------
(***************************************************************************)
(* extractor.go: what the audit copy of one request or one WebSocket text  *)
(* frame contains, and whether captureHTTP or copyClientFrames offers it   *)
(* to the queue.  JSON is a tree; a message keeps its text and its source, *)
(* the path of the text in the tree.  The functions that call each other   *)
(* on the parts of the body are steps: one call is made, and the calls it  *)
(* makes wait on a stack.  The joined prompt is in Prompt.                 *)
(***************************************************************************)
EXTENDS Integers, Sequences, FiniteSets

CONSTANTS
  JSON,          \* the values encoding/json decodes, with their parts
  Requests       \* [via, marks, body, captureEmpty]

VARIABLES
  request,
  next,          \* the element the outermost loop comes to; 0 before ExtractRequest
  todo,          \* the calls that wait within the element before, the first first
  extraction,    \* [messages, excluded, status]
  offered        \* Enqueue was called with the record

extractVars == <<request, next, todo, extraction, offered>>

-----------------------------------------------------------------------------
(* JSON as encoding/json decodes it, and the conversions of strings *)

Str(t) == [kind |-> "string", text |-> t]
Arr(items) == [kind |-> "array", items |-> items]
Obj(fields) == [kind |-> "object", fields |-> fields]
Null == [kind |-> "null"]
Scalar == [kind |-> "number"]
JSONKinds == {"string", "array", "object", "null", "number"}

\* Values with all their parts.
ClosedUnderParts(values) ==
  /\ Null \in values
  /\ \A v \in values :
       /\ v.kind \in JSONKinds
       /\ v.kind = "string" => v.text \in STRING /\ v = Str(v.text)
       /\ v.kind = "array" => v.items \in Seq(values)
       /\ v.kind = "object" =>
            \A key \in DOMAIN v.fields : key \in STRING /\ v.fields[key] \in values

ASSUME JSONAssumption == ClosedUnderParts(JSON)

Is(v, kind) == v.kind = kind
Has(o, key) == key \in DOMAIN o.fields
\* o[key], nil where there is none
Field(o, key) == IF Has(o, key) THEN o.fields[key] ELSE Null
HasA(o, key, kind) == Is(Field(o, key), kind)
\* s, _ := o[key].(string)
StringAt(o, key) == IF HasA(o, key, "string") THEN Field(o, key).text ELSE ""

\* strings.TrimSpace(t) == ""
Blank(t) == t \in {"", " "}

\* strings.ToLower(strings.TrimSpace(t)), on the spellings that occur.
Normal(t) ==
  CASE t = " " -> ""
    [] t = "User " -> "user"
    [] t = " SYSTEM" -> "system"
    [] t = "Response.Create" -> "response.create"
    [] OTHER -> t

\* io.LimitReader(part, 1<<20): what is kept of a text beyond the limit.
Limited(t) == IF t = "beyond 1 MiB" THEN "first 1 MiB" ELSE t

\* The steps of a source: .key and [index]
Key(key) == [key |-> key, index |-> 0]
Index(i) == [key |-> "", index |-> i]

\* A function called with a value and its source.
Call(name, v, source) == [name |-> name, value |-> v, source |-> source]

\* The call for o[key], and the calls for the elements of an array in order.
Into(name, o, key, source) == <<Call(name, Field(o, key), Append(source, Key(key)))>>
Each(name, list, source) ==
  [i \in DOMAIN list.items |-> Call(name, list.items[i], Append(source, Index(i)))]

-----------------------------------------------------------------------------
(* Pieces of a message: the calls each function makes *)

ExcludedRoles == {"system", "developer", "assistant", "tool"}
PromptFields == <<"prompt", "query", "input", "text", "description">>

HasValue(v) ==
  CASE Is(v, "null") -> FALSE
    [] Is(v, "string") -> ~Blank(v.text)
    [] Is(v, "array") -> v.items # <<>>
    [] Is(v, "object") -> DOMAIN v.fields # {}
    [] OTHER -> TRUE

\* An element of a content array that is text; strings.EqualFold on its type.
IsTextPart(part) ==
  /\ HasA(part, "text", "string")
  /\ StringAt(part, "type") \in {"", "text", "Text", "input_text"}

\* Slip: a nested text keeps the source of its container.
Nested_OuterSource(o, source) == <<Call("content", Field(o, "content"), source)>>

\* part["content"], or typed["content"]
Nested(o, source) == Into("content", o, "content", source)

ExtractPart(part, source) ==
  CASE Is(part, "string") -> <<Call("text", part, source)>>
    [] Is(part, "object") /\ IsTextPart(part) -> Into("text", part, "text", source)
    [] Is(part, "object") /\ ~IsTextPart(part) -> Nested(part, source)
    [] OTHER -> <<>>

ExtractContent(v, source) ==
  CASE Is(v, "string") -> <<Call("text", v, source)>>
    [] Is(v, "array") -> Each("part", v, source)
    [] Is(v, "object") /\ HasA(v, "text", "string") -> Into("text", v, "text", source)
    [] Is(v, "object") /\ ~HasA(v, "text", "string") -> Nested(v, source)
    [] OTHER -> <<>>

\* Slip: the role is compared as it was spelled.
RoleOf_AsSpelled(o) ==
  IF StringAt(o, "role") = "" THEN "user" ELSE StringAt(o, "role")

RoleOf(o) ==
  IF Normal(StringAt(o, "role")) = "" THEN "user" ELSE Normal(StringAt(o, "role"))

ExtractRoleMessage(o, source) ==
  CASE RoleOf(o) # "user" -> <<>>
    [] RoleOf(o) = "user" /\ Has(o, "content") -> Into("content", o, "content", source)
    [] RoleOf(o) = "user" /\ ~Has(o, "content") /\ Has(o, "parts") ->
         Into("content", o, "parts", source)
    [] OTHER -> Into("text", o, "text", source)

\* An element of messages, with the role under which it is counted.
RoleMessage(v, source) == IF Is(v, "object") THEN ExtractRoleMessage(v, source) ELSE <<>>
RoleCount(v) == IF Is(v, "object") THEN RoleOf(v) ELSE ""

\* An input item without a role and of type input_text is the user's text.
IsInputText(item) ==
  Blank(StringAt(item, "role")) /\ StringAt(item, "type") = "input_text"

InputItem(v, source) ==
  CASE Is(v, "string") -> <<Call("text", v, source)>>
    [] Is(v, "object") /\ IsInputText(v) -> Into("text", v, "text", source)
    [] Is(v, "object") /\ ~IsInputText(v) -> ExtractRoleMessage(v, source)
    [] OTHER -> <<>>

\* Slip: the answers of the model are kept.
GeminiExcluded_NoModel == [system |-> "system", developer |-> "developer"]

\* The roles extractGemini leaves out, with the name it counts them under.
GeminiExcluded == [model |-> "assistant", system |-> "system", developer |-> "developer"]

GeminiRole(v) == Normal(StringAt(v, "role"))

GeminiContent(v, source) ==
  IF Is(v, "object") /\ GeminiRole(v) \notin DOMAIN GeminiExcluded
  THEN Into("content", v, "parts", source) ELSE <<>>

GeminiCount(v) ==
  IF Is(v, "object") /\ GeminiRole(v) \in DOMAIN GeminiExcluded
  THEN GeminiExcluded[GeminiRole(v)] ELSE ""

\* A prompt field of a generic request: a string, or the strings of an array.
PromptField(v, source) ==
  CASE Is(v, "string") -> <<Call("text", v, source)>>
    [] Is(v, "array") -> Each("text", v, source)
    [] OTHER -> <<>>

\* The values of a prompt field of a form.
FormValues(v, source) ==
  IF Is(v, "array") THEN [i \in DOMAIN v.items |-> Call("text", v.items[i], source)] ELSE <<>>

CallsOf(c) ==
  CASE c.name = "content" -> ExtractContent(c.value, c.source)
    [] c.name = "part" -> ExtractPart(c.value, c.source)
    [] c.name = "message" -> RoleMessage(c.value, c.source)
    [] c.name = "input" -> InputItem(c.value, c.source)
    [] c.name = "gemini" -> GeminiContent(c.value, c.source)
    [] c.name = "field" -> PromptField(c.value, c.source)
    [] c.name = "values" -> FormValues(c.value, c.source)
    [] OTHER -> <<>>

AddUserMessage(c) ==
  IF c.name = "text" /\ Is(c.value, "string") /\ ~Blank(c.value.text)
  THEN <<[text |-> c.value.text, source |-> c.source]>> ELSE <<>>

CountOf(c) ==
  CASE c.name = "message" -> RoleCount(c.value)
    [] c.name = "input" -> IF Is(c.value, "object") /\ IsInputText(c.value) THEN ""
                           ELSE RoleCount(c.value)
    [] c.name = "gemini" -> GeminiCount(c.value)
    [] OTHER -> ""

\* incrementExcluded, which is called with excluded roles alone
Count(excluded, role) ==
  [r \in ExcludedRoles |-> IF r = role THEN excluded[r] + 1 ELSE excluded[r]]
NoneExcluded == [r \in ExcludedRoles |-> 0]

-----------------------------------------------------------------------------
(* One operator per protocol: the calls of its outermost loop, what it has *)
(* counted before, and the status it sets                                  *)

Walk(calls, excluded, status) == [calls |-> calls, excluded |-> excluded, status |-> status]

\* incrementExcluded for a top-level field
Instruction(o, key, role, excluded) ==
  IF HasValue(Field(o, key)) THEN Count(excluded, role) ELSE excluded

MessageList(o, excluded, status) ==
  Walk(Each("message", o.fields["messages"], <<Key("messages")>>), excluded, status)

\* The prompt fields of o in their order; the status is open until they are read.
FieldCalls(name, o) ==
  [i \in DOMAIN PromptFields |-> Call(name, Field(o, PromptFields[i]), <<Key(PromptFields[i])>>)]
Fields(name, o, excluded) == Walk(FieldCalls(name, o), excluded, "open")

\* extractGeneric returns after a non-empty messages array.
ExtractGeneric(o, excluded) ==
  IF HasA(o, "messages", "array") /\ o.fields["messages"].items # <<>>
  THEN MessageList(o, excluded, "") ELSE Fields("field", o, excluded)

ExtractOpenAIChat(o) ==
  LET excluded == Instruction(o, "developer", "developer",
                    Instruction(o, "system", "system", NoneExcluded))
  IN  IF ~HasA(o, "messages", "array") THEN ExtractGeneric(o, excluded)
      ELSE MessageList(o, excluded, IF o.fields["messages"].items = <<>> THEN "empty" ELSE "")

ExtractResponses(o) ==
  LET input == Field(o, "input")
      excluded == Instruction(o, "instructions", "system", NoneExcluded)
  IN  CASE ~Has(o, "input") -> Walk(<<>>, excluded, "empty")
        [] Is(input, "string") -> Walk(<<Call("text", input, <<Key("input")>>)>>, excluded, "")
        [] Is(input, "array") -> Walk(Each("input", input, <<Key("input")>>), excluded, "")
        [] Is(input, "object") -> Walk(<<Call("message", input, <<Key("input")>>)>>, excluded, "")
        [] OTHER -> Walk(<<>>, excluded, "partial")

ExtractAnthropic(o) ==
  LET excluded == Instruction(o, "system", "system", NoneExcluded)
  IN  IF HasA(o, "messages", "array") THEN MessageList(o, excluded, "")
      ELSE Walk(<<>>, excluded, "empty")

ExtractGemini(o) ==
  LET excluded == Instruction(o, "system_instruction", "system",
                    Instruction(o, "systemInstruction", "system", NoneExcluded))
  IN  IF ~HasA(o, "contents", "array") THEN ExtractGeneric(o, excluded)
      ELSE Walk(Each("gemini", o.fields["contents"], <<Key("contents")>>), excluded, "")

-----------------------------------------------------------------------------
(* Dispatch *)

\* What protocolForPath looks for in a path, in its order.
Routes ==
  << [marks |-> {"/chat/completions"}, protocol |-> "openai-chat"],
     [marks |-> {"/responses"}, protocol |-> "openai-responses"],
     [marks |-> {"/messages"}, protocol |-> "anthropic-messages"],
     [marks |-> {"generatecontent", "/v1beta"}, protocol |-> "gemini"],
     [marks |-> {"/images", "/videos", "/media"}, protocol |-> "media"] >>

\* The first route one of whose marks the path contains.
ProtocolForPath(marks) ==
  LET hits == {i \in DOMAIN Routes : Routes[i].marks \cap marks # {}}
  IN  IF hits = {} THEN "generic"
      ELSE Routes[CHOOSE i \in hits : \A j \in hits : i <= j].protocol

Nothing(status) == Walk(<<>>, NoneExcluded, status)

ExtractJSONByProtocol(protocol, root) ==
  CASE ~Is(root, "object") -> Nothing("unsupported")
    [] Is(root, "object") /\ protocol = "openai-chat" -> ExtractOpenAIChat(root)
    [] Is(root, "object") /\ protocol = "openai-responses" -> ExtractResponses(root)
    [] Is(root, "object") /\ protocol = "anthropic-messages" -> ExtractAnthropic(root)
    [] Is(root, "object") /\ protocol = "gemini" -> ExtractGemini(root)
    [] OTHER -> ExtractGeneric(root, NoneExcluded)

\* The parts of a multipart body up to the end, or up to an error in the last one
\* read: an error keeps the parts before it; a missing boundary is one before the first.
ExtractMultipart(multipart) ==
  LET wanted(part) == ~part.file /\ \E i \in DOMAIN PromptFields : PromptFields[i] = part.name
      text(part) == IF wanted(part) THEN Str(Limited(part.text)) ELSE Null
  IN  Walk([i \in DOMAIN multipart.parts |->
              Call("text", text(multipart.parts[i]), <<Key(multipart.parts[i].name)>>)],
           NoneExcluded, IF multipart.broken THEN "unsupported" ELSE "open")

\* garbage: a body the parser of its media type rejects.
ExtractRequest(r) ==
  CASE Is(r.body, "nothing") -> Nothing("empty")
    [] Is(r.body, "garbage") -> Nothing("unsupported")
    [] Is(r.body, "form") -> Fields("values", r.body, NoneExcluded)
    [] Is(r.body, "multipart") -> ExtractMultipart(r.body)
    [] OTHER -> ExtractJSONByProtocol(ProtocolForPath(r.marks), r.body)

\* conversation.item.create
ExtractItem(o) ==
  IF HasA(o, "item", "object")
  THEN Walk(<<Call("message", o.fields["item"], <<Key("item")>>)>>, NoneExcluded, "")
  ELSE Nothing("unsupported")

ExtractWebSocketMessage(r) ==
  LET event == Normal(StringAt(r.body, "type"))
  IN  CASE ~Is(r.body, "object") -> Nothing("unsupported")
        [] Is(r.body, "object") /\ event = "response.create" -> ExtractResponses(r.body)
        [] Is(r.body, "object") /\ event = "conversation.item.create" -> ExtractItem(r.body)
        [] OTHER -> ExtractJSONByProtocol(ProtocolForPath(r.marks), r.body)

WalkOf(r) == IF r.via = "http" THEN ExtractRequest(r) ELSE ExtractWebSocketMessage(r)

FinalStatus(status, messages) ==
  CASE status = "open" -> IF messages = <<>> THEN "unsupported" ELSE "partial"
    [] status = "" -> IF messages = <<>> THEN "empty" ELSE "parsed"
    [] OTHER -> status

-----------------------------------------------------------------------------
(* captureHTTP, and copyClientFrames for a text frame *)

\* What a body consists of; a form has a list of values for a key, a multipart body
\* parts with a name.
Consists(body, values) ==
  \/ body \in values
  \/ body.kind \in {"nothing", "garbage"}
  \/ body.kind = "form" /\ \A key \in DOMAIN body.fields : body.fields[key] \in values
  \/ /\ body.kind = "multipart" /\ DOMAIN body.parts = 1..Len(body.parts) /\ Len(body.parts) \in Nat
     /\ \A i \in DOMAIN body.parts :
          body.parts[i].name \in STRING /\ Str(Limited(body.parts[i].text)) \in values

BodiesIn(values) == \A r \in Requests : Consists(r.body, values)

ASSUME BodiesAssumption == BodiesIn(JSON)

Waiting == [messages |-> <<>>, excluded |-> NoneExcluded, status |-> "waiting"]

ExtractInit ==
  request \in Requests /\ next = 0 /\ todo = <<>> /\ extraction = Waiting /\ offered = FALSE

\* ExtractRequest or ExtractWebSocketMessage, up to the outermost loop
Begin ==
  /\ next = 0 /\ next' = 1
  /\ extraction' = [extraction EXCEPT !.excluded = WalkOf(request).excluded]
  /\ UNCHANGED <<request, todo, offered>>

Make(c, rest) ==
  /\ todo' = CallsOf(c) \o rest
  /\ extraction' = [extraction EXCEPT !.messages = @ \o AddUserMessage(c),
                                      !.excluded = Count(@, CountOf(c))]
  /\ UNCHANGED <<request, offered>>

\* The outermost loop comes to its next element.
Iterate ==
  /\ next \in DOMAIN WalkOf(request).calls /\ todo = <<>>
  /\ Make(WalkOf(request).calls[next], <<>>) /\ next' = next + 1

Descend == todo # <<>> /\ Make(Head(todo), Tail(todo)) /\ UNCHANGED next

\* What captureHTTP and copyClientFrames ask before they call Enqueue.
OfferHTTP(e) == e.status # "unsupported" \/ e.messages # <<>>
OfferFrame(e) == OfferHTTP(e) /\ (e.status # "unsupported" \/ request.captureEmpty)

Return ==
  /\ next = Len(WalkOf(request).calls) + 1 /\ todo = <<>> /\ extraction.status = "waiting"
  /\ extraction' =
       [extraction EXCEPT !.status = FinalStatus(WalkOf(request).status, extraction.messages)]
  /\ offered' = IF request.via = "http" THEN OfferHTTP(extraction') ELSE OfferFrame(extraction')
  /\ UNCHANGED <<request, next, todo>>

ExtractNext == Begin \/ Iterate \/ Descend \/ Return

ExtractSpec == ExtractInit /\ [][ExtractNext]_extractVars

-----------------------------------------------------------------------------
(* Properties.  They speak of places in the body, not of how it is walked. *)

Messages == {extraction.messages[i] : i \in DOMAIN extraction.messages}
IsJSON == request.body.kind \in JSONKinds
Extracted == extraction.status # "waiting"

\* The value at a path of the tree.
Child(v, step) ==
  IF Is(v, "array") THEN v.items[step.index] ELSE Field(v, step.key)
At(v, path) ==
  LET at[n \in 0..Len(path)] == IF n = 0 THEN v ELSE Child(at[n - 1], path[n])
  IN  at[Len(path)]

RoleIn(v) == IF Is(v, "object") THEN Normal(StringAt(v, "role")) ELSE ""

\* Every message of a JSON body is, unchanged, the string its source names: nothing
\* is assembled, and a reviewer of the record finds the text where it says.
SourceIsTrue ==
  IsJSON => \A m \in Messages : At(request.body, m.source) = Str(m.text)

TopLevelExcluded ==
  {"system", "developer", "instructions", "systemInstruction", "system_instruction"}

\* The element of a list, or the only object, in which a message lies.
Speaker(m) ==
  At(request.body, SubSeq(m.source, 1, IF Len(m.source) > 1 /\ m.source[2].index > 0 THEN 2 ELSE 1))

\* No text recorded from a JSON body lies in an instruction field or in a message of
\* another role than the user's: what extractRoleMessage promises.  Of the contents of a
\* Gemini request extractGemini leaves out those of the model and the instructions.
NoExcludedText ==
  IsJSON => \A m \in Messages :
    /\ m.source[1].key \notin TopLevelExcluded
    /\ IF m.source[1].key = "contents" THEN RoleIn(Speaker(m)) \notin {"system", "developer", "model"}
                                       ELSE RoleIn(Speaker(m)) \in {"", "user"}

\* No text lies in an object of an excluded role, at any depth and in any protocol.
NoExcludedTextAnywhere ==
  IsJSON => \A m \in Messages : \A n \in 1..Len(m.source) :
    RoleIn(At(request.body, SubSeq(m.source, 1, n))) \notin ExcludedRoles

\* No text lies in the result of a tool, in whatever message it is sent.
NoToolResultText ==
  IsJSON => \A m \in Messages : \A n \in 1..Len(m.source) - 1 :
    LET v == At(request.body, SubSeq(m.source, 1, n))
    IN  Is(v, "object") => StringAt(v, "type") # "tool_result"

\* The audit copy holds the user's words alone: nothing of an object of an excluded
\* role and no result of a tool, as the README says of every protocol.
OnlyUsersWords == NoExcludedTextAnywhere /\ NoToolResultText

\* The list of messages the protocol of the request reads.
ListRead ==
  LET event == IF request.via = "http" THEN "" ELSE Normal(StringAt(request.body, "type"))
      protocol == IF event = "response.create" THEN "openai-responses"
                  ELSE ProtocolForPath(request.marks)
      list(key) == IF HasA(request.body, key, "array") THEN key ELSE "none"
  IN  IF ~Is(request.body, "object") \/ event = "conversation.item.create" THEN "none"
      ELSE IF protocol = "openai-responses" THEN list("input")
      ELSE IF protocol = "gemini" /\ HasA(request.body, "contents", "array") THEN "contents"
      ELSE list("messages")

\* Places of a user's words in the content of a message: the content, a string
\* element of it, or the text of a text part of it.
Words(v, place) ==
  LET at(j) == Append(place, Index(j))
      texts == {j \in DOMAIN v.items : /\ Is(v.items[j], "object") /\ HasA(v.items[j], "text", "string")
                                       /\ StringAt(v.items[j], "type") \in {"", "text", "Text", "input_text"}}
  IN  IF Is(v, "string") THEN {place}
      ELSE IF Is(v, "array")
        THEN {at(j) : j \in {j \in DOMAIN v.items : Is(v.items[j], "string")}}
             \cup {Append(at(j), Key("text")) : j \in texts}
      ELSE {}

\* The places of the users' words in a list of messages.
UserPlaces(list) ==
  LET items == request.body.fields[list].items
      key == IF list = "contents" THEN "parts" ELSE "content"
      mine(v) == /\ Is(v, "object") /\ Has(v, key)
                 /\ IF list = "contents" THEN RoleIn(v) \notin {"system", "developer", "model"}
                                         ELSE RoleIn(v) \in {"", "user"}
                 /\ ~(list = "input" /\ RoleIn(v) = "" /\ StringAt(v, "type") = "input_text")
  IN  UNION {Words(items[i].fields[key], <<Key(list), Index(i), Key(key)>>) :
               i \in {i \in DOMAIN items : mine(items[i])}}

\* One path stands before another: at the first step that differs, by the index in
\* an array or by the order of the prompt fields.
Before(s, t) ==
  \E n \in DOMAIN s \cap DOMAIN t :
    /\ \A k \in 1..(n - 1) : s[k] = t[k]
    /\ \/ s[n].key = t[n].key /\ s[n].index < t[n].index
       \/ \E i, j \in DOMAIN PromptFields :
            i < j /\ s[n].key = PromptFields[i] /\ t[n].key = PromptFields[j]

\* Every text a user wrote in the list of messages is recorded, and the messages stand
\* in the order of the document, so each once: the joined prompt reads as the
\* conversation did.
UserTextRecorded ==
  /\ Extracted /\ ListRead # "none" =>
       \A place \in UserPlaces(ListRead) :
         ~Blank(At(request.body, place).text) => \E m \in Messages : m.source = place
  /\ IsJSON => \A i, j \in DOMAIN extraction.messages :
       i < j => Before(extraction.messages[i].source, extraction.messages[j].source)

\* excluded_role_counts counts each excluded message of the list once, and each
\* instruction field, however the role is spelled.
CountsExact ==
  LET items == request.body.fields["messages"].items
      protocol == ProtocolForPath(request.marks)
      top(role) == IF /\ HasValue(Field(request.body, role))
                      /\ \/ role = "system" /\ protocol \in {"openai-chat", "anthropic-messages"}
                         \/ role = "developer" /\ protocol = "openai-chat"
                   THEN 1 ELSE 0
      listed(role) == Cardinality({i \in DOMAIN items : RoleIn(items[i]) = role})
  IN  Extracted /\ ListRead = "messages" /\ protocol # "gemini" =>
        \A role \in ExcludedRoles : extraction.excluded[role] = listed(role) + top(role)

\* What an excluded role said is left out of the record; of a Gemini request this is said
\* of the roles extractGemini lists.  In the list named messages each message of an
\* excluded role is counted as well; one of another role, such as function, is left out
\* and not counted.
ExcludedCountedNotRecorded == NoExcludedText /\ CountsExact
=============================================================================
