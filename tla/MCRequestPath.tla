--------------------------- MODULE MCRequestPath ---------------------------
(* Three families of cases, each of which varies one part of the path: bodies  *)
(* below, at and above every limit of a four-bit integer; requests and frames  *)
(* of bounded shape, lists of at most two messages whose content is nested at  *)
(* most two arrays deep, every spelling of a role in each place; and texts of  *)
(* up to four runes in one message or of two in each of two messages.          *)
EXTENDS RequestPath, SequencesExt

MCRunes ==
  {[bytes |-> b, size |-> b, space |-> FALSE] : b \in {1, 3, 4}}
  \cup {[bytes |-> 1, size |-> 1, space |-> TRUE], [bytes |-> 1, size |-> 3, space |-> FALSE]}

\* A text that is all white space makes no message.
Visible(texts) == {t \in texts : \E n \in DOMAIN t : ~t[n].space}
Letters == <<[bytes |-> 1, size |-> 1, space |-> FALSE], [bytes |-> 3, size |-> 3, space |-> FALSE]>>
Roles == {"", " ", "user", "User ", "system", " SYSTEM", "developer", "assistant",
          "tool", "model", "function"}
OtherTexts == {"hi", "ho", "first 1 MiB", "text", "Text", "input_text", "image_url", "tool_result",
               "response.create", "Response.Create", "conversation.item.create", "other"}
Spelling(hi, ho) == [t \in Roles \cup OtherTexts |-> IF t = "hi" THEN hi ELSE ho]
Plain == Spelling(Letters, Letters)

-----------------------------------------------------------------------------
(* Bodies *)

Chat == [method |-> "POST", path |-> <<"v1", "chat">>, encoding |-> "", type |-> "json",
         size |-> 1, broken |-> FALSE]
\* Every size, whole and broken; and one size of the requests that differ in a header.
BodyRequests ==
  {[Chat EXCEPT !.size = s, !.broken = b] : s \in 0..8, b \in BOOLEAN}
  \cup {[Chat EXCEPT !.size = 3, !.method = m, !.path = p, !.encoding = e, !.type = t] :
          m \in {"GET", "PUT", "PATCH"}, e \in {"identity", "gzip"},
          p \in {<<"v1">>, <<"v1beta", "models">>, <<"v1alpha">>},
          t \in {"", "form", "multipart", "octets"}}
MCPrefixes == {<<"v1">>, <<"v1beta">>}
MCCaptureLimits == 1..MaxInt

-----------------------------------------------------------------------------
(* What the bodies say *)

Hi == Str("hi")

JsonParts ==
  {Hi, Scalar, Obj([text |-> Hi]), Obj([text |-> Scalar, content |-> Hi])}
  \cup {Obj([type |-> Str(t), text |-> Hi]) : t \in {"", "text", "Text", "input_text", "image_url"}}
  \cup {Obj([type |-> Str(t), content |-> c]) :
          t \in {"text", "tool_result"},
          c \in {Hi, Arr(<<Obj([text |-> Hi]), Hi>>), Obj([content |-> Hi])}}
  \cup {Obj([role |-> Str("assistant"), content |-> Hi])}

Contents ==
  {Hi, Str(" "), Null, Arr(<<>>), Obj([text |-> Hi]), Obj([content |-> Hi])}
  \cup {Arr(<<p>>) : p \in JsonParts} \cup {Arr(<<Obj([type |-> Str("text"), text |-> Hi]), p>>) : p \in JsonParts}

MessagesOf(roles, contents) ==
  {Obj([role |-> Str(r), content |-> c]) : r \in roles, c \in contents}
  \cup {Obj([role |-> Str(r), parts |-> c]) : r \in roles, c \in contents}
  \cup {Obj([role |-> Str(r), text |-> Hi]) : r \in roles}
  \cup {Obj([content |-> c]) : c \in contents}

AnyMessage == MessagesOf(Roles, Contents)
FewMessages ==
  MessagesOf({"user", " SYSTEM", "tool"}, {Hi}) \cup {Scalar, Obj([role |-> Scalar, content |-> Hi])}
Lists == {<<>>} \cup {<<m>> : m \in AnyMessage} \cup {<<m, n>> : m, n \in FewMessages}

InputTexts == {Obj([type |-> Str("input_text"), text |-> Hi]),
               Obj([type |-> Str("input_text"), role |-> Str("tool"), text |-> Hi]), Hi}
Inputs == {Hi, Scalar, Obj([role |-> Str("tool"), content |-> Hi]), Obj([content |-> Hi])}
          \cup {Arr(l) : l \in Lists} \cup {Arr(<<m, n>>) : m, n \in FewMessages \cup InputTexts}
Prompts == {Hi, Str(" "), Scalar, Arr(<<Hi, Scalar, Hi>>)}
Instructions == {Hi, Null, Arr(<<>>), Scalar}

Bodies ==
  {Obj([messages |-> Arr(l)]) : l \in Lists}
  \cup {Obj([messages |-> Arr(l), prompt |-> p, system |-> s, developer |-> s]) :
          l \in {<<>>} \cup {<<m>> : m \in FewMessages}, p \in Prompts, s \in Instructions}
  \cup {Obj([messages |-> Hi, query |-> p, text |-> p]) : p \in Prompts}
  \cup {Obj([input |-> x]) : x \in Inputs}
  \cup {Obj([instructions |-> s, input |-> Hi]) : s \in Instructions}
  \cup {Obj([contents |-> Arr(l)]) : l \in Lists}
  \cup {Obj([contents |-> Hi, prompt |-> Hi, systemInstruction |-> s, system_instruction |-> s]) :
          s \in Instructions}
  \cup {Obj([context |-> Hi, metadata |-> Obj([value |-> Hi])])}
  \cup {Hi, Arr(<<Hi>>), [kind |-> "nothing"], [kind |-> "garbage"]}

Forms ==
  {[kind |-> "form", fields |-> f] :
     f \in [{"prompt", "text", "other"} -> {Arr(<<>>), Arr(<<Hi>>), Arr(<<Str(" "), Hi>>)}]}
Multiparts ==
  {[kind |-> "multipart", parts |-> p, broken |-> b] : b \in BOOLEAN,
     p \in {<<>>} \cup {<<x, y>> : x, y \in [name : {"prompt", "other"}, file : BOOLEAN,
                                             text : {"hi", "beyond 1 MiB"}]}}

Marks == {{"/chat/completions"}, {"/responses"}, {"/messages"}, {"/v1beta", "generatecontent"},
          {"/images"}, {}, {"/chat/completions", "/messages"}, {"/v1beta", "/responses"}}

Events ==
  {Obj([type |-> Str(t), input |-> x]) :
     t \in {"response.create", "Response.Create", "other"}, x \in Inputs}
  \cup {Obj([type |-> Str("conversation.item.create"), item |-> m]) : m \in AnyMessage \cup {Hi}}

HttpExtractions ==
  [via : {"http"}, marks : Marks, body : Bodies \cup Forms \cup Multiparts, captureEmpty : {FALSE}]
Frames ==
  [via : {"ws"}, marks : {{"/responses"}, {}}, body : Events \cup Bodies, captureEmpty : BOOLEAN]

Says(list) == [via |-> "http", marks |-> {"/chat/completions"}, captureEmpty |-> FALSE,
               body |-> IF list = <<>> THEN [kind |-> "nothing"] ELSE Obj([messages |-> Arr(list)])]
Users(text) == Obj([role |-> Str("user"), content |-> Str(text)])

SaidRequests == {Says(l) : l \in {<<>>, <<Users("hi")>>, <<Users("hi"), Users("ho")>>}}
MCRequests == HttpExtractions \cup Frames \cup SaidRequests

\* The values in all of these, nested at most seven deep: a list has two items, or
\* the three of a prompt.
Inside(values) ==
  LET arrays == {v \in values : v.kind = "array"}
      objects == {v \in values : v.kind \in {"object", "form"}}
  IN  {IF n <= Len(v.items) THEN v.items[n] ELSE Null : v \in arrays, n \in 1..3}
      \cup {Field(v, key) : v \in objects, key \in UNION {DOMAIN o.fields : o \in objects}}
MCJSON ==
  LET one == Bodies \cup Forms \cup Events \cup {r.body : r \in SaidRequests}
      two == Inside(one)      three == Inside(two)
      four == Inside(three)   five == Inside(four)
      six == Inside(five)     seven == Inside(six)
      strings == {Null, Str("first 1 MiB")}
  IN  {v \in one \cup two \cup three \cup four \cup five \cup six \cup seven \cup Inside(seven)
             \cup strings : v.kind \in JSONKinds}

\* The HTTP request with such a body: one byte stands for all that is not empty.
Carrier(r) ==
  [Chat EXCEPT !.size = IF r.body.kind = "nothing" THEN 0 ELSE 1,
               !.type = IF r.body.kind \in {"form", "multipart"} THEN r.body.kind ELSE "json"]

-----------------------------------------------------------------------------
(* The cases *)

\* Under the largest limit the copy is empty, and an empty body says nothing.
BodyCases ==
  {[req |-> r, limit |-> l, max |-> 3, words |-> Plain,
    request |-> Says(IF r.size = 0 \/ l = MaxInt THEN <<>> ELSE <<Users("hi")>>)] :
     r \in BodyRequests, l \in MCCaptureLimits}

JsonCases(requests) ==
  {[req |-> Carrier(r), limit |-> 1, max |-> 0, words |-> Plain, request |-> r] : r \in requests}

MCPromptLimits == 0..9
OneText ==
  {[req |-> Chat, limit |-> 1, max |-> m, words |-> Spelling(t, Letters),
    request |-> Says(<<Users("hi")>>)] :
     m \in MCPromptLimits, t \in Visible(TupleOf(MCRunes, 3) \cup TupleOf(MCRunes, 4))}
TwoTexts ==
  {[req |-> Chat, limit |-> 1, max |-> m, words |-> Spelling(t, u),
    request |-> Says(<<Users("hi"), Users("ho")>>)] :
     m \in MCPromptLimits, t \in Visible(TupleOf(MCRunes, 2)), u \in Visible(TupleOf(MCRunes, 2))}

MCFamilies == {BodyCases, JsonCases(HttpExtractions), JsonCases(Frames), OneText, TwoTexts}

\* The requests of the families; a text of Prompt is made on the way, in Extract.
MCHttpRequests == BodyRequests \cup {[Chat EXCEPT !.type = t] : t \in {"form", "multipart"}}
MCValues == {<<>>}
=============================================================================
