-------------------------- MODULE ExtractorProofs --------------------------
(***************************************************************************)
(* Proofs about the extraction, for every set of JSON values closed under  *)
(* its parts and every request over it.  The recursion of the code is the  *)
(* stack todo, so what a recursive function computes is an invariant of    *)
(* the stack: every call on it, and every message recorded, holds the      *)
(* value its path leads to in the body (SourceInv), and the path runs only *)
(* through what a user said (VoiceInv).  A path is followed by a recursive *)
(* function on its length; what holds along it is shown by the search for  *)
(* a least counterexample.                                                 *)
(***************************************************************************)
EXTENDS Extractor, WellFoundedInduction, TLAPS

(* Places in a tree *)

\* The literals are named because the provers do not know them for strings.
Keys ==
  STRING \cup {"", "content", "parts", "text", "messages", "contents", "item",
               "prompt", "query", "input", "description"}
Steps == [key : Keys, index : Nat]
Paths == Seq(Steps)

Below == {p \in Nat \X Nat : p[1] < p[2]}

\* A set of naturals that is not empty has a least element: induction on a path is the
\* search for a least counterexample.
LEMMA LeastNatural ==
  ASSUME NEW T, T \subseteq Nat, T # {}
  PROVE  \E m \in T : \A n \in T : m <= n
<1>1. Below = OpToRel(<, Nat)
  BY Zenon DEF Below, OpToRel
<1>2. IsWellFoundedOn(Below, Nat)
  BY <1>1, NatLessThanWellFounded, Zenon
<1>3. PICK m \in T : \A n \in T : <<n, m>> \notin Below
  BY <1>2, WFMin, Zenon
<1>4. \A n \in T : <<n, m>> \in Nat \X Nat
  OBVIOUS
<1>5. \A n \in T : ~(n < m)
  BY <1>3, <1>4, Zenon DEF Below
<1> QED BY <1>5

\* The values on the way down the first n steps of a path.
Trail(v, path, n, g) ==
  /\ g = [i \in 0..n |-> g[i]] /\ g[0] = v
  /\ \A i \in 1..n : g[i] = Child(g[i - 1], path[i])

LEMMA TrailExists ==
  ASSUME NEW v, NEW path, NEW len \in Nat PROVE \E g : Trail(v, path, len, g)
<1> DEFINE Bad == {n \in 0..len : ~\E g : Trail(v, path, n, g)}
<1>1. ASSUME Bad # {} PROVE FALSE
  <2>1. PICK m \in Bad : \A n \in Bad : m <= n
    <3>1. Bad \subseteq Nat OBVIOUS
    <3> HIDE DEF Bad
    <3> QED BY <1>1, <3>1, LeastNatural, Zenon
  <2>2. m # 0
    <3>1. Trail(v, path, 0, [i \in 0..0 |-> v]) BY DEF Trail
    <3> QED BY <2>1, <3>1
  <2>3. m \in 1..len /\ m - 1 \in 0..len /\ m - 1 \notin Bad
    <3>1. m \in 0..len OBVIOUS
    <3>2. m \in 1..len /\ m - 1 \in 0..len /\ ~(m <= m - 1) BY <2>2, <3>1
    <3> HIDE DEF Bad
    <3> QED BY <2>1, <3>2
  <2>4. PICK g : Trail(v, path, m - 1, g) BY <2>3
  <2> DEFINE h == [i \in 0..m |-> IF i = m THEN Child(g[m - 1], path[m]) ELSE g[i]]
  <2>5. Trail(v, path, m, h)
    <3>1. h = [i \in 0..m |-> h[i]] OBVIOUS
    <3>2. h[0] = v BY <2>3, <2>4 DEF Trail
    <3>3. ASSUME NEW i \in 1..m PROVE h[i] = Child(h[i - 1], path[i])
      <4>1. CASE i = m BY <2>3, <4>1
      <4>2. CASE i # m
        <5>1. i \in 1..(m - 1) /\ i \in 0..m /\ i - 1 \in 0..m /\ i - 1 # m BY <2>3, <4>2
        <5>2. h[i] = g[i] /\ h[i - 1] = g[i - 1] BY <4>2, <5>1
        <5> QED BY <2>4, <5>1, <5>2 DEF Trail
      <4> QED BY <4>1, <4>2
    <3> HIDE DEF h
    <3> QED BY <3>1, <3>2, <3>3, Zenon DEF Trail
  <2> QED BY <2>1, <2>5
<1>2. len \notin Bad /\ len \in 0..len BY <1>1
<1> QED BY <1>2

LEMMA TrailsAgree ==
  ASSUME NEW v, NEW p, NEW q, NEW n \in Nat, NEW m \in Nat,
         NEW g, NEW h, n <= m, \A i \in 1..n : p[i] = q[i],
         Trail(v, p, n, g), Trail(v, q, m, h)
  PROVE  g[n] = h[n]
<1> DEFINE Bad == {i \in 0..n : g[i] # h[i]}
<1>1. ASSUME Bad # {} PROVE FALSE
  <2>1. PICK k \in Bad : \A i \in Bad : k <= i
    <3>1. Bad \subseteq Nat OBVIOUS
    <3> HIDE DEF Bad
    <3> QED BY <1>1, <3>1, LeastNatural, Zenon
  <2>2. k \in 0..n /\ g[k] # h[k] OBVIOUS
  <2>3. k # 0 BY <2>2 DEF Trail
  <2>4. k \in 1..n /\ k \in 1..m /\ k - 1 \in 0..n /\ ~(k <= k - 1) BY <2>2, <2>3
  <2>5. g[k - 1] = h[k - 1] BY <2>1, <2>4
  <2> QED BY <2>2, <2>4, <2>5, Zenon DEF Trail
<1>2. n \in 0..n OBVIOUS
<1> QED BY <1>1, <1>2

LEMMA AtTrail ==
  ASSUME NEW v, NEW path \in Paths, NEW g, Trail(v, path, Len(path), g)
  PROVE  At(v, path) = g[Len(path)]
<1> DEFINE Down(f) == [n \in 0..Len(path) |-> IF n = 0 THEN v ELSE Child(f[n - 1], path[n])]
           at == CHOOSE f : f = Down(f)
<1>0. Len(path) \in Nat BY DEF Paths
<1>1. g = Down(g)
  <2>1. g = [i \in 0..Len(path) |-> g[i]] BY DEF Trail
  <2>2. \A i \in 0..Len(path) : g[i] = Down(g)[i] BY <1>0 DEF Trail
  <2>3. Down(g) = [i \in 0..Len(path) |-> Down(g)[i]] OBVIOUS
  <2> HIDE DEF Down
  <2> QED BY <2>1, <2>2, <2>3
<1>2. at = Down(at) BY <1>1, Zenon
<1>3. At(v, path) = at[Len(path)] BY Zenon DEF At
<1> HIDE DEF at
<1>4. Trail(v, path, Len(path), at)
  <2>1. at = [i \in 0..Len(path) |-> at[i]] BY <1>2
  <2>2. at[0] = v /\ \A i \in 1..Len(path) : at[i] = Child(at[i - 1], path[i]) BY <1>0, <1>2
  <2> QED BY <2>1, <2>2, Zenon DEF Trail
<1>5. g[Len(path)] = at[Len(path)] BY <1>0, <1>4, TrailsAgree
<1> QED BY <1>3, <1>5

\* The equation of At.
LEMMA AtStep ==
  ASSUME NEW v
  PROVE  /\ At(v, <<>>) = v
         /\ \A path \in Paths, step \in Steps :
              At(v, Append(path, step)) = Child(At(v, path), step)
<1>1. At(v, <<>>) = v
  <2>1. PICK g : Trail(v, <<>>, 0, g) BY TrailExists
  <2>2. <<>> \in Paths /\ Len(<<>>) = 0 BY DEF Paths
  <2>3. At(v, <<>>) = g[0] BY <2>1, <2>2, AtTrail
  <2> QED BY <2>1, <2>3 DEF Trail
<1>2. ASSUME NEW path \in Paths, NEW step \in Steps
      PROVE  At(v, Append(path, step)) = Child(At(v, path), step)
  <2> DEFINE q == Append(path, step)
             n == Len(path)
  <2>1. /\ q \in Paths /\ n \in Nat /\ Len(q) = n + 1 /\ q[n + 1] = step
        /\ n + 1 \in Nat /\ n <= n + 1 /\ n \in 0..n
        /\ \A i \in 1..n : path[i] = q[i]
    BY DEF Paths
  <2> HIDE DEF q, n
  <2>2. PICK g : Trail(v, path, n, g) BY <2>1, TrailExists, Zenon
  <2>3. PICK h : Trail(v, q, n + 1, h) BY <2>1, TrailExists
  <2>4. g[n] = h[n]
    <3>1. \A i \in 1..n : path[i] = q[i] BY <2>1
    <3>2. n \in Nat /\ n + 1 \in Nat /\ n <= n + 1 BY <2>1
    <3>3. Trail(v, path, n, g) /\ Trail(v, q, n + 1, h) BY <2>2, <2>3
    <3> QED BY <3>1, <3>2, <3>3, TrailsAgree
  <2>5. h[n + 1] = Child(h[n], step)
    <3>1. n + 1 \in 1..(n + 1) /\ (n + 1) - 1 = n BY <2>1
    <3> QED BY <2>1, <2>3, <3>1 DEF Trail
  <2>6. At(v, path) = g[n] /\ At(v, q) = h[n + 1] BY <2>1, <2>2, <2>3, AtTrail DEF n
  <2> QED BY <2>4, <2>5, <2>6 DEF q
<1> QED BY <1>1, <1>2

-----------------------------------------------------------------------------
(* The calls a call makes *)

Names == {"content", "part", "message", "input", "gemini", "field", "values", "text"}
Calls == [name : Names, value : JSON, source : Paths]

LEMMA JSONParts ==
  ASSUME NEW v \in JSON
  PROVE  /\ v.kind \in JSONKinds
         /\ v.kind = "string" => v.text \in STRING /\ v = Str(v.text)
         /\ v.kind = "array" => v.items \in Seq(JSON)
         /\ v.kind = "object" => \A key : Field(v, key) \in JSON
BY JSONAssumption DEF ClosedUnderParts, Field, Has

\* A call makes no call, or one for the same string, one for a field, or one for
\* each element.
OneText(c, calls) ==
  Is(c.value, "string") /\ calls = <<Call("text", c.value, c.source)>>
OneField(c, calls) ==
  /\ Is(c.value, "object")
  /\ \E name \in {"text", "content"}, key \in Keys : calls = Into(name, c.value, key, c.source)
Elements(c, calls) ==
  /\ Is(c.value, "array")
  /\ \E name \in {"text", "part"} : calls = Each(name, c.value, c.source)

LEMMA CallShape ==
  ASSUME NEW c \in Calls, c.name # "values"
  PROVE  \/ CallsOf(c) = <<>> \/ OneText(c, CallsOf(c))
         \/ OneField(c, CallsOf(c)) \/ Elements(c, CallsOf(c))
<1> DEFINE v == c.value
           s == c.source
           Shape(calls) == calls = <<>> \/ OneText(c, calls) \/ OneField(c, calls) \/ Elements(c, calls)
<1>1. Shape(<<>>) OBVIOUS
<1>2. ASSUME Is(v, "string") PROVE Shape(<<Call("text", v, s)>>)
  BY <1>2 DEF OneText
<1>3. ASSUME Is(v, "object"), NEW name \in {"text", "content"}, NEW key \in Keys
      PROVE  Shape(Into(name, v, key, s))
  BY <1>3, Zenon DEF OneField
<1>4. ASSUME Is(v, "array"), NEW name \in {"text", "part"} PROVE Shape(Each(name, v, s))
  BY <1>4 DEF Elements
<1>5. "text" \in Keys /\ "content" \in Keys /\ "parts" \in Keys BY DEF Keys
<1> HIDE DEF Shape
<1>6. Shape(ExtractContent(v, s))
  BY <1>1, <1>2, <1>3, <1>4, <1>5 DEF ExtractContent, Nested, Is
<1>7. Shape(ExtractPart(v, s))
  BY <1>1, <1>2, <1>3, <1>5 DEF ExtractPart, Nested, Is
<1>8. ASSUME Is(v, "object") PROVE Shape(ExtractRoleMessage(v, s))
  BY <1>1, <1>3, <1>5, <1>8 DEF ExtractRoleMessage
<1>9. Shape(RoleMessage(v, s))
  BY <1>1, <1>8 DEF RoleMessage
<1>10. Shape(InputItem(v, s))
  BY <1>1, <1>2, <1>3, <1>5, <1>8 DEF InputItem, Is
<1>11. Shape(GeminiContent(v, s))
  BY <1>1, <1>3, <1>5 DEF GeminiContent
<1>12. Shape(PromptField(v, s))
  BY <1>1, <1>2, <1>4 DEF PromptField, Is
<1>13. c.name \in Names BY DEF Calls
<1>14. Shape(CallsOf(c))
  BY <1>1, <1>6, <1>7, <1>9, <1>10, <1>11, <1>12, <1>13 DEF CallsOf, Names
<1> QED BY <1>14 DEF Shape

LEMMA StepTypes ==
  /\ \A key \in Keys : Key(key) \in Steps
  /\ \A i \in Nat : Index(i) \in Steps
BY Zenon DEF Steps, Key, Index, Keys

\* The places of the calls are the places of their values.
Rooted(body, c) == At(body, c.source) = c.value

LEMMA CallsTyped ==
  ASSUME NEW c \in Calls
  PROVE  CallsOf(c) \in Seq(Calls)
<1>1. /\ c.name \in Names /\ c.value \in JSON /\ c.source \in Paths BY DEF Calls
<1>2. CASE c.name # "values"
  <2>1. CASE CallsOf(c) = <<>> BY <2>1
  <2>2. CASE OneText(c, CallsOf(c))
    <3>1. Call("text", c.value, c.source) \in Calls BY <1>1 DEF Calls, Call, Names
    <3> QED BY <2>2, <3>1 DEF OneText
  <2>3. CASE OneField(c, CallsOf(c))
    <3>1. PICK name \in {"text", "content"}, key \in Keys :
            CallsOf(c) = <<Call(name, Field(c.value, key), Append(c.source, Key(key)))>>
      BY <2>3 DEF OneField, Into
    <3>2. Field(c.value, key) \in JSON BY <1>1, <2>3, JSONParts DEF OneField, Is
    <3>3. Append(c.source, Key(key)) \in Paths BY <1>1, StepTypes DEF Paths
    <3>4. Call(name, Field(c.value, key), Append(c.source, Key(key))) \in Calls
      BY <3>2, <3>3 DEF Calls, Call, Names
    <3> QED BY <3>1, <3>4
  <2>4. CASE Elements(c, CallsOf(c))
    <3>1. PICK name \in {"text", "part"} : CallsOf(c) = Each(name, c.value, c.source)
      BY <2>4 DEF Elements
    <3>2. c.value.items \in Seq(JSON) BY <1>1, <2>4, JSONParts DEF Elements, Is
    <3>3. ASSUME NEW i \in DOMAIN c.value.items
          PROVE  Call(name, c.value.items[i], Append(c.source, Index(i))) \in Calls
      <4>1. i \in Nat /\ c.value.items[i] \in JSON BY <3>2, <3>3
      <4>2. Append(c.source, Index(i)) \in Paths BY <1>1, <4>1, StepTypes DEF Paths
      <4> QED BY <4>1, <4>2 DEF Calls, Call, Names
    <3>4. DOMAIN c.value.items = 1..Len(c.value.items) /\ Len(c.value.items) \in Nat BY <3>2
    <3>5. Each(name, c.value, c.source) \in [1..Len(c.value.items) -> Calls]
      BY <3>3, <3>4 DEF Each
    <3> QED BY <3>1, <3>4, <3>5
  <2> QED BY <1>2, <2>1, <2>2, <2>3, <2>4, CallShape
<1>3. CASE c.name = "values"
  <2>1. CallsOf(c) = FormValues(c.value, c.source) BY <1>3 DEF CallsOf
  <2>2. CASE Is(c.value, "array")
    <3>1. c.value.items \in Seq(JSON) BY <1>1, <2>2, JSONParts DEF Is
    <3>2. ASSUME NEW i \in DOMAIN c.value.items
          PROVE  Call("text", c.value.items[i], c.source) \in Calls
      BY <1>1, <3>1, <3>2 DEF Calls, Call, Names
    <3>3. DOMAIN c.value.items = 1..Len(c.value.items) /\ Len(c.value.items) \in Nat BY <3>1
    <3>4. FormValues(c.value, c.source) \in [1..Len(c.value.items) -> Calls]
      BY <2>2, <3>2, <3>3 DEF FormValues
    <3> QED BY <2>1, <3>3, <3>4
  <2> QED BY <2>1, <2>2 DEF FormValues
<1> QED BY <1>2, <1>3

LEMMA CallsRooted ==
  ASSUME NEW c \in Calls, c.name # "values", NEW body, Rooted(body, c)
  PROVE  /\ \A i \in DOMAIN CallsOf(c) : Rooted(body, CallsOf(c)[i])
         /\ \A i \in DOMAIN CallsOf(c) : CallsOf(c)[i].name \in {"text", "content", "part"}
<1>1. /\ c.name \in Names /\ c.value \in JSON /\ c.source \in Paths BY DEF Calls
<1>2. At(body, c.source) = c.value BY DEF Rooted
<1>3. CASE CallsOf(c) = <<>> BY <1>3
<1>4. CASE OneText(c, CallsOf(c))
  <2>1. /\ CallsOf(c) = <<Call("text", c.value, c.source)>> BY <1>4 DEF OneText
  <2> QED BY <1>2, <2>1 DEF Call, Rooted
<1>5. CASE OneField(c, CallsOf(c))
  <2>1. PICK name \in {"text", "content"}, key \in Keys :
          CallsOf(c) = <<Call(name, Field(c.value, key), Append(c.source, Key(key)))>>
    BY <1>5 DEF OneField, Into
  <2>2. At(body, Append(c.source, Key(key))) = Child(c.value, Key(key))
    <3>1. Key(key) \in Steps BY StepTypes
    <3>2. c.source \in Paths BY <1>1
    <3>3. At(body, Append(c.source, Key(key))) = Child(At(body, c.source), Key(key))
      BY <3>1, <3>2, AtStep, Zenon
    <3> QED BY <1>2, <3>3
  <2>3. Child(c.value, Key(key)) = Field(c.value, key)
    BY <1>5 DEF OneField, Is, Child, Key
  <2>4. /\ DOMAIN CallsOf(c) = {1}
        /\ CallsOf(c)[1] = Call(name, Field(c.value, key), Append(c.source, Key(key)))
    BY <2>1
  <2>5. Rooted(body, CallsOf(c)[1]) BY <2>2, <2>3, <2>4 DEF Call, Rooted
  <2>6. CallsOf(c)[1].name = name BY <2>4 DEF Call
  <2>7. ASSUME NEW i \in DOMAIN CallsOf(c) PROVE i = 1 BY <2>4
  <2> QED BY <2>5, <2>6, <2>7
<1>6. CASE Elements(c, CallsOf(c))
  <2>1. PICK name \in {"text", "part"} : CallsOf(c) = Each(name, c.value, c.source)
    BY <1>6 DEF Elements
  <2>2. c.value.items \in Seq(JSON) BY <1>1, <1>6, JSONParts DEF Elements, Is
  <2>3. DOMAIN CallsOf(c) = DOMAIN c.value.items BY <2>1 DEF Each
  <2>4. ASSUME NEW i \in DOMAIN c.value.items
        PROVE  Rooted(body, CallsOf(c)[i]) /\ CallsOf(c)[i].name = name
    <3>1. i \in Nat BY <2>2, <2>4
    <3>2. At(body, Append(c.source, Index(i))) = Child(c.value, Index(i))
      <4>1. Index(i) \in Steps BY <3>1, StepTypes
      <4>2. At(body, Append(c.source, Index(i))) = Child(At(body, c.source), Index(i))
        BY <1>1, <4>1, AtStep, Zenon
      <4> QED BY <1>2, <4>2
    <3>3. Child(c.value, Index(i)) = c.value.items[i]
      BY <1>6 DEF Elements, Child, Index
    <3>4. CallsOf(c)[i] = Call(name, c.value.items[i], Append(c.source, Index(i)))
      BY <2>1, <2>4 DEF Each
    <3> QED BY <3>2, <3>3, <3>4 DEF Call, Rooted
  <2> QED BY <2>3, <2>4
<1> QED BY <1>3, <1>4, <1>5, <1>6, CallShape

-----------------------------------------------------------------------------
(* The outermost loop *)

Statuses == {"", "empty", "unsupported", "partial", "open"}
Counts == [ExcludedRoles -> Nat]

LEMMA CountTyped ==
  ASSUME NEW excluded \in Counts, NEW role
  PROVE  Count(excluded, role) \in Counts
BY DEF Counts, Count

LEMMA InstructionTyped ==
  ASSUME NEW excluded \in Counts, NEW o, NEW key, NEW role
  PROVE  Instruction(o, key, role, excluded) \in Counts
BY CountTyped DEF Instruction

LEMMA NoneTyped == NoneExcluded \in Counts
BY DEF NoneExcluded, Counts

\* The loop of a JSON body runs over one value, a list, or the prompt fields.
ListNames == [messages |-> "message", input |-> "input", contents |-> "gemini"]
Single(o, calls) ==
  \/ HasA(o, "input", "string") /\ calls = <<Call("text", Field(o, "input"), <<Key("input")>>)>>
  \/ \E key \in {"input", "item"} : /\ HasA(o, key, "object")
                                    /\ calls = <<Call("message", Field(o, key), <<Key(key)>>)>>
Listed(o, calls, key) ==
  HasA(o, key, "array") /\ calls = Each(ListNames[key], Field(o, key), <<Key(key)>>)
Opens(o, calls) ==
  \/ calls = <<>> \/ Single(o, calls) \/ calls = FieldCalls("field", o)
  \/ \E key \in {"messages", "input", "contents"} : Listed(o, calls, key)
WalkOK(o, w) == Opens(o, w.calls) /\ w.excluded \in Counts /\ w.status \in Statuses

LEMMA GenericOpens ==
  ASSUME NEW o, NEW excluded \in Counts
  PROVE  WalkOK(o, ExtractGeneric(o, excluded))
<1>1. CASE HasA(o, "messages", "array") /\ o.fields["messages"].items # <<>>
  BY <1>1 DEF ExtractGeneric, MessageList, Walk, WalkOK, Opens, Listed, ListNames, Statuses, HasA, Field, Is, Null
<1>2. CASE ~(HasA(o, "messages", "array") /\ o.fields["messages"].items # <<>>)
  BY <1>2, Zenon DEF ExtractGeneric, Fields, Walk, WalkOK, Opens, Statuses
<1> QED BY <1>1, <1>2

LEMMA JSONOpens ==
  ASSUME NEW o, NEW protocol, Is(o, "object")
  PROVE  /\ WalkOK(o, ExtractJSONByProtocol(protocol, o))
         /\ WalkOK(o, ExtractResponses(o))
         /\ WalkOK(o, ExtractItem(o))
<1>1. \A status \in Statuses, excluded \in Counts : WalkOK(o, Walk(<<>>, excluded, status))
  BY DEF Walk, WalkOK, Opens
<1>2. \A status \in Statuses, excluded \in Counts : HasA(o, "messages", "array") =>
        WalkOK(o, MessageList(o, excluded, status))
  BY DEF MessageList, Walk, WalkOK, Opens, Listed, ListNames, HasA, Field, Is, Null
<1>3. WalkOK(o, ExtractOpenAIChat(o))
  <2> DEFINE e == Instruction(o, "developer", "developer", Instruction(o, "system", "system", NoneExcluded))
  <2>1. e \in Counts BY NoneTyped, InstructionTyped
  <2> HIDE DEF e
  <2>2. WalkOK(o, ExtractGeneric(o, e)) BY <2>1, GenericOpens
  <2>3. "" \in Statuses /\ "empty" \in Statuses BY DEF Statuses
  <2> QED BY <1>2, <2>1, <2>2, <2>3, Zenon DEF ExtractOpenAIChat, e
<1>4. WalkOK(o, ExtractResponses(o))
  <2> DEFINE e == Instruction(o, "instructions", "system", NoneExcluded)
             input == Field(o, "input")
  <2>1. e \in Counts BY NoneTyped, InstructionTyped
  <2> HIDE DEF e
  <2>2. "empty" \in Statuses /\ "partial" \in Statuses /\ "" \in Statuses BY DEF Statuses
  <2>3. Is(input, "string") => WalkOK(o, Walk(<<Call("text", input, <<Key("input")>>)>>, e, ""))
    BY <2>1, <2>2, Zenon DEF Walk, WalkOK, Opens, Single, HasA
  <2>4. Is(input, "array") => WalkOK(o, Walk(Each("input", input, <<Key("input")>>), e, ""))
    BY <2>1, <2>2, Zenon DEF Walk, WalkOK, Opens, Listed, ListNames, HasA
  <2>5. Is(input, "object") => WalkOK(o, Walk(<<Call("message", input, <<Key("input")>>)>>, e, ""))
    BY <2>1, <2>2, Zenon DEF Walk, WalkOK, Opens, Single, HasA
  <2>6. ~Has(o, "input") => Is(input, "null") BY DEF Field, Is, Null
  <2> QED BY <1>1, <2>1, <2>2, <2>3, <2>4, <2>5, <2>6, Zenon DEF ExtractResponses, e, Is
<1>5. WalkOK(o, ExtractAnthropic(o))
  <2> DEFINE e == Instruction(o, "system", "system", NoneExcluded)
  <2>1. e \in Counts BY NoneTyped, InstructionTyped
  <2> HIDE DEF e
  <2>2. "" \in Statuses /\ "empty" \in Statuses BY DEF Statuses
  <2> QED BY <1>1, <1>2, <2>1, <2>2, Zenon DEF ExtractAnthropic, e
<1>6. WalkOK(o, ExtractGemini(o))
  <2> DEFINE e == Instruction(o, "system_instruction", "system",
                    Instruction(o, "systemInstruction", "system", NoneExcluded))
  <2>1. e \in Counts BY NoneTyped, InstructionTyped
  <2> HIDE DEF e
  <2>2. WalkOK(o, ExtractGeneric(o, e)) BY <2>1, GenericOpens
  <2>3. HasA(o, "contents", "array") =>
          WalkOK(o, Walk(Each("gemini", o.fields["contents"], <<Key("contents")>>), e, ""))
    BY <2>1 DEF Walk, WalkOK, Opens, Listed, ListNames, HasA, Field, Is, Null, Statuses
  <2> QED BY <2>2, <2>3, Zenon DEF ExtractGemini, e
<1>7. WalkOK(o, ExtractGeneric(o, NoneExcluded)) BY NoneTyped, GenericOpens
<1>8. WalkOK(o, ExtractItem(o))
  <2>1. WalkOK(o, Nothing("unsupported")) BY <1>1, NoneTyped, Zenon DEF Nothing, Statuses
  <2>2. HasA(o, "item", "object") =>
          WalkOK(o, Walk(<<Call("message", o.fields["item"], <<Key("item")>>)>>, NoneExcluded, ""))
    BY NoneTyped DEF Walk, WalkOK, Opens, Single, HasA, Field, Is, Null, Statuses
  <2> QED BY <2>1, <2>2, Zenon DEF ExtractItem
<1>9. WalkOK(o, ExtractJSONByProtocol(protocol, o))
  BY <1>3, <1>4, <1>5, <1>6, <1>7 DEF ExtractJSONByProtocol
<1> QED BY <1>4, <1>8, <1>9

LEMMA PromptKeys ==
  /\ DOMAIN PromptFields = 1..5
  /\ \A i \in 1..5 : PromptFields[i] \in Keys
<1>1. DOMAIN PromptFields = 1..5 BY DEF PromptFields
<1>2. ASSUME NEW i \in 1..5 PROVE PromptFields[i] \in Keys
  <2>1. i = 1 \/ i = 2 \/ i = 3 \/ i = 4 \/ i = 5 OBVIOUS
  <2>2. /\ PromptFields[1] = "prompt" /\ PromptFields[2] = "query" /\ PromptFields[3] = "input"
        /\ PromptFields[4] = "text" /\ PromptFields[5] = "description"
    BY DEF PromptFields
  <2> QED BY <2>1, <2>2, Zenon DEF Keys
<1> QED BY <1>1, <1>2

LEMMA FieldCallsTyped ==
  ASSUME NEW o, \A key : Field(o, key) \in JSON, NEW name \in Names
  PROVE  FieldCalls(name, o) \in Seq(Calls)
<1>1. DOMAIN PromptFields = 1..5 BY PromptKeys
<1>2. ASSUME NEW i \in 1..5
      PROVE  Call(name, Field(o, PromptFields[i]), <<Key(PromptFields[i])>>) \in Calls
  <2>1. PromptFields[i] \in Keys BY PromptKeys
  <2>2. <<Key(PromptFields[i])>> \in Paths BY <2>1, StepTypes DEF Paths
  <2> QED BY <2>2 DEF Calls, Call
<1> DEFINE n == 5
<1>3. n \in Nat /\ FieldCalls(name, o) \in [1..n -> Calls] BY <1>1, <1>2 DEF FieldCalls
<1> HIDE DEF n
<1> QED BY <1>3

LEMMA OpensTyped ==
  ASSUME NEW o \in JSON, Is(o, "object"), NEW calls, Opens(o, calls)
  PROVE  calls \in Seq(Calls)
<1>1. \A key : Field(o, key) \in JSON BY JSONParts DEF Is
<1>2. \A key \in Keys : <<Key(key)>> \in Paths BY StepTypes DEF Paths
<1>3. "input" \in Keys /\ "item" \in Keys /\ "messages" \in Keys /\ "contents" \in Keys BY DEF Keys
<1>4. CASE calls = <<>> BY <1>4
<1>5. CASE Single(o, calls)
  <2>1. \A name \in {"text", "message"}, key \in Keys : Call(name, Field(o, key), <<Key(key)>>) \in Calls
    BY <1>1, <1>2 DEF Calls, Call, Names
  <2>2. PICK c \in Calls : calls = <<c>>
    <3>1. CASE calls = <<Call("text", Field(o, "input"), <<Key("input")>>)>>
      BY <1>3, <2>1, <3>1
    <3>2. ASSUME NEW key \in {"input", "item"}, calls = <<Call("message", Field(o, key), <<Key(key)>>)>>
          PROVE  \E c \in Calls : calls = <<c>>
      BY <1>3, <2>1, <3>2
    <3> QED BY <1>5, <3>1, <3>2 DEF Single
  <2> QED BY <2>2
<1>6. CASE calls = FieldCalls("field", o) BY <1>1, <1>6, FieldCallsTyped DEF Names
<1>7. ASSUME NEW key \in {"messages", "input", "contents"}, Listed(o, calls, key)
      PROVE  calls \in Seq(Calls)
  <2> DEFINE list == Field(o, key)
             name == ListNames[key]
  <2>1. list \in JSON /\ list.kind = "array" BY <1>1, <1>7 DEF Listed, HasA, Is
  <2>2. list.items \in Seq(JSON) BY <2>1, JSONParts
  <2>3. name \in Names BY DEF ListNames, Names
  <2>4. calls = Each(name, list, <<Key(key)>>) BY <1>7 DEF Listed
  <2>5. <<Key(key)>> \in Paths BY <1>2, <1>3
  <2> HIDE DEF list, name
  <2>6. ASSUME NEW i \in DOMAIN list.items
        PROVE  Call(name, list.items[i], Append(<<Key(key)>>, Index(i))) \in Calls
    <3>1. i \in Nat /\ list.items[i] \in JSON BY <2>2, <2>6
    <3>2. Append(<<Key(key)>>, Index(i)) \in Paths BY <2>5, <3>1, StepTypes DEF Paths
    <3> QED BY <2>3, <3>1, <3>2 DEF Calls, Call
  <2>7. DOMAIN list.items = 1..Len(list.items) /\ Len(list.items) \in Nat BY <2>2
  <2>8. Each(name, list, <<Key(key)>>) \in [1..Len(list.items) -> Calls]
    BY <2>6, <2>7 DEF Each
  <2> QED BY <2>4, <2>7, <2>8
<1> QED BY <1>4, <1>5, <1>6, <1>7 DEF Opens

LEMMA OpensRooted ==
  ASSUME NEW o \in JSON, Is(o, "object"), NEW calls, Opens(o, calls)
  PROVE  \A i \in DOMAIN calls : Rooted(o, calls[i]) /\ calls[i].name # "values"
<1>1. <<>> \in Paths /\ At(o, <<>>) = o BY AtStep DEF Paths
<1>2. \A key \in Keys : At(o, <<Key(key)>>) = Field(o, key)
  <2> TAKE key \in Keys
  <2>1. Key(key) \in Steps BY StepTypes
  <2>2. At(o, Append(<<>>, Key(key))) = Child(At(o, <<>>), Key(key)) BY <1>1, <2>1, AtStep, Zenon
  <2>3. Child(o, Key(key)) = Field(o, key) BY DEF Child, Is, Key
  <2>4. Append(<<>>, Key(key)) = <<Key(key)>> OBVIOUS
  <2> QED BY <1>1, <2>2, <2>3, <2>4
<1>3. "input" \in Keys /\ "item" \in Keys /\ "messages" \in Keys /\ "contents" \in Keys BY DEF Keys
<1>4. CASE calls = <<>> BY <1>4
<1>5. CASE Single(o, calls)
  <2>1. \A name, key \in Keys : Rooted(o, Call(name, Field(o, key), <<Key(key)>>))
    BY <1>2 DEF Rooted, Call
  <2>2. PICK name \in {"text", "message"}, key \in Keys : calls = <<Call(name, Field(o, key), <<Key(key)>>)>>
    BY <1>3, <1>5 DEF Single
  <2>3. DOMAIN calls = {1} /\ calls[1] = Call(name, Field(o, key), <<Key(key)>>) BY <2>2
  <2>4. Rooted(o, calls[1]) /\ calls[1].name = name BY <1>2, <2>3 DEF Rooted, Call
  <2> QED BY <2>3, <2>4
<1>6. CASE calls = FieldCalls("field", o)
  <2>1. DOMAIN PromptFields = 1..5 BY PromptKeys
  <2>2. ASSUME NEW i \in 1..5 PROVE Rooted(o, calls[i]) /\ calls[i].name # "values"
    <3>1. PromptFields[i] \in Keys BY PromptKeys
    <3>2. calls[i] = Call("field", Field(o, PromptFields[i]), <<Key(PromptFields[i])>>)
      BY <1>6, <2>1 DEF FieldCalls
    <3> QED BY <1>2, <3>1, <3>2 DEF Rooted, Call
  <2>3. DOMAIN calls = 1..5 BY <1>6, <2>1 DEF FieldCalls
  <2> QED BY <2>2, <2>3
<1>7. ASSUME NEW key \in {"messages", "input", "contents"}, Listed(o, calls, key)
      PROVE  \A i \in DOMAIN calls : Rooted(o, calls[i]) /\ calls[i].name # "values"
  <2> DEFINE list == Field(o, key)
             name == ListNames[key]
  <2>1. list \in JSON /\ list.kind = "array" BY <1>7, JSONParts DEF Listed, HasA, Is
  <2>2. list.items \in Seq(JSON) BY <2>1, JSONParts
  <2>3. name # "values" BY DEF ListNames
  <2>4. calls = Each(name, list, <<Key(key)>>) BY <1>7 DEF Listed
  <2>5. <<Key(key)>> \in Paths /\ At(o, <<Key(key)>>) = list BY <1>2, <1>3, StepTypes DEF Paths
  <2> HIDE DEF list, name
  <2>6. DOMAIN calls = DOMAIN list.items BY <2>4 DEF Each
  <2>7. ASSUME NEW i \in DOMAIN list.items
        PROVE  Rooted(o, calls[i]) /\ calls[i].name # "values"
    <3>1. i \in Nat BY <2>2, <2>7
    <3>2. Index(i) \in Steps BY <3>1, StepTypes
    <3>3. At(o, Append(<<Key(key)>>, Index(i))) = Child(At(o, <<Key(key)>>), Index(i))
      BY <2>5, <3>2, AtStep, Zenon
    <3>4. Child(list, Index(i)) = list.items[i] BY <2>1 DEF Child, Index, Is
    <3>5. calls[i] = Call(name, list.items[i], Append(<<Key(key)>>, Index(i)))
      BY <2>4, <2>7 DEF Each
    <3> QED BY <2>3, <2>5, <3>3, <3>4, <3>5 DEF Call, Rooted
  <2> QED BY <2>6, <2>7
<1> QED BY <1>4, <1>5, <1>6, <1>7 DEF Opens

LEMMA WalkParts ==
  ASSUME NEW calls, NEW excluded, NEW status
  PROVE  /\ Walk(calls, excluded, status).calls = calls
         /\ Walk(calls, excluded, status).excluded = excluded
         /\ Walk(calls, excluded, status).status = status
BY DEF Walk

LEMMA RequestWalk ==
  ASSUME NEW r \in Requests
  PROVE  /\ WalkOf(r).calls \in Seq(Calls) /\ WalkOf(r).excluded \in Counts
         /\ WalkOf(r).status \in Statuses
         /\ r.body.kind \in JSONKinds => r.body \in JSON /\ Opens(r.body, WalkOf(r).calls)
         /\ r.body.kind \in JSONKinds \ {"object"} => WalkOf(r).calls = <<>>
<1>0. Consists(r.body, JSON) BY BodiesAssumption DEF BodiesIn
<1>1. r.body.kind \in JSONKinds => r.body \in JSON BY <1>0 DEF Consists, JSONKinds
<1>2. \A status \in Statuses : WalkOK(r.body, Nothing(status))
  BY NoneTyped DEF Nothing, Walk, WalkOK, Opens
<1>3. "unsupported" \in Statuses /\ "empty" \in Statuses BY DEF Statuses
<1>4. WalkOK(r.body, ExtractJSONByProtocol(ProtocolForPath(r.marks), r.body))
  BY <1>2, <1>3, JSONOpens DEF ExtractJSONByProtocol
<1>5. WalkOK(r.body, ExtractWebSocketMessage(r))
  BY <1>2, <1>3, <1>4, JSONOpens DEF ExtractWebSocketMessage
<1>6. CASE r.body.kind \notin {"form", "multipart"} \/ r.via # "http"
  <2>1. WalkOK(r.body, WalkOf(r))
    BY <1>2, <1>3, <1>4, <1>5, <1>6 DEF WalkOf, ExtractRequest, Is
  <2>2. r.body.kind # "object" => WalkOf(r).calls = <<>>
    BY <1>6 DEF WalkOf, ExtractRequest, ExtractWebSocketMessage, ExtractJSONByProtocol, Nothing, Walk, Is
  <2>3. WalkOf(r).calls \in Seq(Calls)
    <3>1. CASE r.body.kind = "object"
      BY <1>1, <2>1, <3>1, OpensTyped DEF WalkOK, JSONKinds, Is
    <3>2. CASE r.body.kind # "object"
      <4>1. WalkOf(r).calls = <<>> BY <2>2, <3>2
      <4> QED BY <4>1
    <3> QED BY <3>1, <3>2
  <2> QED BY <1>1, <2>1, <2>2, <2>3 DEF WalkOK
<1>7. CASE r.body.kind = "form" /\ r.via = "http"
  <2>1. WalkOf(r) = Fields("values", r.body, NoneExcluded)
    BY <1>7 DEF WalkOf, ExtractRequest, Is
  <2>2. \A key : Field(r.body, key) \in JSON
    <3>1. Null \in JSON BY JSONAssumption DEF ClosedUnderParts
    <3>2. r.body.kind \notin JSONKinds BY <1>7 DEF JSONKinds
    <3>3. \A v \in JSON : v.kind \in JSONKinds BY JSONParts
    <3>4. \A key \in DOMAIN r.body.fields : r.body.fields[key] \in JSON
      BY <1>0, <1>7, <3>2, <3>3 DEF Consists
    <3> QED BY <3>1, <3>4 DEF Field, Has
  <2>3. FieldCalls("values", r.body) \in Seq(Calls) BY <2>2, FieldCallsTyped DEF Names
  <2>4. WalkOf(r) = Walk(FieldCalls("values", r.body), NoneExcluded, "open")
    BY <2>1 DEF Fields
  <2>5. r.body.kind \notin JSONKinds BY <1>7 DEF JSONKinds
  <2>6. "open" \in Statuses BY DEF Statuses
  <2>7. /\ WalkOf(r).calls = FieldCalls("values", r.body) /\ WalkOf(r).excluded = NoneExcluded
        /\ WalkOf(r).status = "open"
    BY <2>4, WalkParts
  <2> QED BY <2>3, <2>5, <2>6, <2>7, NoneTyped
<1>8. CASE r.body.kind = "multipart" /\ r.via = "http"
  <2> DEFINE parts == r.body.parts
             wanted(part) == ~part.file /\ \E i \in DOMAIN PromptFields : PromptFields[i] = part.name
             text(part) == IF wanted(part) THEN Str(Limited(part.text)) ELSE Null
             calls == [i \in DOMAIN parts |-> Call("text", text(parts[i]), <<Key(parts[i].name)>>)]
  <2>1. WalkOf(r) = Walk(calls, NoneExcluded, IF r.body.broken THEN "unsupported" ELSE "open")
    BY <1>8 DEF WalkOf, ExtractRequest, ExtractMultipart, Is
  <2>2. /\ DOMAIN parts = 1..Len(parts) /\ Len(parts) \in Nat
        /\ \A i \in DOMAIN parts : parts[i].name \in STRING /\ Str(Limited(parts[i].text)) \in JSON
    <3>1. r.body.kind \notin JSONKinds BY <1>8 DEF JSONKinds
    <3>2. \A v \in JSON : v.kind \in JSONKinds BY JSONParts
    <3> QED BY <1>0, <1>8, <3>1, <3>2 DEF Consists
  <2>3. ASSUME NEW i \in DOMAIN parts
        PROVE  Call("text", text(parts[i]), <<Key(parts[i].name)>>) \in Calls
    <3>1. Null \in JSON BY JSONAssumption DEF ClosedUnderParts
    <3>2. text(parts[i]) \in JSON BY <2>2, <2>3, <3>1
    <3>3. parts[i].name \in Keys BY <2>2, <2>3, Zenon DEF Keys
    <3>4. <<Key(parts[i].name)>> \in Paths BY <3>3, StepTypes DEF Paths
    <3> HIDE DEF text
    <3> QED BY <3>2, <3>4 DEF Calls, Call, Names
  <2>4. calls \in [1..Len(parts) -> Calls] BY <2>2, <2>3
  <2>5. calls \in Seq(Calls)
    <3> HIDE DEF calls
    <3> QED BY <2>2, <2>4
  <2> HIDE DEF calls
  <2>6. r.body.kind \notin JSONKinds BY <1>8 DEF JSONKinds
  <2>7. "open" \in Statuses /\ "unsupported" \in Statuses BY DEF Statuses
  <2>8. /\ WalkOf(r).calls = calls /\ WalkOf(r).excluded = NoneExcluded
        /\ WalkOf(r).status = IF r.body.broken THEN "unsupported" ELSE "open"
    BY <2>1, WalkParts
  <2> QED BY <2>5, <2>6, <2>7, <2>8, NoneTyped
<1> QED BY <1>6, <1>7, <1>8

-----------------------------------------------------------------------------
(* The invariant *)

Recorded == [text : STRING, source : Paths]
Extraction ==
  [messages : Seq(Recorded), excluded : Counts,
   status : {"waiting", "empty", "parsed", "partial", "unsupported"}]
Loop == WalkOf(request).calls

ExtractTypes ==
  /\ request \in Requests /\ todo \in Seq(Calls) /\ extraction \in Extraction
  /\ next \in 0..(Len(Loop) + 1)
  /\ next = 0 => todo = <<>> /\ extraction = Waiting
  /\ Extracted => next = Len(Loop) + 1 /\ todo = <<>>

LEMMA AddTyped ==
  ASSUME NEW c \in Calls PROVE AddUserMessage(c) \in Seq(Recorded)
<1>1. c.value \in JSON /\ c.source \in Paths BY DEF Calls
<1>2. Is(c.value, "string") => c.value.text \in STRING BY <1>1, JSONParts DEF Is
<1>3. Is(c.value, "string") => [text |-> c.value.text, source |-> c.source] \in Recorded
  BY <1>1, <1>2 DEF Recorded
<1>4. Is(c.value, "string") => <<[text |-> c.value.text, source |-> c.source]>> \in Seq(Recorded)
  BY <1>3
<1> QED BY <1>4 DEF AddUserMessage

LEMMA MakeTyped ==
  ASSUME ExtractTypes, NEW c \in Calls, NEW rest \in Seq(Calls), Make(c, rest)
  PROVE  /\ request' = request /\ Loop' = Loop
         /\ todo' \in Seq(Calls) /\ extraction' \in Extraction
         /\ extraction'.status = extraction.status
         /\ extraction'.messages = extraction.messages \o AddUserMessage(c)
         /\ extraction'.excluded = Count(extraction.excluded, CountOf(c))
<1>1. request' = request /\ Loop' = Loop BY DEF Make, Loop
<1>2. todo' \in Seq(Calls) BY CallsTyped DEF Make
<1>3. /\ extraction.messages \in Seq(Recorded) /\ extraction.excluded \in Counts
  BY DEF ExtractTypes, Extraction
<1>4. /\ extraction.messages \o AddUserMessage(c) \in Seq(Recorded)
      /\ Count(extraction.excluded, CountOf(c)) \in Counts
  BY <1>3, AddTyped, CountTyped
<1>5. extraction' = [extraction EXCEPT !.messages = @ \o AddUserMessage(c),
                                       !.excluded = Count(@, CountOf(c))]
  BY DEF Make
<1>6. extraction \in Extraction BY DEF ExtractTypes
<1>7. extraction' \in Extraction BY <1>4, <1>5, <1>6, Zenon DEF Extraction
<1> QED BY <1>1, <1>2, <1>5, <1>6, <1>7 DEF Extraction

LEMMA TypesInit == ExtractInit => ExtractTypes
<1> SUFFICES ASSUME ExtractInit PROVE ExtractTypes OBVIOUS
<1>1. Loop \in Seq(Calls) BY RequestWalk DEF ExtractInit, Loop
<1>2. Waiting \in Extraction BY NoneTyped DEF Waiting, Extraction
<1> QED BY <1>1, <1>2 DEF ExtractInit, ExtractTypes, Extracted, Waiting

LEMMA TypesStep == ExtractTypes /\ [ExtractNext]_extractVars => ExtractTypes'
<1> SUFFICES ASSUME ExtractTypes, [ExtractNext]_extractVars PROVE ExtractTypes' OBVIOUS
<1>0. /\ Loop \in Seq(Calls) /\ Len(Loop) \in Nat /\ DOMAIN Loop = 1..Len(Loop)
      /\ WalkOf(request).excluded \in Counts /\ WalkOf(request).status \in Statuses
  BY RequestWalk DEF ExtractTypes, Loop
<1>1. CASE Begin
  <2>1. request' = request /\ todo' = todo /\ next' = 1 /\ Loop' = Loop BY <1>1 DEF Begin, Loop
  <2>2. extraction' = [extraction EXCEPT !.excluded = WalkOf(request).excluded] BY <1>1 DEF Begin
  <2>3. extraction' \in Extraction /\ extraction'.status = extraction.status
    BY <1>0, <2>2 DEF ExtractTypes, Extraction
  <2>4. ~Extracted BY <1>1 DEF ExtractTypes, Begin, Extracted, Waiting
  <2> QED BY <1>0, <2>1, <2>3, <2>4 DEF ExtractTypes, Extracted
<1>2. CASE Iterate
  <2>1. /\ next \in 1..Len(Loop) /\ next' = next + 1 /\ Loop[next] \in Calls
        /\ Make(Loop[next], <<>>)
    BY <1>0, <1>2 DEF Iterate, Loop
  <2>2. ~Extracted BY <1>0, <2>1 DEF ExtractTypes
  <2>3. <<>> \in Seq(Calls) OBVIOUS
  <2>4. /\ request' = request /\ Loop' = Loop
        /\ todo' \in Seq(Calls) /\ extraction' \in Extraction
        /\ extraction'.status = extraction.status
    BY <2>1, <2>3, MakeTyped, Zenon
  <2> QED BY <1>0, <2>1, <2>2, <2>4 DEF ExtractTypes, Extracted
<1>3. CASE Descend
  <2>1. /\ todo # <<>> /\ next' = next /\ Head(todo) \in Calls /\ Tail(todo) \in Seq(Calls)
        /\ Make(Head(todo), Tail(todo))
    BY <1>3 DEF Descend, ExtractTypes
  <2>2. ~Extracted /\ next # 0 BY <2>1 DEF ExtractTypes
  <2>3. /\ request' = request /\ Loop' = Loop
        /\ todo' \in Seq(Calls) /\ extraction' \in Extraction
        /\ extraction'.status = extraction.status
    BY <2>1, MakeTyped, Zenon
  <2> QED BY <1>0, <2>1, <2>2, <2>3 DEF ExtractTypes, Extracted
<1>4. CASE Return
  <2>1. /\ request' = request /\ todo' = todo /\ next' = next /\ Loop' = Loop
        /\ next = Len(Loop) + 1 /\ todo = <<>>
    BY <1>4 DEF Return, Loop
  <2>2. FinalStatus(WalkOf(request).status, extraction.messages)
          \in {"waiting", "empty", "parsed", "partial", "unsupported"}
    BY <1>0, Zenon DEF FinalStatus, Statuses
  <2>3. extraction' \in Extraction
    BY <1>4, <2>2 DEF Return, ExtractTypes, Extraction
  <2> QED BY <1>0, <2>1, <2>3 DEF ExtractTypes
<1>5. CASE UNCHANGED extractVars
  BY <1>5 DEF extractVars, ExtractTypes, Extracted, Loop
<1> QED BY <1>1, <1>2, <1>3, <1>4, <1>5 DEF ExtractNext

\* A set of calls that holds the loop and what its calls make holds the stack, and what
\* its calls record are all the messages.
LEMMA Preserved ==
  ASSUME NEW C \in SUBSET Calls, NEW M,
         \A c \in C : CallsOf(c) \in Seq(C) /\ AddUserMessage(c) \in Seq(M),
         ExtractTypes, Loop \in Seq(C), todo \in Seq(C), extraction.messages \in Seq(M),
         [ExtractNext]_extractVars
  PROVE  todo' \in Seq(C) /\ extraction'.messages \in Seq(M)
<1>0. extraction \in Extraction BY DEF ExtractTypes
<1>1. ASSUME NEW c \in C, NEW rest \in Seq(C), Make(c, rest)
      PROVE  todo' \in Seq(C) /\ extraction'.messages \in Seq(M)
  <2>1. todo' = CallsOf(c) \o rest BY <1>1 DEF Make
  <2>2. extraction'.messages = extraction.messages \o AddUserMessage(c)
    BY <1>0, <1>1 DEF Make, Extraction
  <2>3. CallsOf(c) \in Seq(C) /\ AddUserMessage(c) \in Seq(M) BY <1>1
  <2> QED BY <1>1, <2>1, <2>2, <2>3
<1>2. CASE Begin BY <1>0, <1>2 DEF Begin, Extraction
<1>3. CASE Iterate
  <2>1. Loop[next] \in C /\ Make(Loop[next], <<>>) BY <1>3 DEF Iterate, Loop
  <2>2. <<>> \in Seq(C) OBVIOUS
  <2> QED BY <1>1, <2>1, <2>2, Zenon
<1>4. CASE Descend
  <2>1. Head(todo) \in C /\ Tail(todo) \in Seq(C) /\ Make(Head(todo), Tail(todo))
    BY <1>4 DEF Descend
  <2> QED BY <1>1, <2>1, Zenon
<1>5. CASE Return BY <1>0, <1>5 DEF Return, Extraction
<1>6. CASE UNCHANGED extractVars BY <1>6 DEF extractVars
<1> QED BY <1>2, <1>3, <1>4, <1>5, <1>6 DEF ExtractNext

-----------------------------------------------------------------------------
(* The source of a message *)

\* Calls and messages whose source is the place of their value.
RootedCalls(body) == {c \in Calls : Rooted(body, c) /\ c.name # "values"}
TrueMessages(body) == {m \in Recorded : At(body, m.source) = Str(m.text)}

SourceInv ==
  IsJSON => /\ todo \in Seq(RootedCalls(request.body))
            /\ extraction.messages \in Seq(TrueMessages(request.body))

LEMMA RootedCallsMake ==
  ASSUME NEW body, NEW c \in RootedCalls(body)
  PROVE  /\ CallsOf(c) \in Seq(RootedCalls(body))
         /\ AddUserMessage(c) \in Seq(TrueMessages(body))
<1>1. c \in Calls /\ Rooted(body, c) /\ c.name # "values" BY DEF RootedCalls
<1>2. CallsOf(c) \in Seq(Calls) BY <1>1, CallsTyped
<1>3. \A i \in DOMAIN CallsOf(c) :
        Rooted(body, CallsOf(c)[i]) /\ CallsOf(c)[i].name \in {"text", "content", "part"}
  BY <1>1, CallsRooted
<1>4. \A i \in 1..Len(CallsOf(c)) : CallsOf(c)[i] \in RootedCalls(body)
  BY <1>2, <1>3 DEF RootedCalls
<1>5. CallsOf(c) \in Seq(RootedCalls(body)) BY <1>2, <1>4
<1>6. ASSUME Is(c.value, "string")
      PROVE  [text |-> c.value.text, source |-> c.source] \in TrueMessages(body)
  <2>1. c.value \in JSON /\ c.source \in Paths BY <1>1 DEF Calls
  <2>2. c.value.text \in STRING /\ c.value = Str(c.value.text) BY <1>6, <2>1, JSONParts DEF Is
  <2> QED BY <1>1, <2>1, <2>2 DEF TrueMessages, Recorded, Rooted
<1>7. AddUserMessage(c) \in Seq(TrueMessages(body)) BY <1>6 DEF AddUserMessage
<1> QED BY <1>5, <1>7

LEMMA LoopRooted ==
  ASSUME request \in Requests, IsJSON
  PROVE  Loop \in Seq(RootedCalls(request.body))
<1>1. /\ Loop \in Seq(Calls) /\ request.body \in JSON /\ Opens(request.body, Loop)
      /\ request.body.kind # "object" => Loop = <<>>
  BY RequestWalk DEF IsJSON, Loop
<1>2. CASE Is(request.body, "object")
  <2>1. \A i \in DOMAIN Loop : Rooted(request.body, Loop[i]) /\ Loop[i].name # "values"
    BY <1>1, <1>2, OpensRooted
  <2>2. \A i \in 1..Len(Loop) : Loop[i] \in RootedCalls(request.body)
    BY <1>1, <2>1 DEF RootedCalls
  <2> QED BY <1>1, <2>2
<1>3. CASE ~Is(request.body, "object") BY <1>1, <1>3 DEF Is
<1> QED BY <1>2, <1>3

LEMMA SourceStep == ExtractTypes /\ SourceInv /\ [ExtractNext]_extractVars => SourceInv'
<1> SUFFICES ASSUME ExtractTypes, SourceInv, [ExtractNext]_extractVars, IsJSON
             PROVE  SourceInv'
  BY Zenon DEF SourceInv, IsJSON, ExtractNext, Begin, Iterate, Descend, Return, Make, extractVars
<1> DEFINE body == request.body
<1>1. request' = request
  BY Zenon DEF ExtractNext, Begin, Iterate, Descend, Return, Make, extractVars
<1>2. RootedCalls(body) \in SUBSET Calls BY DEF RootedCalls
<1>3. \A c \in RootedCalls(body) : /\ CallsOf(c) \in Seq(RootedCalls(body))
                                   /\ AddUserMessage(c) \in Seq(TrueMessages(body))
  BY RootedCallsMake
<1>4. Loop \in Seq(RootedCalls(body)) BY LoopRooted DEF ExtractTypes
<1>5. todo \in Seq(RootedCalls(body)) /\ extraction.messages \in Seq(TrueMessages(body))
  BY DEF SourceInv
<1> HIDE DEF body
<1>6. todo' \in Seq(RootedCalls(body)) /\ extraction'.messages \in Seq(TrueMessages(body))
  BY <1>2, <1>3, <1>4, <1>5, Preserved
<1> QED BY <1>1, <1>6 DEF SourceInv, body

LEMMA SourceHolds == SourceInv => SourceIsTrue
<1> SUFFICES ASSUME SourceInv, IsJSON, NEW i \in DOMAIN extraction.messages
             PROVE  At(request.body, extraction.messages[i].source) = Str(extraction.messages[i].text)
  BY DEF SourceIsTrue, Messages
<1>1. extraction.messages[i] \in TrueMessages(request.body) BY DEF SourceInv
<1> QED BY <1>1 DEF TrueMessages

-----------------------------------------------------------------------------
(* The speaker of a message *)

\* How much of a source names the speaker, and what a source must satisfy.
SpeakerLen(s) == IF Len(s) > 1 /\ s[2].index > 0 THEN 2 ELSE 1
Voice(list, role) ==
  IF list = "contents" THEN role \notin {"system", "developer", "model"} ELSE role \in {"", "user"}
Spoken(body, s) ==
  /\ s[1].key \notin TopLevelExcluded
  /\ Voice(s[1].key, RoleIn(At(body, SubSeq(s, 1, SpeakerLen(s)))))

\* Calls that record nothing but the users' words: the calls of the loop, and those
\* within the message of a user.
Roots == {"messages", "input", "contents", "item"}
Outermost(c) ==
  \/ /\ c.name \in {"message", "input", "gemini"}
     /\ \E key \in Roots : /\ c.source = <<Key(key)>> \/ \E i \in Nat \ {0} : c.source = <<Key(key), Index(i)>>
                           /\ key = "contents" <=> c.name = "gemini"
  \/ c.name = "field" /\ \E i \in DOMAIN PromptFields : c.source = <<Key(PromptFields[i])>>
Within(body, c) ==
  \/ c.name \in {"content", "part"} /\ Len(c.source) > 1 /\ Spoken(body, c.source)
  \/ c.name = "text" /\ (Is(c.value, "string") => Spoken(body, c.source))
VoicedCalls(body) == {c \in RootedCalls(body) : Outermost(c) \/ Within(body, c)}
VoicedMessages(body) == {m \in Recorded : Spoken(body, m.source)}

VoiceInv ==
  IsJSON => /\ todo \in Seq(VoicedCalls(request.body))
            /\ extraction.messages \in Seq(VoicedMessages(request.body))

LEMMA AppendOne ==
  ASSUME NEW a, NEW b PROVE Append(<<a>>, b) = <<a, b>>
<1> DEFINE S == {a, b}
           p == Append(<<a>>, b)
           q == <<a, b>>
<1>1. <<a>> \in Seq(S) /\ q \in Seq(S) /\ p \in Seq(S) OBVIOUS
<1>2. Len(<<a>>) = 1 /\ Len(q) = 2 OBVIOUS
<1>3. Len(p) = 2 BY <1>1, <1>2
<1>4. p[1] = a /\ p[2] = b BY <1>1, <1>2
<1>5. q[1] = a /\ q[2] = b OBVIOUS
<1> HIDE DEF p, q, S
<1>6. \A i \in 1..2 : p[i] = q[i] BY <1>4, <1>5
<1>7. p = q BY <1>1, <1>2, <1>3, <1>6
<1> QED BY <1>7 DEF p, q

LEMMA AppendTwo ==
  ASSUME NEW a, NEW b, NEW c PROVE Append(<<a, b>>, c) = <<a, b, c>>
<1> DEFINE S == {a, b, c}
           p == Append(<<a, b>>, c)
           q == <<a, b, c>>
<1>1. <<a, b>> \in Seq(S) /\ q \in Seq(S) /\ p \in Seq(S) OBVIOUS
<1>2. Len(<<a, b>>) = 2 /\ Len(q) = 3 OBVIOUS
<1>3. Len(p) = 3 BY <1>1, <1>2
<1>4. p[1] = a /\ p[2] = b /\ p[3] = c BY <1>1, <1>2
<1>5. q[1] = a /\ q[2] = b /\ q[3] = c OBVIOUS
<1> HIDE DEF p, q, S
<1>6. \A i \in 1..3 : p[i] = q[i] BY <1>4, <1>5
<1>7. p = q BY <1>1, <1>2, <1>3, <1>6
<1> QED BY <1>7 DEF p, q

LEMMA SubSeqWhole ==
  ASSUME NEW S, NEW s \in Seq(S) PROVE SubSeq(s, 1, Len(s)) = s
OBVIOUS

LEMMA SubSeqAppend ==
  ASSUME NEW S, NEW s \in Seq(S), NEW x \in S, NEW n \in 1..Len(s)
  PROVE  SubSeq(Append(s, x), 1, n) = SubSeq(s, 1, n)
<1> DEFINE a == SubSeq(Append(s, x), 1, n)
           b == SubSeq(s, 1, n)
<1>1. a \in Seq(S) /\ Len(a) = n OBVIOUS
<1>2. b \in Seq(S) /\ Len(b) = n OBVIOUS
<1>3. \A i \in 1..n : a[i] = Append(s, x)[i] OBVIOUS
<1>4. \A i \in 1..n : b[i] = s[i] OBVIOUS
<1> HIDE DEF a, b
<1>5. \A i \in 1..n : a[i] = b[i] BY <1>3, <1>4
<1>6. a = b BY <1>1, <1>2, <1>5
<1> QED BY <1>6 DEF a, b

\* The speaker stays the same further down, unless an index follows the first key.
LEMMA SpokenFurther ==
  ASSUME NEW body, NEW s \in Paths, NEW step \in Steps, Spoken(body, s),
         Len(s) > 1 \/ (Len(s) = 1 /\ step.index = 0)
  PROVE  Len(Append(s, step)) > 1 /\ Spoken(body, Append(s, step))
<1> DEFINE t == Append(s, step)
<1>1. /\ t \in Paths /\ Len(t) = Len(s) + 1 /\ t[1] = s[1] /\ Len(s) \in Nat
      /\ Len(s) > 1 => t[2] = s[2]
      /\ Len(s) = 1 => t[2] = step
  BY DEF Paths
<1>0. \A n \in 1..Len(s) : SubSeq(t, 1, n) = SubSeq(s, 1, n) BY SubSeqAppend DEF Paths
<1> HIDE DEF t
<1>2. SpeakerLen(t) = SpeakerLen(s) /\ SubSeq(t, 1, SpeakerLen(t)) = SubSeq(s, 1, SpeakerLen(s))
  BY <1>0, <1>1 DEF SpeakerLen
<1>3. Spoken(body, t) BY <1>1, <1>2, Zenon DEF Spoken
<1>4. Len(t) > 1 BY <1>1
<1> QED BY <1>3, <1>4 DEF t

LEMMA RootKeys ==
  /\ \A key \in Roots : key \in Keys /\ key \notin TopLevelExcluded
  /\ \A i \in DOMAIN PromptFields :
       /\ PromptFields[i] \in Keys /\ PromptFields[i] \notin TopLevelExcluded
       /\ PromptFields[i] # "contents"
<1>1. \A key \in Roots : key \in Keys /\ key \notin TopLevelExcluded
  BY Zenon DEF Roots, Keys, TopLevelExcluded
<1>2. ASSUME NEW i \in DOMAIN PromptFields
      PROVE  /\ PromptFields[i] \in Keys /\ PromptFields[i] \notin TopLevelExcluded
             /\ PromptFields[i] # "contents"
  <2>1. i = 1 \/ i = 2 \/ i = 3 \/ i = 4 \/ i = 5 BY PromptKeys
  <2>2. /\ PromptFields[1] = "prompt" /\ PromptFields[2] = "query" /\ PromptFields[3] = "input"
        /\ PromptFields[4] = "text" /\ PromptFields[5] = "description"
    BY DEF PromptFields
  <2> QED BY <2>1, <2>2, Zenon DEF Keys, TopLevelExcluded
<1> QED BY <1>1, <1>2

\* A string has no role: a path of one or two steps to one is spoken.
LEMMA StringSpoken ==
  ASSUME NEW body, NEW s \in Paths, Is(At(body, s), "string"), s[1].key \notin TopLevelExcluded,
         s[1].key # "contents", Len(s) = 1 \/ (Len(s) = 2 /\ s[2].index > 0)
  PROVE  Spoken(body, s)
<1>1. SubSeq(s, 1, SpeakerLen(s)) = s
  <2>1. SpeakerLen(s) = Len(s) BY DEF SpeakerLen
  <2> QED BY <2>1, SubSeqWhole DEF Paths
<1>2. RoleIn(At(body, s)) = "" BY DEF RoleIn, Is
<1> QED BY <1>1, <1>2, Zenon DEF Spoken, Voice

\* The role of an element of a list, or of the only object, is the role of the texts in it.
LEMMA ElementSpoken ==
  ASSUME NEW body, NEW s \in Paths, s[1].key \notin TopLevelExcluded,
         Len(s) = 1 \/ (Len(s) = 2 /\ s[2].index > 0), Voice(s[1].key, RoleIn(At(body, s)))
  PROVE  Spoken(body, s)
<1>1. SubSeq(s, 1, SpeakerLen(s)) = s
  <2>1. SpeakerLen(s) = Len(s) BY DEF SpeakerLen
  <2> QED BY <2>1, SubSeqWhole DEF Paths
<1> QED BY <1>1, Zenon DEF Spoken

LEMMA BlankRole == \A t : Blank(t) => Normal(t) = ""
BY Zenon DEF Blank, Normal

\* What each function makes of an element leaves out the roles it must.
LEMMA UserRole ==
  ASSUME NEW v, Is(v, "object")
  PROVE  /\ RoleOf(v) = "user" <=> RoleIn(v) \in {"", "user"}
         /\ \A role \in ExcludedRoles : RoleOf(v) = role <=> RoleIn(v) = role
         /\ IsInputText(v) => RoleIn(v) = ""
<1>1. RoleOf(v) = IF RoleIn(v) = "" THEN "user" ELSE RoleIn(v) BY DEF RoleOf, RoleIn
<1>2. IsInputText(v) => RoleIn(v) = "" BY BlankRole, Zenon DEF IsInputText, RoleIn
<1> QED BY <1>1, <1>2, Zenon DEF ExcludedRoles

\* The calls a message makes lie in fields of it, and there are none for another role.
LEMMA MessageMakes ==
  ASSUME NEW c \in Calls, c.name \in {"message", "input", "gemini"}, NEW i \in DOMAIN CallsOf(c)
  PROVE  \/ c.name = "input" /\ Is(c.value, "string") /\ CallsOf(c)[i] = Call("text", c.value, c.source)
         \/ /\ Is(c.value, "object")
            /\ IF c.name = "gemini" THEN RoleIn(c.value) \notin {"system", "developer", "model"}
                                    ELSE RoleIn(c.value) \in {"", "user"}
            /\ \E name \in {"text", "content"}, key \in Keys :
                 CallsOf(c)[i] = Call(name, Field(c.value, key), Append(c.source, Key(key)))
<1> DEFINE v == c.value
           s == c.source
           Made(d) == \E name \in {"text", "content"}, key \in Keys :
                        d = Call(name, Field(v, key), Append(s, Key(key)))
<1>1. "text" \in Keys /\ "content" \in Keys /\ "parts" \in Keys BY DEF Keys
<1>2. \A name \in {"text", "content"}, key \in Keys :
        \A j \in DOMAIN Into(name, v, key, s) : Made(Into(name, v, key, s)[j])
  <2> TAKE name \in {"text", "content"}, key \in Keys
  <2>1. /\ DOMAIN Into(name, v, key, s) = {1}
        /\ Into(name, v, key, s)[1] = Call(name, Field(v, key), Append(s, Key(key)))
    BY DEF Into
  <2>2. Made(Call(name, Field(v, key), Append(s, Key(key)))) BY Zenon
  <2> HIDE DEF Made
  <2> QED BY <2>1, <2>2
<1> HIDE DEF Made
<1>3. ASSUME NEW j \in DOMAIN ExtractRoleMessage(v, s)
      PROVE  RoleOf(v) = "user" /\ Made(ExtractRoleMessage(v, s)[j])
  BY <1>1, <1>2, <1>3 DEF ExtractRoleMessage
<1>4. CASE c.name = "message"
  <2>1. Is(v, "object") /\ CallsOf(c) = ExtractRoleMessage(v, s)
    BY <1>4 DEF CallsOf, RoleMessage
  <2> QED BY <1>3, <1>4, <2>1, UserRole, Zenon DEF Made
<1>5. CASE c.name = "input"
  <2>0. CallsOf(c) = InputItem(v, s) BY <1>5 DEF CallsOf
  <2>1. CASE Is(v, "string")
    <3>1. CallsOf(c) = <<Call("text", v, s)>> BY <2>0, <2>1 DEF InputItem, Is
    <3>2. i = 1 /\ CallsOf(c)[1] = Call("text", v, s) BY <3>1
    <3> QED BY <1>5, <2>1, <3>2, Zenon
  <2>2. CASE Is(v, "object") /\ IsInputText(v)
    <3>1. CallsOf(c) = Into("text", v, "text", s) BY <2>0, <2>2 DEF InputItem, Is
    <3>2. Made(CallsOf(c)[i]) BY <1>1, <1>2, <3>1
    <3> QED BY <1>5, <2>2, <3>2, UserRole, Zenon DEF Made
  <2>3. CASE Is(v, "object") /\ ~IsInputText(v)
    <3>1. CallsOf(c) = ExtractRoleMessage(v, s) BY <2>0, <2>3 DEF InputItem, Is
    <3> QED BY <1>3, <1>5, <2>3, <3>1, UserRole, Zenon DEF Made
  <2>4. CASE ~Is(v, "string") /\ ~Is(v, "object")
    <3>1. CallsOf(c) = <<>> BY <2>0, <2>4 DEF InputItem
    <3>2. FALSE BY <3>1
    <3> QED BY <3>2, Zenon
  <2> QED BY <2>1, <2>2, <2>3, <2>4, Zenon
<1>6. CASE c.name = "gemini"
  <2>1. /\ Is(v, "object") /\ GeminiRole(v) \notin DOMAIN GeminiExcluded
        /\ CallsOf(c) = Into("content", v, "parts", s)
    BY <1>6 DEF CallsOf, GeminiContent
  <2>2. Made(CallsOf(c)[i]) BY <1>1, <1>2, <2>1
  <2>3. RoleIn(v) \notin {"system", "developer", "model"}
    BY <2>1 DEF RoleIn, GeminiRole, GeminiExcluded
  <2> QED BY <1>6, <2>1, <2>2, <2>3 DEF Made
<1> QED BY <1>4, <1>5, <1>6, Zenon

\* A call stays where it is, or goes one step down.
LEMMA ChildSources ==
  ASSUME NEW c \in Calls, c.name # "values", NEW i \in DOMAIN CallsOf(c)
  PROVE  \/ CallsOf(c)[i].source = c.source
         \/ \E step \in Steps : CallsOf(c)[i].source = Append(c.source, step)
<1>1. CASE CallsOf(c) = <<>> BY <1>1
<1>2. CASE OneText(c, CallsOf(c))
  <2>1. CallsOf(c) = <<Call("text", c.value, c.source)>> BY <1>2 DEF OneText
  <2>2. i = 1 /\ CallsOf(c)[1] = Call("text", c.value, c.source) BY <2>1
  <2> QED BY <2>2 DEF Call
<1>3. CASE OneField(c, CallsOf(c))
  <2>1. PICK name \in {"text", "content"}, key \in Keys :
          CallsOf(c) = <<Call(name, Field(c.value, key), Append(c.source, Key(key)))>>
    BY <1>3 DEF OneField, Into
  <2>2. i = 1 /\ CallsOf(c)[1] = Call(name, Field(c.value, key), Append(c.source, Key(key))) BY <2>1
  <2>3. CallsOf(c)[i].source = Append(c.source, Key(key)) BY <2>2 DEF Call
  <2>4. Key(key) \in Steps BY StepTypes
  <2> QED BY <2>3, <2>4
<1>4. CASE Elements(c, CallsOf(c))
  <2>1. PICK name \in {"text", "part"} : CallsOf(c) = Each(name, c.value, c.source)
    BY <1>4 DEF Elements
  <2>2. i \in DOMAIN c.value.items /\ CallsOf(c)[i].source = Append(c.source, Index(i))
    BY <2>1 DEF Each, Call
  <2>3. c.value.items \in Seq(JSON) BY <1>4, JSONParts DEF Calls, Elements, Is
  <2>4. i \in Nat BY <2>2, <2>3
  <2>5. Index(i) \in Steps BY <2>4, StepTypes
  <2> QED BY <2>2, <2>5
<1> QED BY <1>1, <1>2, <1>3, <1>4, CallShape

LEMMA VoicedCallsMake ==
  ASSUME NEW body, NEW c \in VoicedCalls(body)
  PROVE  /\ CallsOf(c) \in Seq(VoicedCalls(body))
         /\ AddUserMessage(c) \in Seq(VoicedMessages(body))
<1>1. c \in RootedCalls(body) /\ c \in Calls /\ c.name # "values" /\ At(body, c.source) = c.value
      /\ c.value \in JSON /\ c.source \in Paths
  BY DEF VoicedCalls, RootedCalls, Rooted, Calls
<1>2. CallsOf(c) \in Seq(RootedCalls(body)) BY <1>1, RootedCallsMake
<1>3. ASSUME NEW i \in DOMAIN CallsOf(c) PROVE CallsOf(c)[i] \in VoicedCalls(body)
  <2> DEFINE d == CallsOf(c)[i]
  <2>0. d \in RootedCalls(body) BY <1>2
  <2> SUFFICES Within(body, d) BY <2>0 DEF VoicedCalls
  <2>1. CASE c.name \in {"message", "input", "gemini"}
    <3>1. PICK key \in Roots :
            /\ c.source = <<Key(key)>> \/ \E j \in Nat \ {0} : c.source = <<Key(key), Index(j)>>
            /\ key = "contents" <=> c.name = "gemini"
      BY <2>1 DEF VoicedCalls, Outermost, Within
    <3>2. /\ c.source[1].key = key /\ key \notin TopLevelExcluded
          /\ Len(c.source) = 1 \/ (Len(c.source) = 2 /\ c.source[2].index > 0)
      <4>1. key \notin TopLevelExcluded BY RootKeys
      <4>2. CASE c.source = <<Key(key)>> BY <4>1, <4>2 DEF Key
      <4>3. ASSUME NEW j \in Nat \ {0}, c.source = <<Key(key), Index(j)>>
            PROVE  c.source[1].key = key /\ Len(c.source) = 2 /\ c.source[2].index > 0
        <5>1. c.source[1] = Key(key) /\ Len(c.source) = 2 /\ c.source[2] = Index(j) BY <4>3
        <5>2. Key(key).key = key /\ Index(j).index = j BY DEF Key, Index
        <5>3. j > 0 OBVIOUS
        <5> QED BY <5>1, <5>2, <5>3
      <4> QED BY <3>1, <4>1, <4>2, <4>3
    <3>3. CASE c.name = "input" /\ Is(c.value, "string") /\ d = Call("text", c.value, c.source)
      <4>1. Spoken(body, c.source) BY <1>1, <3>1, <3>2, <3>3, StringSpoken
      <4> QED BY <3>3, <4>1 DEF Within, Call
    <3>4. CASE /\ Is(c.value, "object")
               /\ IF c.name = "gemini" THEN RoleIn(c.value) \notin {"system", "developer", "model"}
                                       ELSE RoleIn(c.value) \in {"", "user"}
               /\ \E name \in {"text", "content"}, k \in Keys :
                    d = Call(name, Field(c.value, k), Append(c.source, Key(k)))
      <4>1. Spoken(body, c.source) BY <1>1, <3>1, <3>2, <3>4, ElementSpoken, Zenon DEF Voice
      <4>2. PICK name \in {"text", "content"}, k \in Keys :
              d = Call(name, Field(c.value, k), Append(c.source, Key(k)))
        BY <3>4, Zenon
      <4>3. Key(k) \in Steps /\ Key(k).index = 0 BY StepTypes DEF Key
      <4>4. Len(Append(c.source, Key(k))) > 1 /\ Spoken(body, Append(c.source, Key(k)))
        BY <1>1, <3>2, <4>1, <4>3, SpokenFurther
      <4> HIDE DEF d
      <4> QED BY <4>2, <4>4 DEF Within, Call
    <3> QED BY <1>1, <2>1, <3>3, <3>4, MessageMakes, Zenon
  <2>2. CASE c.name = "field"
    <3>1. PICK p \in DOMAIN PromptFields : c.source = <<Key(PromptFields[p])>>
      BY <2>2 DEF VoicedCalls, Outermost, Within
    <3>2. /\ c.source[1].key = PromptFields[p] /\ Len(c.source) = 1
          /\ PromptFields[p] \notin TopLevelExcluded /\ PromptFields[p] # "contents"
      BY <3>1, RootKeys DEF Key
    <3>3. CallsOf(c) = PromptField(c.value, c.source) BY <2>2 DEF CallsOf
    <3>4. CASE Is(c.value, "string")
      <4>1. CallsOf(c) = <<Call("text", c.value, c.source)>> BY <3>3, <3>4 DEF PromptField, Is
      <4>2. d = Call("text", c.value, c.source) BY <4>1
      <4>3. Spoken(body, c.source) BY <1>1, <3>2, <3>4, StringSpoken
      <4> HIDE DEF d
      <4> QED BY <4>2, <4>3 DEF Within, Call
    <3>5. CASE Is(c.value, "array")
      <4>1. CallsOf(c) = Each("text", c.value, c.source) BY <3>3, <3>5 DEF PromptField, Is
      <4>2. i \in DOMAIN c.value.items /\ d = Call("text", c.value.items[i], Append(c.source, Index(i)))
        BY <4>1 DEF Each
      <4>3. c.value.items \in Seq(JSON) BY <1>1, <3>5, JSONParts DEF Is
      <4>4. i \in Nat /\ i > 0 BY <4>2, <4>3
      <4> HIDE DEF d
      <4>5. d.source \in Paths /\ At(body, d.source) = d.value /\ d.name = "text"
            /\ d.source = Append(c.source, Index(i))
        BY <2>0, <4>2, Zenon DEF RootedCalls, Rooted, Calls, Call
      <4>6. d.source[1] = c.source[1] /\ Len(d.source) = 2 /\ d.source[2] = Index(i)
        BY <1>1, <3>2, <4>5 DEF Paths
      <4>7. d.source[2].index > 0
        <5>1. Index(i).index = i BY DEF Index
        <5> QED BY <4>4, <4>6, <5>1
      <4>8. Is(d.value, "string") => Spoken(body, d.source)
        BY <3>2, <4>5, <4>6, <4>7, StringSpoken, Zenon
      <4> QED BY <4>5, <4>8 DEF Within
    <3>6. CASE ~Is(c.value, "string") /\ ~Is(c.value, "array")
      <4>1. CallsOf(c) = <<>> BY <3>3, <3>6 DEF PromptField
      <4> QED BY <4>1
    <3> QED BY <3>4, <3>5, <3>6
  <2>3. CASE c.name \in {"content", "part"}
    <3>1. Len(c.source) > 1 /\ Spoken(body, c.source)
      BY <2>3 DEF VoicedCalls, Outermost, Within
    <3>2. d.name \in {"text", "content", "part"} BY <1>1, CallsRooted DEF Rooted
    <3>3. CASE d.source = c.source BY <3>1, <3>2, <3>3 DEF Within
    <3>4. ASSUME NEW step \in Steps, d.source = Append(c.source, step) PROVE Within(body, d)
      <4>1. Len(Append(c.source, step)) > 1 /\ Spoken(body, Append(c.source, step))
        BY <1>1, <3>1, SpokenFurther
      <4> QED BY <3>2, <3>4, <4>1 DEF Within
    <3> QED BY <1>1, <3>3, <3>4, ChildSources
  <2>4. CASE c.name = "text"
    <3>1. CallsOf(c) = <<>> BY <2>4 DEF CallsOf
    <3> QED BY <3>1
  <2> QED BY <1>1, <2>1, <2>2, <2>3, <2>4 DEF Calls, Names
<1>4. CallsOf(c) \in Seq(VoicedCalls(body)) BY <1>2, <1>3
<1>5. AddUserMessage(c) \in Seq(VoicedMessages(body))
  <2>1. AddUserMessage(c) \in Seq(Recorded) BY <1>1, AddTyped
  <2>2. CASE c.name = "text" /\ Is(c.value, "string")
    <3>1. Spoken(body, c.source) BY <2>2 DEF VoicedCalls, Outermost, Within
    <3>2. [text |-> c.value.text, source |-> c.source] \in VoicedMessages(body)
      BY <1>1, <2>2, <3>1, JSONParts DEF VoicedMessages, Recorded, Is
    <3> QED BY <3>2 DEF AddUserMessage
  <2>3. CASE ~(c.name = "text" /\ Is(c.value, "string")) BY <2>3 DEF AddUserMessage
  <2> QED BY <2>2, <2>3
<1> QED BY <1>4, <1>5

LEMMA LoopVoiced ==
  ASSUME request \in Requests, IsJSON
  PROVE  Loop \in Seq(VoicedCalls(request.body))
<1> DEFINE body == request.body
<1>0. Loop \in Seq(RootedCalls(body)) BY LoopRooted
<1>1. /\ body \in JSON /\ Opens(body, Loop)
      /\ body.kind # "object" => Loop = <<>>
  BY RequestWalk DEF IsJSON, Loop
<1> HIDE DEF body
<1>2. CASE Single(body, Loop)
  <2>1. CASE HasA(body, "input", "string") /\ Loop = <<Call("text", Field(body, "input"), <<Key("input")>>)>>
    <3>1. Loop[1] \in RootedCalls(body) /\ DOMAIN Loop = {1}
          /\ Loop[1] = Call("text", Field(body, "input"), <<Key("input")>>)
      BY <1>0, <2>1
    <3>2. /\ Loop[1].name = "text" /\ Loop[1].source = <<Key("input")>>
          /\ Loop[1].value = Field(body, "input")
      BY <3>1 DEF Call
    <3>3. At(body, Loop[1].source) = Field(body, "input") /\ Loop[1].source \in Paths
      BY <3>1, <3>2 DEF RootedCalls, Rooted, Calls
    <3>4. Len(Loop[1].source) = 1 /\ Loop[1].source[1].key = "input" BY <3>2 DEF Key
    <3>5. "input" \notin TopLevelExcluded BY DEF TopLevelExcluded
    <3>6. Is(At(body, Loop[1].source), "string") BY <2>1, <3>3 DEF HasA
    <3>7. Spoken(body, Loop[1].source) BY <3>3, <3>4, <3>5, <3>6, StringSpoken
    <3>8. Loop[1] \in VoicedCalls(body) BY <3>1, <3>2, <3>7 DEF VoicedCalls, Within
    <3>9. \A i \in DOMAIN Loop : Loop[i] \in VoicedCalls(body) BY <3>1, <3>8
    <3> QED BY <1>0, <3>9 DEF body
  <2>2. ASSUME NEW key \in {"input", "item"}, Loop = <<Call("message", Field(body, key), <<Key(key)>>)>>
        PROVE  Loop \in Seq(VoicedCalls(body))
    <3>1. Loop[1] \in RootedCalls(body) /\ DOMAIN Loop = {1}
          /\ Loop[1] = Call("message", Field(body, key), <<Key(key)>>)
      BY <1>0, <2>2
    <3>2. /\ Loop[1].name = "message" /\ Loop[1].source = <<Key(key)>>
      BY <3>1 DEF Call
    <3>3. key \in Roots /\ key # "contents" BY DEF Roots
    <3>4. Loop[1] \in VoicedCalls(body) BY <3>1, <3>2, <3>3 DEF VoicedCalls, Outermost
    <3>5. \A i \in DOMAIN Loop : Loop[i] \in VoicedCalls(body) BY <3>1, <3>4
    <3> QED BY <1>0, <3>5
  <2> QED BY <1>2, <2>1, <2>2 DEF Single, body
<1>3. CASE Loop = FieldCalls("field", body)
  <2>1. ASSUME NEW i \in DOMAIN Loop PROVE Loop[i] \in VoicedCalls(body)
    <3>1. i \in DOMAIN PromptFields
          /\ Loop[i] = Call("field", Field(body, PromptFields[i]), <<Key(PromptFields[i])>>)
      BY <1>3 DEF FieldCalls
    <3>2. Loop[i].name = "field" /\ Loop[i].source = <<Key(PromptFields[i])>> BY <3>1 DEF Call
    <3>3. Loop[i] \in RootedCalls(body) BY <1>0
    <3> QED BY <3>1, <3>2, <3>3 DEF VoicedCalls, Outermost
  <2> QED BY <1>0, <2>1 DEF body
<1>4. ASSUME NEW key \in {"messages", "input", "contents"}, Listed(body, Loop, key)
      PROVE  Loop \in Seq(VoicedCalls(body))
  <2>1. ASSUME NEW i \in DOMAIN Loop PROVE Loop[i] \in VoicedCalls(body)
    <3>1. Loop[i] = Call(ListNames[key], Field(body, key).items[i], Append(<<Key(key)>>, Index(i)))
      BY <1>4 DEF Listed, Each
    <3>2. Append(<<Key(key)>>, Index(i)) = <<Key(key), Index(i)>> BY AppendOne
    <3>3. Loop[i].name = ListNames[key] /\ Loop[i].source = <<Key(key), Index(i)>>
      BY <3>1, <3>2 DEF Call
    <3>4. i \in Nat \ {0} BY <1>0
    <3>5. key \in Roots /\ ListNames[key] \in {"message", "input", "gemini"}
          /\ (key = "contents" <=> ListNames[key] = "gemini")
      BY DEF Roots, ListNames
    <3>6. Loop[i] \in RootedCalls(body) BY <1>0
    <3>7. Outermost(Loop[i]) BY <3>3, <3>4, <3>5 DEF Outermost
    <3> QED BY <3>6, <3>7 DEF VoicedCalls
  <2> QED BY <1>0, <2>1
<1>5. CASE Loop = <<>> BY <1>5
<1> QED BY <1>1, <1>2, <1>3, <1>4, <1>5 DEF Opens, body

LEMMA VoiceStep == ExtractTypes /\ VoiceInv /\ [ExtractNext]_extractVars => VoiceInv'
<1> SUFFICES ASSUME ExtractTypes, VoiceInv, [ExtractNext]_extractVars, IsJSON
             PROVE  VoiceInv'
  BY Zenon DEF VoiceInv, IsJSON, ExtractNext, Begin, Iterate, Descend, Return, Make, extractVars
<1> DEFINE body == request.body
<1>1. request' = request
  BY Zenon DEF ExtractNext, Begin, Iterate, Descend, Return, Make, extractVars
<1>2. VoicedCalls(body) \in SUBSET Calls BY DEF VoicedCalls, RootedCalls
<1>3. \A c \in VoicedCalls(body) : /\ CallsOf(c) \in Seq(VoicedCalls(body))
                                   /\ AddUserMessage(c) \in Seq(VoicedMessages(body))
  BY VoicedCallsMake
<1>4. Loop \in Seq(VoicedCalls(body)) BY LoopVoiced DEF ExtractTypes
<1>5. todo \in Seq(VoicedCalls(body)) /\ extraction.messages \in Seq(VoicedMessages(body))
  BY DEF VoiceInv
<1> HIDE DEF body
<1>6. todo' \in Seq(VoicedCalls(body)) /\ extraction'.messages \in Seq(VoicedMessages(body))
  BY <1>2, <1>3, <1>4, <1>5, Preserved
<1> QED BY <1>1, <1>6 DEF VoiceInv, body

LEMMA VoiceHolds == VoiceInv => NoExcludedText
<1> SUFFICES ASSUME VoiceInv, IsJSON, NEW i \in DOMAIN extraction.messages
             PROVE  LET m == extraction.messages[i]
                    IN  /\ m.source[1].key \notin TopLevelExcluded
                        /\ IF m.source[1].key = "contents"
                           THEN RoleIn(Speaker(m)) \notin {"system", "developer", "model"}
                           ELSE RoleIn(Speaker(m)) \in {"", "user"}
  BY Zenon DEF NoExcludedText, Messages
<1>1. Spoken(request.body, extraction.messages[i].source) BY DEF VoiceInv, VoicedMessages
<1> QED BY <1>1, Zenon DEF Spoken, Speaker, SpeakerLen, Voice

-----------------------------------------------------------------------------
LEMMA WalkInit == ExtractInit => ExtractTypes /\ SourceInv /\ VoiceInv
<1> SUFFICES ASSUME ExtractInit PROVE ExtractTypes /\ SourceInv /\ VoiceInv OBVIOUS
<1>1. todo = <<>> /\ extraction.messages = <<>> BY DEF ExtractInit, Waiting
<1>2. SourceInv /\ VoiceInv BY <1>1 DEF SourceInv, VoiceInv
<1> QED BY <1>2, TypesInit

\* Every message of a JSON body is the string its source names, whatever the body: the
\* path a record shows beside a text leads to that text.
THEOREM SourceTheorem == ExtractSpec => []SourceIsTrue
BY WalkInit, TypesStep, SourceStep, SourceHolds, PTL DEF ExtractSpec

\* Nothing that another role than the user's said, or an instruction field, is recorded,
\* however the body is nested.
THEOREM SpeakerTheorem == ExtractSpec => []NoExcludedText
BY WalkInit, TypesStep, VoiceStep, VoiceHolds, PTL DEF ExtractSpec
=============================================================================
