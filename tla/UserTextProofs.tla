--------------------------- MODULE UserTextProofs ---------------------------
(***************************************************************************)
(* The rest about the extraction, on the ground of ExtractorProofs: what   *)
(* is recorded is all that users said, once and in its order, and the      *)
(* counts of the other roles are exact.  Three more invariants of the      *)
(* stack: what is recorded stands before what the stack and the loop still *)
(* lead to (OrderInv); every place of a user's text is recorded or lies    *)
(* under a call still to be made (CoverInv); and the counts are those of   *)
(* the elements the loop has passed (CountInv).                            *)
(***************************************************************************)
EXTENDS ExtractorProofs, FiniteSetTheorems

LEMMA LoopTyped ==
  ASSUME ExtractTypes
  PROVE  Loop \in Seq(Calls) /\ DOMAIN Loop = 1..Len(Loop) /\ Len(Loop) \in Nat
<1>1. Loop \in Seq(Calls) BY RequestWalk DEF ExtractTypes, Loop
<1> QED BY <1>1

-----------------------------------------------------------------------------
(* The order of the messages *)

\* Messages or calls whose sources stand in the order of the document.
Sorted(q) == \A i, j \in DOMAIN q : i < j => Before(q[i].source, q[j].source)
Precedes(q, source) == \A i \in DOMAIN q : Before(q[i].source, source)

\* What is recorded stands before what the stack leads to, and that before what the
\* loop has not come to.
OrderInv ==
  IsJSON =>
    /\ Sorted(extraction.messages) /\ Sorted(todo)
    /\ \A i \in DOMAIN todo : Precedes(extraction.messages, todo[i].source)
    /\ \A i \in DOMAIN Loop :
         i >= next => Precedes(extraction.messages, Loop[i].source) /\ Precedes(todo, Loop[i].source)

LEMMA BeforeFurther ==
  ASSUME NEW s \in Paths, NEW t \in Paths, NEW step \in Steps, Before(s, t)
  PROVE  Before(Append(s, step), t) /\ Before(s, Append(t, step))
<1>1. PICK n \in DOMAIN s \cap DOMAIN t :
        /\ \A k \in 1..(n - 1) : s[k] = t[k]
        /\ \/ s[n].key = t[n].key /\ s[n].index < t[n].index
           \/ \E i, j \in DOMAIN PromptFields :
                i < j /\ s[n].key = PromptFields[i] /\ t[n].key = PromptFields[j]
  BY DEF Before
<1>2. ASSUME NEW p \in Paths
      PROVE  \A k \in DOMAIN p : k \in DOMAIN Append(p, step) /\ Append(p, step)[k] = p[k]
  BY <1>2 DEF Paths
<1>3. /\ \A k \in DOMAIN s : k \in DOMAIN Append(s, step) /\ Append(s, step)[k] = s[k]
      /\ \A k \in DOMAIN t : k \in DOMAIN Append(t, step) /\ Append(t, step)[k] = t[k]
  BY <1>2
<1>4. \A k \in 1..(n - 1) : k \in DOMAIN s /\ k \in DOMAIN t BY DEF Paths
<1>5. n \in DOMAIN s /\ n \in DOMAIN t OBVIOUS
<1> DEFINE a == Append(s, step)
           b == Append(t, step)
<1>6. n \in DOMAIN a /\ n \in DOMAIN b /\ a[n] = s[n] /\ b[n] = t[n] BY <1>3, <1>5
<1>7. \A k \in 1..(n - 1) : a[k] = t[k] /\ s[k] = b[k] BY <1>1, <1>3, <1>4
<1> HIDE DEF a, b
<1>8. Before(a, t) BY <1>1, <1>5, <1>6, <1>7 DEF Before
<1>9. Before(s, b) BY <1>1, <1>5, <1>6, <1>7 DEF Before
<1> QED BY <1>8, <1>9 DEF a, b

LEMMA SiblingsBefore ==
  ASSUME NEW s \in Paths, NEW i \in Nat, NEW j \in Nat, i < j
  PROVE  Before(Append(s, Index(i)), Append(s, Index(j)))
<1> DEFINE a == Append(s, Index(i))
           b == Append(s, Index(j))
           n == Len(s) + 1
<1>1. Index(i) \in Steps /\ Index(j) \in Steps BY StepTypes
<1>2. /\ n \in DOMAIN a /\ n \in DOMAIN b /\ a[n] = Index(i) /\ b[n] = Index(j)
      /\ \A k \in 1..(n - 1) : a[k] = b[k]
  BY <1>1 DEF Paths
<1>3. Index(i).key = Index(j).key /\ Index(i).index = i /\ Index(j).index = j BY DEF Index
<1> HIDE DEF a, b, n
<1>4. Before(a, b) BY <1>2, <1>3 DEF Before
<1> QED BY <1>4 DEF a, b

LEMMA SortedConcat ==
  ASSUME NEW S, NEW q \in Seq(S), NEW r \in Seq(S), Sorted(q), Sorted(r),
         \A j \in DOMAIN r : Precedes(q, r[j].source)
  PROVE  Sorted(q \o r)
<1> SUFFICES ASSUME NEW i \in DOMAIN (q \o r), NEW j \in DOMAIN (q \o r), i < j
             PROVE  Before((q \o r)[i].source, (q \o r)[j].source)
  BY DEF Sorted
<1>1. /\ i \in Nat /\ j \in Nat /\ Len(q) \in Nat /\ Len(r) \in Nat /\ DOMAIN q = 1..Len(q) /\ DOMAIN r = 1..Len(r)
      /\ i > 0 /\ j > 0 /\ i <= Len(q) + Len(r) /\ j <= Len(q) + Len(r)
  OBVIOUS
<1>2. \A k \in 1..(Len(q) + Len(r)) :
        (q \o r)[k] = IF k <= Len(q) THEN q[k] ELSE r[k - Len(q)]
  OBVIOUS
<1> DEFINE x == (q \o r)[i]
           y == (q \o r)[j]
<1>3. /\ x = IF i <= Len(q) THEN q[i] ELSE r[i - Len(q)]
      /\ y = IF j <= Len(q) THEN q[j] ELSE r[j - Len(q)]
  BY <1>1, <1>2
<1> HIDE DEF x, y
<1>4. Before(x.source, y.source)
  <2>1. CASE j <= Len(q) BY <1>1, <1>3, <2>1 DEF Sorted
  <2>2. CASE i <= Len(q) /\ j > Len(q)
    <3>1. i \in DOMAIN q /\ j - Len(q) \in DOMAIN r BY <1>1, <2>2
    <3>2. x = q[i] /\ y = r[j - Len(q)] BY <1>1, <1>3, <2>2
    <3> QED BY <3>1, <3>2 DEF Precedes
  <2>3. CASE i > Len(q)
    <3>1. i - Len(q) \in DOMAIN r /\ j - Len(q) \in DOMAIN r /\ i - Len(q) < j - Len(q)
          /\ j > Len(q)
      BY <1>1, <2>3
    <3> QED BY <1>1, <1>3, <2>3, <3>1 DEF Sorted
  <2> QED BY <1>1, <2>1, <2>2, <2>3
<1> QED BY <1>4 DEF x, y

LEMMA PrecedesConcat ==
  ASSUME NEW S, NEW q \in Seq(S), NEW r \in Seq(S), NEW source, Precedes(q, source), Precedes(r, source)
  PROVE  Precedes(q \o r, source)
<1> SUFFICES ASSUME NEW i \in DOMAIN (q \o r) PROVE Before((q \o r)[i].source, source)
  BY DEF Precedes
<1>1. \/ i \in DOMAIN q /\ (q \o r)[i] = q[i]
      \/ i - Len(q) \in DOMAIN r /\ (q \o r)[i] = r[i - Len(q)]
  OBVIOUS
<1> QED BY <1>1 DEF Precedes

\* The calls a call makes stand in order, where the call stood.
LEMMA CallsSorted ==
  ASSUME NEW c \in Calls, c.name # "values"
  PROVE  /\ Sorted(CallsOf(c))
         /\ \A t \in Paths : Before(c.source, t) => Precedes(CallsOf(c), t)
         /\ \A s \in Paths : Before(s, c.source) =>
              \A i \in DOMAIN CallsOf(c) : Before(s, CallsOf(c)[i].source)
<1>0. c.source \in Paths /\ c.value \in JSON BY DEF Calls
<1>1. Sorted(CallsOf(c))
  <2>1. CASE CallsOf(c) = <<>> BY <2>1 DEF Sorted
  <2>2. CASE OneText(c, CallsOf(c)) \/ OneField(c, CallsOf(c))
    <3>1. \E d : CallsOf(c) = <<d>> BY <2>2 DEF OneText, OneField, Into
    <3>2. DOMAIN CallsOf(c) = {1} BY <3>1
    <3> QED BY <3>2 DEF Sorted
  <2>3. CASE Elements(c, CallsOf(c))
    <3>1. PICK name \in {"text", "part"} : CallsOf(c) = Each(name, c.value, c.source)
      BY <2>3 DEF Elements
    <3>2. \A i \in DOMAIN CallsOf(c) :
            i \in DOMAIN c.value.items /\ CallsOf(c)[i].source = Append(c.source, Index(i))
      BY <3>1 DEF Each, Call
    <3>3. c.value.items \in Seq(JSON) BY <1>0, <2>3, JSONParts DEF Elements, Is
    <3>4. \A i \in DOMAIN CallsOf(c) : i \in Nat BY <3>2, <3>3
    <3> QED BY <1>0, <3>2, <3>4, SiblingsBefore, Zenon DEF Sorted
  <2> QED BY <2>1, <2>2, <2>3, CallShape
<1>2. \A t \in Paths : Before(c.source, t) => Precedes(CallsOf(c), t)
  <2> SUFFICES ASSUME NEW t \in Paths, Before(c.source, t), NEW i \in DOMAIN CallsOf(c)
               PROVE  Before(CallsOf(c)[i].source, t)
    BY DEF Precedes
  <2>1. ASSUME NEW step \in Steps PROVE Before(Append(c.source, step), t) BY <1>0, BeforeFurther
  <2> QED BY <2>1, ChildSources, Zenon
<1>3. ASSUME NEW s \in Paths, Before(s, c.source), NEW i \in DOMAIN CallsOf(c)
      PROVE  Before(s, CallsOf(c)[i].source)
  <2>1. ASSUME NEW step \in Steps PROVE Before(s, Append(c.source, step)) BY <1>0, <1>3, BeforeFurther
  <2> QED BY <1>3, <2>1, ChildSources, Zenon
<1> QED BY <1>1, <1>2, <1>3

LEMMA AddOnlyText ==
  ASSUME NEW c \in Calls
  PROVE  /\ AddUserMessage(c) # <<>> => CallsOf(c) = <<>>
         /\ DOMAIN AddUserMessage(c) \subseteq {1}
         /\ \A i \in DOMAIN AddUserMessage(c) : AddUserMessage(c)[i].source = c.source
<1>1. CASE c.name = "text" /\ Is(c.value, "string") /\ ~Blank(c.value.text)
  <2>1. CallsOf(c) = <<>> BY <1>1 DEF CallsOf
  <2>2. AddUserMessage(c) = <<[text |-> c.value.text, source |-> c.source]>> BY <1>1 DEF AddUserMessage
  <2>3. DOMAIN AddUserMessage(c) = {1} /\ AddUserMessage(c)[1].source = c.source BY <2>2
  <2> QED BY <2>1, <2>3
<1>2. CASE ~(c.name = "text" /\ Is(c.value, "string") /\ ~Blank(c.value.text))
  <2>1. AddUserMessage(c) = <<>> BY <1>2 DEF AddUserMessage
  <2>2. DOMAIN AddUserMessage(c) = {} BY <2>1
  <2> QED BY <2>1, <2>2
<1> QED BY <1>1, <1>2

\* A call made in its turn keeps the order, with what waits on the stack and later.
LEMMA MakeSorted ==
  ASSUME NEW c \in Calls, c.name # "values", NEW rest \in Seq(Calls), NEW ms \in Seq(Recorded),
         NEW Later \in SUBSET Paths,
         Sorted(ms), Sorted(rest), Precedes(ms, c.source),
         \A i \in DOMAIN rest : Before(c.source, rest[i].source) /\ Precedes(ms, rest[i].source),
         \A t \in Later : Precedes(ms, t) /\ Precedes(rest, t) /\ Before(c.source, t)
  PROVE  /\ Sorted(ms \o AddUserMessage(c)) /\ Sorted(CallsOf(c) \o rest)
         /\ \A i \in DOMAIN (CallsOf(c) \o rest) :
              Precedes(ms \o AddUserMessage(c), (CallsOf(c) \o rest)[i].source)
         /\ \A t \in Later : Precedes(ms \o AddUserMessage(c), t) /\ Precedes(CallsOf(c) \o rest, t)
<1> DEFINE add == AddUserMessage(c)
           made == CallsOf(c)
<1>1. add \in Seq(Recorded) /\ made \in Seq(Calls) BY AddTyped, CallsTyped
<1>2. \A i \in DOMAIN rest : rest[i].source \in Paths
  <2>1. \A i \in DOMAIN rest : rest[i] \in Calls OBVIOUS
  <2> QED BY <2>1 DEF Calls
<1>3. \A i \in DOMAIN ms : ms[i].source \in Paths
  <2>1. \A i \in DOMAIN ms : ms[i] \in Recorded OBVIOUS
  <2> QED BY <2>1 DEF Recorded
<1>4. /\ add # <<>> => made = <<>>
      /\ DOMAIN add \subseteq {1} /\ \A i \in DOMAIN add : add[i].source = c.source
  BY AddOnlyText
<1>5. /\ Sorted(made)
      /\ \A t \in Paths : Before(c.source, t) => Precedes(made, t)
      /\ \A s \in Paths : Before(s, c.source) => \A i \in DOMAIN made : Before(s, made[i].source)
  BY CallsSorted
<1> HIDE DEF add, made
<1>6. Sorted(add) BY <1>4 DEF Sorted
<1>7. \A t : Before(c.source, t) => Precedes(add, t) BY <1>4 DEF Precedes
<1>8. Sorted(ms \o add)
  <2>1. \A j \in DOMAIN add : Precedes(ms, add[j].source) BY <1>4
  <2> QED BY <1>1, <1>6, <2>1, SortedConcat
<1>9. Sorted(made \o rest)
  <2>1. \A j \in DOMAIN rest : Precedes(made, rest[j].source) BY <1>2, <1>5
  <2> QED BY <1>1, <1>5, <2>1, SortedConcat
<1>10. ASSUME NEW i \in DOMAIN (made \o rest) PROVE Precedes(ms \o add, (made \o rest)[i].source)
  <2>1. \/ i \in DOMAIN made /\ (made \o rest)[i] = made[i]
        \/ i - Len(made) \in DOMAIN rest /\ (made \o rest)[i] = rest[i - Len(made)]
    BY <1>1
  <2>2. CASE i \in DOMAIN made /\ (made \o rest)[i] = made[i]
    <3>1. Precedes(ms, made[i].source) BY <1>3, <1>5, <2>2 DEF Precedes
    <3>2. add = <<>>
      <4>1. made # <<>> BY <2>2
      <4> QED BY <1>4, <4>1
    <3>3. Precedes(add, made[i].source) BY <3>2 DEF Precedes
    <3> QED BY <1>1, <2>2, <3>1, <3>3, PrecedesConcat
  <2>3. CASE i - Len(made) \in DOMAIN rest /\ (made \o rest)[i] = rest[i - Len(made)]
    <3>1. Precedes(ms, rest[i - Len(made)].source) /\ Precedes(add, rest[i - Len(made)].source)
      BY <1>7, <2>3
    <3> QED BY <1>1, <2>3, <3>1, PrecedesConcat
  <2> QED BY <2>1, <2>2, <2>3
<1>11. ASSUME NEW t \in Later PROVE Precedes(ms \o add, t) /\ Precedes(made \o rest, t)
  <2>1. Precedes(ms, t) /\ Precedes(rest, t) /\ Precedes(add, t) /\ Precedes(made, t) BY <1>5, <1>7
  <2> QED BY <1>1, <2>1, PrecedesConcat
<1> QED BY <1>8, <1>9, <1>10, <1>11 DEF add, made

LEMMA LoopSorted ==
  ASSUME request \in Requests, IsJSON
  PROVE  Sorted(Loop)
<1> DEFINE body == request.body
<1>1. Loop \in Seq(Calls) /\ Opens(body, Loop) BY RequestWalk DEF IsJSON, Loop
<1> HIDE DEF body
<1>2. CASE Single(body, Loop)
  <2>1. \E d : Loop = <<d>> BY <1>2 DEF Single
  <2>2. DOMAIN Loop = {1} BY <2>1
  <2> QED BY <2>2 DEF Sorted
<1>3. CASE Loop = FieldCalls("field", body)
  <2>1. \A i \in DOMAIN Loop : i \in DOMAIN PromptFields /\ Loop[i].source = <<Key(PromptFields[i])>>
    BY <1>3 DEF FieldCalls, Call
  <2>2. ASSUME NEW i \in DOMAIN PromptFields, NEW j \in DOMAIN PromptFields, i < j
        PROVE  Before(<<Key(PromptFields[i])>>, <<Key(PromptFields[j])>>)
    <3> DEFINE a == <<Key(PromptFields[i])>>
               b == <<Key(PromptFields[j])>>
    <3>1. DOMAIN a = {1} /\ DOMAIN b = {1} /\ a[1].key = PromptFields[i] /\ b[1].key = PromptFields[j]
      BY DEF Key
    <3> HIDE DEF a, b
    <3>2. Before(a, b) BY <2>2, <3>1 DEF Before
    <3> QED BY <3>2 DEF a, b
  <2> QED BY <2>1, <2>2, Zenon DEF Sorted
<1>4. ASSUME NEW key \in {"messages", "input", "contents"}, Listed(body, Loop, key)
      PROVE  Sorted(Loop)
  <2>1. \A i \in DOMAIN Loop : Loop[i].source = Append(<<Key(key)>>, Index(i))
    BY <1>4 DEF Listed, Each, Call
  <2>2. <<Key(key)>> \in Paths
    <3>1. Key(key) \in Steps BY StepTypes, Zenon DEF Keys
    <3> QED BY <3>1 DEF Paths
  <2>3. \A i \in DOMAIN Loop : i \in Nat BY <1>1
  <2> QED BY <2>1, <2>2, <2>3, SiblingsBefore, Zenon DEF Sorted
<1>5. CASE Loop = <<>> BY <1>5 DEF Sorted
<1> QED BY <1>1, <1>2, <1>3, <1>4, <1>5 DEF Opens

LEMMA OrderStep ==
  ExtractTypes /\ SourceInv /\ OrderInv /\ [ExtractNext]_extractVars => OrderInv'
<1> SUFFICES ASSUME ExtractTypes, SourceInv, OrderInv, [ExtractNext]_extractVars, IsJSON
             PROVE  OrderInv'
  BY Zenon DEF OrderInv, IsJSON, ExtractNext, Begin, Iterate, Descend, Return, Make, extractVars
<1> DEFINE ms == extraction.messages
           Later(n) == {Loop[i].source : i \in {i \in DOMAIN Loop : i >= n}}
<1>1. request' = request /\ Loop' = Loop
  BY Zenon DEF ExtractNext, Begin, Iterate, Descend, Return, Make, extractVars, Loop
<1>2. /\ extraction \in Extraction /\ ms \in Seq(Recorded) /\ todo \in Seq(Calls)
      /\ next \in Nat
  BY DEF ExtractTypes, Extraction
<1>3. /\ Loop \in Seq(Calls) /\ DOMAIN Loop = 1..Len(Loop) /\ Len(Loop) \in Nat
      /\ \A i \in DOMAIN Loop : Loop[i] \in Calls /\ Loop[i].name # "values"
  <2>1. Loop \in Seq(RootedCalls(request.body)) BY LoopRooted DEF ExtractTypes
  <2>2. \A i \in DOMAIN Loop : Loop[i] \in RootedCalls(request.body) BY <2>1
  <2>3. Loop \in Seq(Calls) BY RequestWalk DEF ExtractTypes, Loop
  <2> QED BY <2>2, <2>3 DEF RootedCalls
<1>4. \A n : Later(n) \in SUBSET Paths
  <2>1. \A i \in DOMAIN Loop : Loop[i].source \in Paths BY <1>3 DEF Calls
  <2> QED BY <2>1
<1>5. /\ Sorted(ms) /\ Sorted(todo) /\ \A i \in DOMAIN todo : Precedes(ms, todo[i].source)
      /\ \A t \in Later(next) : Precedes(ms, t) /\ Precedes(todo, t)
  BY DEF OrderInv
<1>6. ASSUME NEW c \in Calls, c.name # "values", NEW rest \in Seq(Calls), Make(c, rest), NEW n \in Nat,
             next' = n, Sorted(rest), Precedes(ms, c.source),
             \A i \in DOMAIN rest : Before(c.source, rest[i].source) /\ Precedes(ms, rest[i].source),
             \A t \in Later(n) : Precedes(ms, t) /\ Precedes(rest, t) /\ Before(c.source, t)
      PROVE  OrderInv'
  <2>1. todo' = CallsOf(c) \o rest /\ extraction'.messages = ms \o AddUserMessage(c)
    BY <1>6, MakeTyped, Zenon DEF Make
  <2>2. Later(n) \in SUBSET Paths BY <1>4
  <2> HIDE DEF Later, ms
  <2>3. /\ Sorted(ms \o AddUserMessage(c)) /\ Sorted(CallsOf(c) \o rest)
        /\ \A i \in DOMAIN (CallsOf(c) \o rest) :
             Precedes(ms \o AddUserMessage(c), (CallsOf(c) \o rest)[i].source)
        /\ \A t \in Later(n) : Precedes(ms \o AddUserMessage(c), t) /\ Precedes(CallsOf(c) \o rest, t)
    BY <1>2, <1>5, <1>6, <2>2, MakeSorted, Zenon
  <2>4. \A i \in DOMAIN Loop : i >= n => Loop[i].source \in Later(n) BY DEF Later
  <2> DEFINE ms2 == extraction'.messages
             todo2 == todo'
  <2>5. /\ Sorted(ms2) /\ Sorted(todo2) /\ \A i \in DOMAIN todo2 : Precedes(ms2, todo2[i].source)
        /\ \A i \in DOMAIN Loop : i >= n => Precedes(ms2, Loop[i].source) /\ Precedes(todo2, Loop[i].source)
    BY <2>1, <2>3, <2>4
  <2> QED BY <1>1, <1>6, <2>5, Zenon DEF OrderInv, Sorted, Precedes
<1>7. ASSUME extraction'.messages = ms, todo' = todo, next' >= next, next' \in Nat PROVE OrderInv'
  <2>1. \A i \in DOMAIN Loop : i >= next' => i >= next BY <1>2, <1>3, <1>7
  <2> QED BY <1>1, <1>5, <1>7, <2>1 DEF OrderInv, Sorted, Precedes
<1>8. CASE Begin
  <2>1. extraction'.messages = ms /\ todo' = todo /\ next' = 1 /\ next = 0
    BY <1>2, <1>8 DEF Begin, Extraction
  <2> QED BY <1>7, <2>1
<1>9. CASE Iterate
  <2>1. next \in DOMAIN Loop /\ todo = <<>> /\ next' = next + 1 /\ Make(Loop[next], <<>>)
    BY <1>9 DEF Iterate, Loop
  <2>2. Loop[next] \in Calls /\ Loop[next].name # "values" BY <1>3, <2>1
  <2>3. Precedes(ms, Loop[next].source)
    <3>1. Loop[next].source \in Later(next) BY <1>2, <2>1
    <3> QED BY <1>5, <3>1
  <2>4. ASSUME NEW t \in Later(next + 1)
        PROVE  Precedes(ms, t) /\ Precedes(<<>>, t) /\ Before(Loop[next].source, t)
    <3>1. PICK i \in DOMAIN Loop : i >= next + 1 /\ t = Loop[i].source BY <2>4
    <3>2. i >= next /\ next < i BY <1>2, <1>3, <3>1
    <3>3. t \in Later(next) BY <3>1, <3>2
    <3>4. Sorted(Loop) BY LoopSorted DEF ExtractTypes
    <3>5. Before(Loop[next].source, t) BY <2>1, <3>1, <3>2, <3>4 DEF Sorted
    <3> QED BY <1>5, <3>3, <3>5 DEF Precedes
  <2>5. <<>> \in Seq(Calls) /\ Sorted(<<>>) /\ next + 1 \in Nat /\ DOMAIN <<>> = {} BY <1>2 DEF Sorted
  <2> HIDE DEF Later, ms
  <2> QED BY <1>6, <2>1, <2>2, <2>3, <2>4, <2>5, Zenon
<1>10. CASE Descend
  <2>1. todo # <<>> /\ next' = next /\ Make(Head(todo), Tail(todo)) BY <1>10 DEF Descend
  <2> DEFINE c == Head(todo)
             rest == Tail(todo)
  <2>2. /\ c = todo[1] /\ 1 \in DOMAIN todo /\ rest \in Seq(Calls) /\ c \in Calls
        /\ \A i \in DOMAIN rest : i \in Nat /\ i > 0 /\ i + 1 \in DOMAIN todo /\ rest[i] = todo[i + 1]
    BY <1>2, <2>1
  <2>3. c.name # "values" BY <2>2 DEF SourceInv, RootedCalls
  <2> HIDE DEF c, rest, Later, ms
  <2>4. Sorted(rest)
    <3> SUFFICES ASSUME NEW i \in DOMAIN rest, NEW j \in DOMAIN rest, i < j
                 PROVE  Before(rest[i].source, rest[j].source)
      BY DEF Sorted
    <3>1. i + 1 \in DOMAIN todo /\ j + 1 \in DOMAIN todo /\ i + 1 < j + 1 BY <2>2
    <3> QED BY <1>5, <2>2, <3>1 DEF Sorted
  <2>5. Precedes(ms, c.source) BY <1>5, <2>2
  <2>6. ASSUME NEW i \in DOMAIN rest
        PROVE  Before(c.source, rest[i].source) /\ Precedes(ms, rest[i].source)
    <3>1. i + 1 \in DOMAIN todo /\ 1 < i + 1 /\ rest[i] = todo[i + 1] BY <2>2
    <3> QED BY <1>5, <2>2, <3>1 DEF Sorted
  <2>7. ASSUME NEW t \in Later(next)
        PROVE  Precedes(ms, t) /\ Precedes(rest, t) /\ Before(c.source, t)
    <3>1. Precedes(ms, t) /\ Precedes(todo, t) BY <1>5
    <3> QED BY <2>2, <3>1 DEF Precedes
  <2>8. Make(c, rest) BY <2>1 DEF c, rest
  <2> QED BY <1>2, <1>6, <2>1, <2>2, <2>3, <2>4, <2>5, <2>6, <2>7, <2>8, Zenon
<1>11. CASE Return
  <2>1. extraction'.messages = ms /\ todo' = todo /\ next' = next
    BY <1>2, <1>11 DEF Return, Extraction
  <2> QED BY <1>2, <1>7, <2>1
<1>12. CASE UNCHANGED extractVars
  <2>1. extraction'.messages = ms /\ todo' = todo /\ next' = next BY <1>12 DEF extractVars
  <2> QED BY <1>2, <1>7, <2>1
<1> QED BY <1>8, <1>9, <1>10, <1>11, <1>12 DEF ExtractNext

-----------------------------------------------------------------------------
(* Every text of a user *)

\* What CountsExact expects of the instruction fields.
Top(r, role) ==
  IF /\ HasValue(Field(r.body, role))
     /\ \/ role = "system" /\ ProtocolForPath(r.marks) \in {"openai-chat", "anthropic-messages"}
        \/ role = "developer" /\ ProtocolForPath(r.marks) = "openai-chat"
  THEN 1 ELSE 0

\* The loop runs over the list of messages the properties speak of; only an empty list
\* of a generic request is passed over for the prompt fields.
LEMMA ListReadLoop ==
  ASSUME ListRead # "none"
  PROVE  /\ ListRead \in {"messages", "input", "contents"} /\ Is(request.body, "object")
         /\ HasA(request.body, ListRead, "array")
         /\ \/ Listed(request.body, Loop, ListRead)
            \/ ListRead = "messages" /\ Field(request.body, ListRead).items = <<>>
               /\ Loop = FieldCalls("field", request.body)
         /\ ListRead = "messages" /\ ProtocolForPath(request.marks) # "gemini" =>
              \A role \in ExcludedRoles : WalkOf(request).excluded[role] = Top(request, role)
<1> DEFINE body == request.body
           protocol == ProtocolForPath(request.marks)
           event == IF request.via = "http" THEN "" ELSE Normal(StringAt(body, "type"))
           list(key) == IF HasA(body, key, "array") THEN key ELSE "none"
           read == IF event = "response.create" THEN "openai-responses" ELSE protocol
<1> HIDE DEF protocol
<1>1. /\ Is(body, "object") /\ event # "conversation.item.create"
      /\ ListRead = IF read = "openai-responses" THEN list("input")
                    ELSE IF read = "gemini" /\ HasA(body, "contents", "array") THEN "contents"
                    ELSE list("messages")
  BY DEF ListRead, protocol
<1>2. WalkOf(request) = IF read = "openai-responses" THEN ExtractResponses(body)
                        ELSE ExtractJSONByProtocol(protocol, body)
  BY <1>1 DEF WalkOf, ExtractRequest, ExtractWebSocketMessage, ExtractJSONByProtocol, Is, protocol
<1> HIDE DEF body, read, event
<1>3. \A key : HasA(body, key, "array") => Field(body, key) = body.fields[key]
  BY DEF HasA, Field, Is, Null
<1>4. CASE read = "openai-responses"
  <2>1. ListRead = "input" /\ HasA(body, "input", "array") BY <1>1, <1>4
  <2>2. WalkOf(request).calls = Each("input", Field(body, "input"), <<Key("input")>>)
    <3>1. Has(body, "input") /\ Is(Field(body, "input"), "array") BY <2>1 DEF HasA, Field, Is, Null
    <3> DEFINE calls == Each("input", Field(body, "input"), <<Key("input")>>)
               e == Instruction(body, "instructions", "system", NoneExcluded)
               status == ""
    <3>2. ExtractResponses(body) = Walk(calls, e, status) BY <3>1, Zenon DEF ExtractResponses, Is
    <3>3. WalkOf(request) = ExtractResponses(body) BY <1>2, <1>4
    <3> HIDE DEF calls, e, status
    <3>4. WalkOf(request).calls = calls BY <3>2, <3>3 DEF Walk
    <3> QED BY <3>4 DEF calls
  <2>3. Listed(body, Loop, "input") BY <2>1, <2>2 DEF Listed, ListNames, Loop
  <2> QED BY <1>1, <2>1, <2>3, Zenon DEF body
<1>5. CASE read = "gemini" /\ HasA(body, "contents", "array")
  <2>1. ListRead = "contents" BY <1>1, <1>5
  <2>2. protocol = "gemini" BY <1>5 DEF read
  <2>3. WalkOf(request).calls = Each("gemini", Field(body, "contents"), <<Key("contents")>>)
    <3>1. WalkOf(request) = ExtractGemini(body) BY <1>1, <1>2, <1>5, <2>2 DEF ExtractJSONByProtocol
    <3> DEFINE calls == Each("gemini", Field(body, "contents"), <<Key("contents")>>)
               status == ""
    <3>2. PICK e : ExtractGemini(body) = Walk(calls, e, status) BY <1>3, <1>5, Zenon DEF ExtractGemini
    <3> HIDE DEF calls, status
    <3>3. WalkOf(request).calls = calls BY <3>1, <3>2 DEF Walk
    <3> QED BY <3>3 DEF calls
  <2>4. Listed(body, Loop, "contents") BY <1>5, <2>3 DEF Listed, ListNames, Loop
  <2> QED BY <1>1, <1>5, <2>1, <2>4, Zenon DEF body
<1>6. CASE read # "openai-responses" /\ ~(read = "gemini" /\ HasA(body, "contents", "array"))
  <2>1. ListRead = "messages" /\ HasA(body, "messages", "array") /\ read = protocol
    BY <1>1, <1>6 DEF read
  <2> DEFINE listed(w) == w.calls = Each("message", Field(body, "messages"), <<Key("messages")>>)
             passed(w) == Field(body, "messages").items = <<>> /\ w.calls = FieldCalls("field", body)
             count(w, e) == w.excluded = e
  <2>2. \A e, status : LET w == MessageList(body, e, status) IN listed(w) /\ count(w, e)
    BY <1>3, <2>1 DEF MessageList, Walk
  <2>3. \A e : LET w == ExtractGeneric(body, e) IN (listed(w) \/ passed(w)) /\ count(w, e)
    BY <1>3, <2>1, <2>2, Zenon DEF ExtractGeneric, Fields, Walk
  <2> HIDE DEF listed, passed, count
  <2>4. CASE protocol = "openai-chat"
    <3> DEFINE e == Instruction(body, "developer", "developer", Instruction(body, "system", "system", NoneExcluded))
    <3>1. listed(WalkOf(request)) /\ count(WalkOf(request), e)
      BY <1>1, <1>2, <2>1, <2>2, <2>4, Zenon DEF ExtractJSONByProtocol, ExtractOpenAIChat
    <3>2. \A role \in ExcludedRoles : e[role] = Top(request, role)
      BY <2>4 DEF Instruction, Count, NoneExcluded, ExcludedRoles, Top, protocol, body
    <3>3. Listed(body, Loop, "messages") BY <2>1, <3>1 DEF listed, Listed, ListNames, Loop
    <3>4. \A role \in ExcludedRoles : WalkOf(request).excluded[role] = Top(request, role)
      BY <3>1, <3>2, Zenon DEF count
    <3> QED BY <1>1, <2>1, <3>3, <3>4, Zenon DEF body
  <2>5. CASE protocol = "anthropic-messages"
    <3> DEFINE e == Instruction(body, "system", "system", NoneExcluded)
    <3>1. listed(WalkOf(request)) /\ count(WalkOf(request), e)
      BY <1>1, <1>2, <2>1, <2>2, <2>5, Zenon DEF ExtractJSONByProtocol, ExtractAnthropic
    <3>2. \A role \in ExcludedRoles : e[role] = Top(request, role)
      BY <2>5 DEF Instruction, Count, NoneExcluded, ExcludedRoles, Top, protocol, body
    <3>3. Listed(body, Loop, "messages") BY <2>1, <3>1 DEF listed, Listed, ListNames, Loop
    <3>4. \A role \in ExcludedRoles : WalkOf(request).excluded[role] = Top(request, role)
      BY <3>1, <3>2, Zenon DEF count
    <3> QED BY <1>1, <2>1, <3>3, <3>4, Zenon DEF body
  <2>6. CASE protocol = "gemini"
    <3>1. listed(WalkOf(request)) \/ passed(WalkOf(request))
      BY <1>1, <1>2, <1>6, <2>1, <2>3, <2>6 DEF ExtractJSONByProtocol, ExtractGemini
    <3> QED BY <1>1, <2>1, <2>6, <3>1 DEF listed, passed, Listed, ListNames, Loop, body, protocol
  <2>7. CASE protocol \notin {"openai-chat", "anthropic-messages", "gemini"}
    <3>1. /\ listed(WalkOf(request)) \/ passed(WalkOf(request))
          /\ count(WalkOf(request), NoneExcluded)
      BY <1>1, <1>2, <1>6, <2>1, <2>3, <2>7 DEF ExtractJSONByProtocol
    <3>2. \A role \in ExcludedRoles : NoneExcluded[role] = Top(request, role)
      BY <2>7 DEF NoneExcluded, Top, protocol
    <3>3. \/ Listed(body, Loop, "messages")
          \/ Field(body, "messages").items = <<>> /\ Loop = FieldCalls("field", body)
      BY <2>1, <3>1 DEF listed, passed, Listed, ListNames, Loop
    <3>4. \A role \in ExcludedRoles : WalkOf(request).excluded[role] = Top(request, role)
      BY <3>1, <3>2, Zenon DEF count
    <3> QED BY <1>1, <2>1, <3>3, <3>4, Zenon DEF body
  <2> QED BY <2>4, <2>5, <2>6, <2>7, Zenon
<1> QED BY <1>4, <1>5, <1>6, Zenon

\* The calls that lead to the record of the text at a place.
Mine(c) ==
  /\ IF c.name = "gemini" THEN RoleIn(c.value) \notin {"system", "developer", "model"}
                          ELSE RoleIn(c.value) \in {"", "user"}
  /\ ~(c.name = "input" /\ RoleIn(c.value) = "" /\ StringAt(c.value, "type") = "input_text")
ContentKey(c) == IF c.name = "gemini" THEN "parts" ELSE "content"
Leads(c, place) ==
  \/ c.name \in {"text", "part"} /\ Is(c.value, "string") /\ c.source = place
  \/ /\ c.name = "part" /\ Is(c.value, "object") /\ IsTextPart(c.value)
     /\ place = Append(c.source, Key("text"))
  \/ c.name = "content" /\ place \in Words(c.value, c.source)
  \/ /\ c.name \in {"message", "input", "gemini"} /\ Is(c.value, "object") /\ Mine(c)
     /\ Has(c.value, ContentKey(c))
     /\ place \in Words(c.value.fields[ContentKey(c)], Append(c.source, Key(ContentKey(c))))

CoverInv ==
  ListRead # "none" => \A place \in UserPlaces(ListRead) :
    ~Blank(At(request.body, place).text) =>
      \/ \E i \in DOMAIN extraction.messages : extraction.messages[i].source = place
      \/ \E i \in DOMAIN todo : Leads(todo[i], place)
      \/ \E i \in DOMAIN Loop : i >= next /\ Leads(Loop[i], place)

\* A call that leads to a place records it or makes a call that leads there.
LEMMA LeadsOn ==
  ASSUME NEW body, NEW c \in RootedCalls(body), NEW place, Leads(c, place),
         ~Blank(At(body, place).text)
  PROVE  \/ \E i \in DOMAIN AddUserMessage(c) : AddUserMessage(c)[i].source = place
         \/ \E i \in DOMAIN CallsOf(c) : Leads(CallsOf(c)[i], place)
<1> DEFINE v == c.value
           s == c.source
<1>0. At(body, s) = v BY DEF RootedCalls, Rooted
<1>1. ASSUME NEW d, CallsOf(c) = <<d>>, Leads(d, place)
      PROVE  \E i \in DOMAIN CallsOf(c) : Leads(CallsOf(c)[i], place)
  <2>1. 1 \in DOMAIN CallsOf(c) /\ CallsOf(c)[1] = d BY <1>1
  <2> QED BY <1>1, <2>1
<1>2. CASE c.name = "text"
  <2>1. Is(v, "string") /\ s = place /\ ~Blank(v.text) BY <1>0, <1>2, Zenon DEF Leads
  <2>2. AddUserMessage(c) = <<[text |-> v.text, source |-> s]>> BY <1>2, <2>1 DEF AddUserMessage
  <2>3. 1 \in DOMAIN AddUserMessage(c) /\ AddUserMessage(c)[1].source = s BY <2>2
  <2> QED BY <2>1, <2>3
<1>3. CASE c.name = "part"
  <2>0. CallsOf(c) = ExtractPart(v, s) BY <1>3 DEF CallsOf
  <2>1. CASE Is(v, "string") /\ s = place
    <3>1. CallsOf(c) = <<Call("text", v, s)>> BY <2>0, <2>1 DEF ExtractPart, Is
    <3>2. Leads(Call("text", v, s), place) BY <2>1, Zenon DEF Leads, Call
    <3> QED BY <1>1, <3>1, <3>2
  <2>2. CASE Is(v, "object") /\ IsTextPart(v) /\ place = Append(s, Key("text"))
    <3> DEFINE d == Call("text", Field(v, "text"), Append(s, Key("text")))
    <3>1. CallsOf(c) = <<d>> BY <2>0, <2>2 DEF ExtractPart, Into, Is
    <3>2. Is(Field(v, "text"), "string") BY <2>2, Zenon DEF IsTextPart, HasA
    <3>3. Leads(d, place) BY <2>2, <3>2, Zenon DEF Leads, Call
    <3> QED BY <1>1, <3>1, <3>3
  <2> QED BY <1>3, <2>1, <2>2, Zenon DEF Leads
<1>4. CASE c.name = "content"
  <2>0. CallsOf(c) = ExtractContent(v, s) BY <1>4 DEF CallsOf
  <2>1. place \in Words(v, s) BY <1>4 DEF Leads
  <2>2. CASE Is(v, "string")
    <3>1. CallsOf(c) = <<Call("text", v, s)>> BY <2>0, <2>2 DEF ExtractContent, Is
    <3>2. place = s BY <2>1, <2>2 DEF Words
    <3>3. Leads(Call("text", v, s), place) BY <2>2, <3>2, Zenon DEF Leads, Call
    <3> QED BY <1>1, <3>1, <3>3
  <2>3. CASE Is(v, "array")
    <3>1. CallsOf(c) = Each("part", v, s) BY <2>0, <2>3 DEF ExtractContent, Is
    <3>2. PICK j \in DOMAIN v.items :
            \/ Is(v.items[j], "string") /\ place = Append(s, Index(j))
            \/ /\ Is(v.items[j], "object") /\ IsTextPart(v.items[j])
               /\ place = Append(Append(s, Index(j)), Key("text"))
      BY <2>1, <2>3, Zenon DEF Words, Is, IsTextPart
    <3> DEFINE d == Call("part", v.items[j], Append(s, Index(j)))
    <3>3. j \in DOMAIN CallsOf(c) /\ CallsOf(c)[j] = d BY <3>1 DEF Each
    <3>4. Leads(d, place) BY <3>2, Zenon DEF Leads, Call
    <3> QED BY <3>3, <3>4
  <2>4. CASE ~Is(v, "string") /\ ~Is(v, "array") BY <2>1, <2>4, Zenon DEF Words
  <2> QED BY <2>2, <2>3, <2>4, Zenon
<1>5. CASE c.name \in {"message", "input", "gemini"}
  <2> DEFINE key == ContentKey(c)
             d == Call("content", Field(v, key), Append(s, Key(key)))
  <2>1. Is(v, "object") /\ Mine(c) /\ Has(v, key) /\ place \in Words(v.fields[key], Append(s, Key(key)))
    BY <1>5, Zenon DEF Leads
  <2>2. Leads(d, place) BY <2>1, Zenon DEF Leads, Call, Field
  <2>3. c.name # "gemini" => ExtractRoleMessage(v, s) = Into("content", v, "content", s)
    BY <1>5, <2>1, UserRole, Zenon DEF Mine, ContentKey, ExtractRoleMessage
  <2>4. c.name = "message" => CallsOf(c) = ExtractRoleMessage(v, s)
    BY <2>1 DEF CallsOf, RoleMessage
  <2>5. c.name = "input" => CallsOf(c) = ExtractRoleMessage(v, s)
    <3>1. c.name = "input" => ~IsInputText(v) BY <2>1, UserRole, Zenon DEF Mine, IsInputText
    <3> QED BY <2>1, <3>1 DEF CallsOf, InputItem, Is
  <2>6. c.name = "gemini" => CallsOf(c) = Into("content", v, "parts", s)
    BY <2>1 DEF CallsOf, GeminiContent, GeminiRole, GeminiExcluded, Mine, RoleIn
  <2>7. CallsOf(c) = <<d>> BY <1>5, <2>3, <2>4, <2>5, <2>6 DEF ContentKey, Into
  <2> QED BY <1>1, <2>2, <2>7
<1> QED BY <1>2, <1>3, <1>4, <1>5, Zenon DEF Leads

\* The loop leads to every place of a user's words.
LEMMA LoopLeads ==
  ASSUME ListRead # "none", NEW place \in UserPlaces(ListRead)
  PROVE  \E i \in DOMAIN Loop : Leads(Loop[i], place)
<1> DEFINE body == request.body
           list == ListRead
           items == body.fields[list].items
           key == IF list = "contents" THEN "parts" ELSE "content"
<1>1. /\ list \in {"messages", "input", "contents"} /\ HasA(body, list, "array")
      /\ Listed(body, Loop, list) \/ Field(body, list).items = <<>>
  BY ListReadLoop
<1>2. Field(body, list) = body.fields[list] BY <1>1 DEF HasA, Field, Is, Null
<1>3. PICK i \in DOMAIN items :
        /\ Is(items[i], "object") /\ Has(items[i], key)
        /\ IF list = "contents" THEN RoleIn(items[i]) \notin {"system", "developer", "model"}
                                ELSE RoleIn(items[i]) \in {"", "user"}
        /\ ~(list = "input" /\ RoleIn(items[i]) = "" /\ StringAt(items[i], "type") = "input_text")
        /\ place \in Words(items[i].fields[key], <<Key(list), Index(i), Key(key)>>)
  BY Zenon DEF UserPlaces
<1>4. items # <<>>
  <2>1. DOMAIN items # {} BY <1>3, Zenon
  <2> HIDE DEF items
  <2> QED BY <2>1
<1>5. Listed(body, Loop, list) BY <1>1, <1>2, <1>4
<1> HIDE DEF body, list, items, key
<1>6. i \in DOMAIN Loop /\ Loop[i] = Call(ListNames[list], items[i], Append(<<Key(list)>>, Index(i)))
  BY <1>2, <1>3, <1>5, Zenon DEF Listed, Each, items
<1>7. /\ Loop[i].name = ListNames[list] /\ Loop[i].value = items[i]
      /\ Loop[i].source = <<Key(list), Index(i)>>
  BY <1>6, AppendOne DEF Call
<1>8. /\ Loop[i].name \in {"message", "input", "gemini"} /\ ContentKey(Loop[i]) = key
      /\ Loop[i].name = "gemini" <=> list = "contents"
      /\ Loop[i].name = "input" <=> list = "input"
  <2>1. list \in {"messages", "input", "contents"} BY <1>1
  <2>2. Loop[i].name = ListNames[list] BY <1>7
  <2> QED BY <2>1, <2>2 DEF ListNames, ContentKey, key
<1>9. Append(<<Key(list), Index(i)>>, Key(key)) = <<Key(list), Index(i), Key(key)>> BY AppendTwo
<1>10. Leads(Loop[i], place) BY <1>3, <1>7, <1>8, <1>9, Zenon DEF Leads, Mine
<1> QED BY <1>6, <1>10

LEMMA ConcatParts ==
  ASSUME NEW S, NEW q \in Seq(S), NEW r \in Seq(S)
  PROVE  /\ \A i \in DOMAIN q : i \in DOMAIN (q \o r) /\ (q \o r)[i] = q[i]
         /\ \A i \in DOMAIN r : i + Len(q) \in DOMAIN (q \o r) /\ (q \o r)[i + Len(q)] = r[i]
<1>1. ASSUME NEW i \in DOMAIN q PROVE i \in DOMAIN (q \o r) /\ (q \o r)[i] = q[i] BY <1>1
<1>2. ASSUME NEW i \in DOMAIN r PROVE i + Len(q) \in DOMAIN (q \o r) /\ (q \o r)[i + Len(q)] = r[i]
  <2>1. i \in 1..Len(r) /\ Len(q) \in Nat /\ Len(r) \in Nat BY <1>2
  <2>2. i + Len(q) \in 1..(Len(q) + Len(r)) /\ ~(i + Len(q) <= Len(q)) /\ (i + Len(q)) - Len(q) = i
    BY <2>1
  <2> QED BY <2>2
<1> QED BY <1>1, <1>2

LEMMA CoverInit == ExtractInit => CoverInv
<1> SUFFICES ASSUME ExtractInit, ListRead # "none", NEW place \in UserPlaces(ListRead)
             PROVE  \E i \in DOMAIN Loop : i >= next /\ Leads(Loop[i], place)
  BY DEF CoverInv
<1>1. next = 0 /\ Loop \in Seq(Calls) BY RequestWalk DEF ExtractInit, Loop
<1>2. \A i \in DOMAIN Loop : i >= 0 BY <1>1
<1> QED BY <1>1, <1>2, LoopLeads

LEMMA CoverStep ==
  ExtractTypes /\ SourceInv /\ CoverInv /\ [ExtractNext]_extractVars => CoverInv'
<1>1. [ExtractNext]_extractVars => request' = request /\ Loop' = Loop
  BY Zenon DEF ExtractNext, Begin, Iterate, Descend, Return, Make, extractVars, Loop
<1>2. [ExtractNext]_extractVars => ListRead' = ListRead BY <1>1 DEF ListRead
<1>2a. [ExtractNext]_extractVars => UserPlaces(ListRead)' = UserPlaces(ListRead) BY <1>1, <1>2, Zenon DEF UserPlaces
<1> SUFFICES ASSUME ExtractTypes, SourceInv, CoverInv, [ExtractNext]_extractVars,
                    ListRead # "none", NEW place \in UserPlaces(ListRead),
                    ~Blank(At(request.body, place).text)
             PROVE  \/ \E i \in DOMAIN extraction'.messages : extraction'.messages[i].source = place
                    \/ \E i \in DOMAIN todo' : Leads(todo'[i], place)
                    \/ \E i \in DOMAIN Loop : i >= next' /\ Leads(Loop[i], place)
  BY <1>1, <1>2, <1>2a, Zenon DEF CoverInv
<1> DEFINE body == request.body
           ms == extraction.messages
           Goal == \/ \E i \in DOMAIN extraction'.messages : extraction'.messages[i].source = place
                   \/ \E i \in DOMAIN todo' : Leads(todo'[i], place)
                   \/ \E i \in DOMAIN Loop : i >= next' /\ Leads(Loop[i], place)
<1>3. /\ extraction \in Extraction /\ ms \in Seq(Recorded) /\ todo \in Seq(Calls)
      /\ next \in Nat /\ Loop \in Seq(Calls) /\ DOMAIN Loop = 1..Len(Loop) /\ Len(Loop) \in Nat
  BY LoopTyped DEF ExtractTypes, Extraction
<1>4. IsJSON BY ListReadLoop, Zenon DEF IsJSON, JSONKinds, Is
<1>5. \/ \E i \in DOMAIN ms : ms[i].source = place
      \/ \E i \in DOMAIN todo : Leads(todo[i], place)
      \/ \E i \in DOMAIN Loop : i >= next /\ Leads(Loop[i], place)
  BY Zenon DEF CoverInv
<1>6. ASSUME NEW c \in RootedCalls(body), NEW rest \in Seq(Calls), Make(c, rest)
      PROVE  /\ \A i \in DOMAIN ms : ms[i].source = place => Goal
             /\ \A i \in DOMAIN rest : Leads(rest[i], place) => Goal
             /\ Leads(c, place) => Goal
  <2>1. /\ todo' = CallsOf(c) \o rest /\ extraction'.messages = ms \o AddUserMessage(c)
        /\ CallsOf(c) \in Seq(Calls) /\ AddUserMessage(c) \in Seq(Recorded)
    BY <1>6, MakeTyped, CallsTyped, AddTyped, Zenon DEF Make, RootedCalls
  <2> DEFINE add == AddUserMessage(c)
             made == CallsOf(c)
  <2> HIDE DEF add, made, ms
  <2>2. /\ \A i \in DOMAIN ms : i \in DOMAIN (ms \o add) /\ (ms \o add)[i] = ms[i]
        /\ \A i \in DOMAIN add : i + Len(ms) \in DOMAIN (ms \o add) /\ (ms \o add)[i + Len(ms)] = add[i]
        /\ \A i \in DOMAIN made : i \in DOMAIN (made \o rest) /\ (made \o rest)[i] = made[i]
        /\ \A i \in DOMAIN rest : i + Len(made) \in DOMAIN (made \o rest)
                                  /\ (made \o rest)[i + Len(made)] = rest[i]
    <3>1. /\ \A i \in DOMAIN ms : i \in DOMAIN (ms \o add) /\ (ms \o add)[i] = ms[i]
          /\ \A i \in DOMAIN add : i + Len(ms) \in DOMAIN (ms \o add) /\ (ms \o add)[i + Len(ms)] = add[i]
      <4>1. ms \in Seq(Recorded) /\ add \in Seq(Recorded) BY <1>3, <2>1 DEF add
      <4> QED BY <4>1, ConcatParts
    <3>2. /\ \A i \in DOMAIN made : i \in DOMAIN (made \o rest) /\ (made \o rest)[i] = made[i]
          /\ \A i \in DOMAIN rest : i + Len(made) \in DOMAIN (made \o rest)
                                    /\ (made \o rest)[i + Len(made)] = rest[i]
      BY <2>1, ConcatParts DEF made
    <3> QED BY <3>1, <3>2
  <2>3. todo' = made \o rest /\ extraction'.messages = ms \o add BY <2>1 DEF made, add
  <2>4. \A i \in DOMAIN ms : ms[i].source = place => Goal BY <2>2, <2>3, Zenon
  <2>5. ASSUME NEW i \in DOMAIN add, add[i].source = place PROVE Goal
    <3>1. i + Len(ms) \in DOMAIN extraction'.messages /\ extraction'.messages[i + Len(ms)].source = place
      BY <2>2, <2>3, <2>5
    <3> QED BY <3>1, Zenon
  <2>6. \A i \in DOMAIN made : Leads(made[i], place) => Goal BY <2>2, <2>3
  <2>7. \A i \in DOMAIN rest : Leads(rest[i], place) => Goal BY <2>2, <2>3, Zenon
  <2> HIDE DEF Goal
  <2>8. Leads(c, place) => Goal BY <2>5, <2>6, LeadsOn DEF add, made
  <2> QED BY <2>4, <2>7, <2>8
<1>7. ASSUME extraction'.messages = ms, todo' = todo, \A i \in DOMAIN Loop : i >= next => i >= next' PROVE Goal
  BY <1>5, <1>7, Zenon
<1>8. CASE Begin
  <2>1. extraction'.messages = ms /\ todo' = todo /\ next' = 1 /\ next = 0
    BY <1>3, <1>8 DEF Begin, Extraction
  <2>2. \A i \in DOMAIN Loop : i >= 1 BY <1>3
  <2> QED BY <1>7, <2>1, <2>2
<1>9. CASE Iterate
  <2>1. next \in DOMAIN Loop /\ todo = <<>> /\ next' = next + 1 /\ Make(Loop[next], <<>>)
    BY <1>9 DEF Iterate, Loop
  <2>2. Loop \in Seq(RootedCalls(body)) BY <1>4, LoopRooted DEF ExtractTypes
  <2>3. Loop[next] \in RootedCalls(body) /\ <<>> \in Seq(Calls) BY <2>1, <2>2
  <2>4. \A i \in DOMAIN Loop : i >= next => i = next \/ i >= next' BY <1>3, <2>1
  <2>5. DOMAIN todo = {} BY <2>1
  <2>6. /\ \A i \in DOMAIN ms : ms[i].source = place => Goal
        /\ Leads(Loop[next], place) => Goal
    BY <1>6, <2>1, <2>3, Zenon
  <2>7. \A i \in DOMAIN Loop : i >= next' /\ Leads(Loop[i], place) => Goal OBVIOUS
  <2> HIDE DEF Goal
  <2>8. Goal BY <1>5, <2>4, <2>5, <2>6, <2>7, Zenon
  <2> QED BY <2>8 DEF Goal
<1>10. CASE Descend
  <2>1. todo # <<>> /\ next' = next /\ Make(Head(todo), Tail(todo)) BY <1>10 DEF Descend
  <2>2. todo \in Seq(RootedCalls(body)) BY <1>4 DEF SourceInv
  <2>3. Head(todo) \in RootedCalls(body) /\ Tail(todo) \in Seq(Calls) BY <1>3, <2>1, <2>2
  <2>4. \A i \in DOMAIN todo :
          todo[i] = Head(todo) \/ (i - 1 \in DOMAIN Tail(todo) /\ Tail(todo)[i - 1] = todo[i])
    BY <1>3, <2>1
  <2>5. /\ \A i \in DOMAIN ms : ms[i].source = place => Goal
        /\ \A i \in DOMAIN Tail(todo) : Leads(Tail(todo)[i], place) => Goal
        /\ Leads(Head(todo), place) => Goal
    BY <1>6, <2>1, <2>3, Zenon
  <2>6. \A i \in DOMAIN Loop : i >= next /\ Leads(Loop[i], place) => Goal BY <2>1
  <2> HIDE DEF Goal
  <2>7. Goal BY <1>5, <2>4, <2>5, <2>6, Zenon
  <2> QED BY <2>7 DEF Goal
<1>11. CASE Return
  <2>1. extraction'.messages = ms /\ todo' = todo /\ next' = next
    BY <1>3, <1>11 DEF Return, Extraction
  <2> QED BY <1>7, <2>1, Zenon
<1>12. CASE UNCHANGED extractVars BY <1>7, <1>12, Zenon DEF extractVars
<1> QED BY <1>8, <1>9, <1>10, <1>11, <1>12, Zenon DEF ExtractNext

LEMMA RecordedHolds == ExtractTypes /\ OrderInv /\ CoverInv => UserTextRecorded
<1> SUFFICES ASSUME ExtractTypes, OrderInv, CoverInv PROVE UserTextRecorded OBVIOUS
<1>1. ASSUME Extracted, ListRead # "none", NEW place \in UserPlaces(ListRead),
             ~Blank(At(request.body, place).text)
      PROVE  \E m \in Messages : m.source = place
  <2>1. next = Len(Loop) + 1 /\ todo = <<>> /\ Loop \in Seq(Calls)
    BY <1>1, RequestWalk, Zenon DEF ExtractTypes, Loop
  <2>2. DOMAIN todo = {} /\ \A i \in DOMAIN Loop : ~(i >= next) BY <2>1
  <2>3. \E i \in DOMAIN extraction.messages : extraction.messages[i].source = place
    BY <1>1, <2>2, Zenon DEF CoverInv
  <2> QED BY <2>3 DEF Messages
<1> QED BY <1>1, Zenon DEF UserTextRecorded, OrderInv, Sorted

-----------------------------------------------------------------------------
(* The counts of the excluded roles *)

\* Calls within an element of the loop count nothing.
InnerCalls == {c \in Calls : c.name \in {"text", "content", "part"}}
Items == request.body.fields["messages"].items
Passed(n, role) == {i \in DOMAIN Items : i < n /\ RoleIn(Items[i]) = role}

CountInv ==
  /\ IsJSON => todo \in Seq(InnerCalls)
  /\ next > 0 /\ ListRead = "messages" /\ ProtocolForPath(request.marks) # "gemini" =>
       \A role \in ExcludedRoles :
         extraction.excluded[role] = Cardinality(Passed(next, role)) + Top(request, role)

LEMMA PassedFinite ==
  ASSUME Items \in Seq(JSON), NEW n \in Nat, NEW role
  PROVE  /\ IsFiniteSet(Passed(n, role))
         /\ n \in DOMAIN Items =>
              Cardinality(Passed(n + 1, role)) =
                Cardinality(Passed(n, role)) + (IF RoleIn(Items[n]) = role THEN 1 ELSE 0)
<1>1. IsFiniteSet(Passed(n, role))
  <2>1. 1..Len(Items) = DOMAIN Items /\ Len(Items) \in Nat OBVIOUS
  <2>2. IsFiniteSet(1..Len(Items)) BY <2>1, FS_Interval
  <2>3. Passed(n, role) \subseteq 1..Len(Items) BY <2>1 DEF Passed
  <2> QED BY <2>2, <2>3, FS_Subset
<1>2. ASSUME n \in DOMAIN Items
      PROVE  Cardinality(Passed(n + 1, role)) =
               Cardinality(Passed(n, role)) + (IF RoleIn(Items[n]) = role THEN 1 ELSE 0)
  <2>0. \A i \in DOMAIN Items : i \in Nat /\ (i < n + 1 <=> i < n \/ i = n) OBVIOUS
  <2>1. n \notin Passed(n, role) BY DEF Passed
  <2>2. CASE RoleIn(Items[n]) = role
    <3>1. Passed(n + 1, role) = Passed(n, role) \cup {n} BY <1>2, <2>0, <2>2 DEF Passed
    <3>2. Cardinality(Passed(n, role) \cup {n}) = Cardinality(Passed(n, role)) + 1
      BY <1>1, <2>1, FS_AddElement, Zenon
    <3> QED BY <2>2, <3>1, <3>2, Zenon
  <2>3. CASE RoleIn(Items[n]) # role
    <3>1. Passed(n + 1, role) = Passed(n, role) BY <2>0, <2>3 DEF Passed
    <3>2. Cardinality(Passed(n, role)) \in Nat BY <1>1, FS_CardinalityType
    <3> QED BY <2>3, <3>1, <3>2
  <2> QED BY <2>2, <2>3
<1> QED BY <1>1, <1>2

LEMMA InnerStep ==
  ASSUME ExtractTypes, SourceInv, IsJSON, NEW c \in RootedCalls(request.body),
         NEW rest \in Seq(InnerCalls), Make(c, rest)
  PROVE  todo' \in Seq(InnerCalls)
<1>1. c \in Calls /\ c.name # "values" /\ Rooted(request.body, c) BY DEF RootedCalls
<1>2. CallsOf(c) \in Seq(Calls) BY <1>1, CallsTyped
<1>3. \A i \in DOMAIN CallsOf(c) : CallsOf(c)[i].name \in {"text", "content", "part"}
  BY <1>1, CallsRooted
<1>4. \A i \in 1..Len(CallsOf(c)) : CallsOf(c)[i] \in InnerCalls BY <1>2, <1>3 DEF InnerCalls
<1>5. CallsOf(c) \in Seq(InnerCalls) BY <1>2, <1>4
<1> QED BY <1>5 DEF Make

LEMMA CountStep ==
  ExtractTypes /\ SourceInv /\ CountInv /\ [ExtractNext]_extractVars => CountInv'
<1>1. [ExtractNext]_extractVars => request' = request /\ Loop' = Loop /\ IsJSON' = IsJSON
  BY Zenon DEF ExtractNext, Begin, Iterate, Descend, Return, Make, extractVars, Loop, IsJSON
<1>2. [ExtractNext]_extractVars => ListRead' = ListRead BY <1>1 DEF ListRead
<1> SUFFICES ASSUME ExtractTypes, SourceInv, CountInv, [ExtractNext]_extractVars PROVE CountInv'
  OBVIOUS
<1>3. /\ extraction \in Extraction /\ extraction.excluded \in Counts /\ next \in Nat
      /\ todo \in Seq(Calls) /\ request \in Requests
      /\ Loop \in Seq(Calls) /\ DOMAIN Loop = 1..Len(Loop) /\ Len(Loop) \in Nat
  BY LoopTyped DEF ExtractTypes, Extraction
<1>4. IsJSON' => todo' \in Seq(InnerCalls)
  <2> SUFFICES ASSUME IsJSON PROVE todo' \in Seq(InnerCalls) BY <1>1, Zenon
  <2>0. todo \in Seq(InnerCalls) /\ todo \in Seq(RootedCalls(request.body)) BY DEF CountInv, SourceInv
  <2>1. CASE Iterate
    <3>1. next \in DOMAIN Loop /\ Make(Loop[next], <<>>) BY <2>1 DEF Iterate, Loop
    <3>2. Loop \in Seq(RootedCalls(request.body)) BY <1>3, LoopRooted
    <3>3. Loop[next] \in RootedCalls(request.body) /\ <<>> \in Seq(InnerCalls) BY <3>1, <3>2
    <3> QED BY <3>1, <3>3, InnerStep, Zenon
  <2>2. CASE Descend
    <3>1. todo # <<>> /\ Make(Head(todo), Tail(todo)) BY <2>2 DEF Descend
    <3>2. Head(todo) \in RootedCalls(request.body) /\ Tail(todo) \in Seq(InnerCalls) BY <2>0, <3>1
    <3> QED BY <3>1, <3>2, InnerStep, Zenon
  <2>3. CASE Begin \/ Return \/ UNCHANGED extractVars
    BY <2>0, <2>3 DEF Begin, Return, extractVars
  <2> QED BY <2>1, <2>2, <2>3 DEF ExtractNext
<1>5. ASSUME next' > 0, ListRead = "messages", ProtocolForPath(request.marks) # "gemini",
             NEW role \in ExcludedRoles
      PROVE  extraction'.excluded[role] = Cardinality(Passed(next', role)) + Top(request, role)
  <2>1. /\ Is(request.body, "object") /\ HasA(request.body, "messages", "array")
        /\ Listed(request.body, Loop, "messages")
           \/ (Field(request.body, "messages").items = <<>> /\ Loop = FieldCalls("field", request.body))
        /\ WalkOf(request).excluded[role] = Top(request, role)
    BY <1>5, ListReadLoop, Zenon
  <2>2. IsJSON BY <2>1, Zenon DEF IsJSON, JSONKinds, Is
  <2>3. Field(request.body, "messages") = request.body.fields["messages"]
    BY <2>1, Zenon DEF HasA, Field, Is, Null
  <2>4. Items \in Seq(JSON)
    <3>1. request.body \in JSON BY <1>3, <2>2, RequestWalk DEF IsJSON
    <3>2. Field(request.body, "messages") \in JSON BY <2>1, <3>1, JSONParts, Zenon DEF Is
    <3> QED BY <2>1, <2>3, <3>2, JSONParts, Zenon DEF HasA, Is, Items
  <2>5. ASSUME next > 0, extraction'.excluded = extraction.excluded, next' = next
        PROVE  extraction'.excluded[role] = Cardinality(Passed(next', role)) + Top(request, role)
    BY <1>5, <2>5 DEF CountInv
  <2>6. CASE Begin
    <3>1. next' = 1 /\ extraction'.excluded = WalkOf(request).excluded
      BY <1>3, <2>6 DEF Begin, Extraction
    <3>2. Passed(1, role) = {} BY <2>4 DEF Passed
    <3>3. Cardinality(Passed(next', role)) = 0 BY <3>1, <3>2, FS_EmptySet
    <3>4. Top(request, role) \in Nat /\ WalkOf(request).excluded[role] = Top(request, role)
      BY <2>1 DEF Top
    <3> QED BY <3>1, <3>3, <3>4
  <2>7. CASE Iterate
    <3>1. next \in DOMAIN Loop /\ next' = next + 1 /\ Make(Loop[next], <<>>)
      BY <2>7 DEF Iterate, Loop
    <3>2. extraction'.excluded = Count(extraction.excluded, CountOf(Loop[next]))
      <4>1. Loop[next] \in Calls /\ <<>> \in Seq(Calls) BY <1>3, <3>1
      <4> QED BY <3>1, <4>1, MakeTyped, Zenon
    <3>3. extraction'.excluded[role] = extraction.excluded[role]
                                       + (IF CountOf(Loop[next]) = role THEN 1 ELSE 0)
      BY <1>3, <3>2 DEF Count, Counts
    <3>4. extraction.excluded[role] = Cardinality(Passed(next, role)) + Top(request, role)
      <4>1. next > 0 BY <1>3, <3>1
      <4> QED BY <1>5, <4>1 DEF CountInv
    <3>5. Cardinality(Passed(next, role)) \in Nat /\ Top(request, role) \in Nat
      BY <1>3, <2>4, PassedFinite, FS_CardinalityType DEF Top
    <3>6. CASE Listed(request.body, Loop, "messages")
      <4>1. next \in DOMAIN Items /\ Loop[next].name = "message" /\ Loop[next].value = Items[next]
        BY <2>3, <3>1, <3>6 DEF Listed, Each, ListNames, Items, Call
      <4>2. CountOf(Loop[next]) = role <=> RoleIn(Items[next]) = role
        <5>1. CountOf(Loop[next]) = RoleCount(Items[next]) BY <4>1 DEF CountOf
        <5>2. CASE Is(Items[next], "object") BY <5>1, <5>2, UserRole, Zenon DEF RoleCount
        <5>3. CASE ~Is(Items[next], "object") BY <5>1, <5>3, Zenon DEF RoleCount, RoleIn
        <5> QED BY <5>2, <5>3
      <4>3. Cardinality(Passed(next + 1, role)) =
              Cardinality(Passed(next, role)) + (IF RoleIn(Items[next]) = role THEN 1 ELSE 0)
        BY <1>3, <2>4, <4>1, PassedFinite
      <4> QED BY <3>1, <3>3, <3>4, <3>5, <4>2, <4>3
    <3>7. CASE Field(request.body, "messages").items = <<>> /\ Loop = FieldCalls("field", request.body)
      <4>1. Loop[next].name = "field" BY <3>1, <3>7 DEF FieldCalls, Call
      <4>2. CountOf(Loop[next]) = "" /\ role # "" BY <4>1, Zenon DEF CountOf, ExcludedRoles
      <4>3. Items = <<>> BY <2>3, <3>7 DEF Items
      <4>4. Passed(next', role) = Passed(next, role) BY <4>3 DEF Passed
      <4>5. extraction'.excluded[role] = extraction.excluded[role] + 0 BY <3>3, <4>2, Zenon
      <4> QED BY <3>4, <3>5, <4>4, <4>5
    <3> QED BY <2>1, <3>6, <3>7, Zenon
  <2>8. CASE Descend
    <3>1. todo # <<>> /\ next' = next /\ Make(Head(todo), Tail(todo)) BY <2>8 DEF Descend
    <3>2. Head(todo) \in Calls /\ Tail(todo) \in Seq(Calls) BY <1>3, <3>1
    <3>3. extraction'.excluded = Count(extraction.excluded, CountOf(Head(todo)))
      BY <3>1, <3>2, MakeTyped, Zenon
    <3>4. Head(todo) \in InnerCalls
      <4>1. todo \in Seq(InnerCalls) BY <2>2 DEF CountInv
      <4> QED BY <3>1, <4>1
    <3>5. CountOf(Head(todo)) = "" BY <3>4, Zenon DEF InnerCalls, CountOf
    <3>6. extraction'.excluded[role] = extraction.excluded[role]
      BY <1>3, <3>3, <3>5, Zenon DEF Count, Counts, ExcludedRoles
    <3>7. next > 0 BY <1>5, <3>1
    <3>8. extraction.excluded[role] = Cardinality(Passed(next, role)) + Top(request, role)
      BY <1>5, <3>7 DEF CountInv
    <3> QED BY <3>1, <3>6, <3>8
  <2>9. CASE Return \/ UNCHANGED extractVars
    <3>1. extraction'.excluded = extraction.excluded /\ next' = next
      BY <1>3, <2>9 DEF Return, extractVars, Extraction
    <3> QED BY <1>5, <2>5, <3>1
  <2> QED BY <2>6, <2>7, <2>8, <2>9 DEF ExtractNext
<1>6. \A n, role : Passed(n, role)' = Passed(n', role) BY <1>1 DEF Passed, Items
<1> QED BY <1>1, <1>2, <1>4, <1>5, <1>6 DEF CountInv

LEMMA CountHolds == ExtractTypes /\ CountInv => CountsExact
<1> SUFFICES ASSUME ExtractTypes, CountInv, Extracted, ListRead = "messages",
                    ProtocolForPath(request.marks) # "gemini", NEW role \in ExcludedRoles
             PROVE  extraction.excluded[role] =
                      Cardinality({i \in DOMAIN Items : RoleIn(Items[i]) = role}) + Top(request, role)
  BY DEF CountsExact, Items, Top
<1>1. next = Len(Loop) + 1 /\ Loop \in Seq(Calls) BY RequestWalk DEF ExtractTypes, Loop
<1>2. Listed(request.body, Loop, "messages") \/ Field(request.body, "messages").items = <<>>
  BY ListReadLoop
<1>3. Field(request.body, "messages") = request.body.fields["messages"]
  BY ListReadLoop DEF HasA, Field, Is, Null
<1>4. DOMAIN Items = DOMAIN Loop \/ DOMAIN Items = {}
  <2>1. CASE Listed(request.body, Loop, "messages") BY <1>3, <2>1 DEF Listed, Each, Items
  <2>2. CASE Field(request.body, "messages").items = <<>> BY <1>3, <2>2 DEF Items
  <2> QED BY <1>2, <2>1, <2>2
<1>5. \A i \in DOMAIN Items : i < next BY <1>1, <1>4
<1>6. Passed(next, role) = {i \in DOMAIN Items : RoleIn(Items[i]) = role} BY <1>5 DEF Passed
<1>7. next > 0 BY <1>1
<1> QED BY <1>6, <1>7, Zenon DEF CountInv

-----------------------------------------------------------------------------
ExtractInv == ExtractTypes /\ SourceInv /\ VoiceInv /\ OrderInv /\ CoverInv /\ CountInv

LEMMA InvInit == ExtractInit => ExtractInv
<1> SUFFICES ASSUME ExtractInit PROVE ExtractInv OBVIOUS
<1>1. next = 0 /\ todo = <<>> /\ extraction.messages = <<>> BY DEF ExtractInit, Waiting
<1>2. CountInv BY <1>1 DEF CountInv
<1>3. OrderInv BY <1>1 DEF OrderInv, Sorted, Precedes
<1> QED BY <1>2, <1>3, WalkInit, CoverInit DEF ExtractInv

LEMMA InvStep == ExtractInv /\ [ExtractNext]_extractVars => ExtractInv'
BY TypesStep, SourceStep, VoiceStep, OrderStep, CoverStep, CountStep DEF ExtractInv

\* For every body nothing of another role or of an instruction field is recorded, and
\* excluded_role_counts counts every message of an excluded role.
THEOREM ExcludedTheorem == ExtractSpec => []ExcludedCountedNotRecorded
<1>1. ExtractInv => ExcludedCountedNotRecorded
  BY VoiceHolds, CountHolds DEF ExtractInv, ExcludedCountedNotRecorded
<1> QED BY <1>1, InvInit, InvStep, PTL DEF ExtractSpec

\* For every body the words of the users are recorded, each once, in their order.
THEOREM RecordedTheorem == ExtractSpec => []UserTextRecorded
<1>1. ExtractInv => UserTextRecorded BY RecordedHolds DEF ExtractInv
<1> QED BY <1>1, InvInit, InvStep, PTL DEF ExtractSpec
=============================================================================
