------------------------------- MODULE Prompt -------------------------------
(***************************************************************************)
(* The prompt text of a record, from finalize and truncateUTF8 of          *)
(* model.go: the messages joined and cut to MaxPromptBytes.  A text is a   *)
(* sequence of runes as range decodes them: each takes some bytes and is   *)
(* counted with the size of its encoding, which for an invalid byte is the *)
(* three bytes of U+FFFD.                                                  *)
(***************************************************************************)
EXTENDS Integers, Sequences

CONSTANTS
  Runes,       \* [bytes, size, space]
  Values,      \* joined texts
  PromptLimits \* values of maxPromptBytes

ASSUME RunesAssumption ==
  /\ Runes \subseteq [bytes : 1..4, size : 1..4, space : BOOLEAN]
  /\ \A r \in Runes : r.bytes <= r.size
  /\ Values \subseteq Seq(Runes) /\ PromptLimits \subseteq Int

VARIABLES
  value, max,          \* fullPrompt and maxPromptBytes
  truncated,
  tpc, cursor,         \* the loop of truncateUTF8 and the rune it looks at
  index, size, end     \* its variables; the prompt text is value[:end]

promptVars == <<value, max, truncated, tpc, cursor, index, size, end>>

\* The length in bytes of the first n runes.
Offset(v, n) ==
  LET sum[i \in 0..Len(v)] == IF i = 0 THEN 0 ELSE sum[i - 1] + v[i].bytes
  IN  sum[n]
Length(v) == Offset(v, Len(v))

PromptInit ==
  /\ value \in Values /\ max \in PromptLimits
  /\ truncated = FALSE
  /\ tpc = "finalize" /\ cursor = 1 /\ index = 0 /\ size = 0 /\ end = 0

\* maxBytes <= 0 || len([]byte(value)) <= maxBytes
Short(v) == max <= 0 \/ Length(v) <= max

Finalize ==
  /\ tpc = "finalize"
  /\ truncated' = ~Short(value)
  /\ IF Short(value) THEN tpc' = "done" /\ end' = Length(value)
                     ELSE tpc' = "range" /\ end' = end
  /\ UNCHANGED <<value, max, cursor, index, size>>

\* Slip: the rune that reaches the limit is dropped.
Fits_Below(r) == size + r.size < max

\* Slip: the limit is compared before the rune is counted.
Fits_Before(r) == size < max

Fits(r) == size + r.size <= max

\* end = index + runeSize
EndAfter(r) == index + r.size

\* One turn of the loop that does not break.
Take ==
  /\ tpc = "range" /\ cursor <= Len(value) /\ Fits(value[cursor])
  /\ size' = size + value[cursor].size /\ end' = EndAfter(value[cursor])
  /\ index' = index + value[cursor].bytes /\ cursor' = cursor + 1
  /\ UNCHANGED <<value, max, truncated, tpc>>

\* break, or the end of the range
Leave ==
  /\ tpc = "range" /\ (cursor <= Len(value) => ~Fits(value[cursor]))
  /\ tpc' = "done"
  /\ UNCHANGED <<value, max, truncated, cursor, index, size, end>>

PromptNext == Finalize \/ Take \/ Leave

PromptSpec == PromptInit /\ [][PromptNext]_promptVars

-----------------------------------------------------------------------------
(* Properties *)

Valid == \A n \in DOMAIN value : value[n].bytes = value[n].size

\* The prompt never exceeds MaxPromptBytes, also when bytes that are no UTF-8 are
\* counted as three each.
WithinLimit == max > 0 => end <= max

\* value[:end] never slices past the end of the text, where Go would panic.
SliceInRange == tpc # "finalize" => end \in 0..Length(value)

\* Of valid UTF-8 the prompt is the longest run of whole characters that fits.
WholeRunes ==
  tpc = "done" /\ truncated /\ Valid =>
    \E n \in 0..Len(value) - 1 : Offset(value, n) = end /\ Offset(value, n + 1) > max
=============================================================================
