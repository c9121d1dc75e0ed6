------------------------------ MODULE AuditLog ------------------------------
(***************************************************************************)
(* What the audit queue promises its callers, without locks, attempts or   *)
(* contexts: accepted records wait in one line of bounded length; one at a *)
(* time is taken from its front, stored at most once, and left; a record   *)
(* is refused, and counted, exactly when the line is full or shut.         *)
(* Storing is best effort: a record may be left unstored.                  *)
(***************************************************************************)
EXTENDS Naturals, Sequences

CONSTANTS
  Records,
  NoRecord,
  Capacity    \* the records that fit in the line

VARIABLES
  seen,       \* the records that were accepted or refused
  line,       \* the records that wait
  current,    \* the one taken from the line, NoRecord if there is none
  stored,     \* the records in the table
  dropped,    \* the number of refusals
  shut        \* nothing is accepted any more

vars == <<seen, line, current, stored, dropped, shut>>

Init ==
  /\ seen = {} /\ line = <<>> /\ current = NoRecord
  /\ stored = {} /\ dropped = 0 /\ shut = FALSE

Full == Len(line) >= Capacity

Accept(r) ==
  /\ r \notin seen /\ ~shut /\ ~Full
  /\ seen' = seen \cup {r}
  /\ line' = Append(line, r)
  /\ UNCHANGED <<current, stored, dropped, shut>>

Refuse(r) ==
  /\ r \notin seen /\ (shut \/ Full)
  /\ seen' = seen \cup {r}
  /\ dropped' = dropped + 1
  /\ UNCHANGED <<line, current, stored, shut>>

Take ==
  /\ current = NoRecord /\ line # <<>>
  /\ current' = Head(line) /\ line' = Tail(line)
  /\ UNCHANGED <<seen, stored, dropped, shut>>

\* The record at hand is stored; it may stay, its outcome unknown.
Store ==
  /\ current # NoRecord /\ current \notin stored
  /\ stored' = stored \cup {current}
  /\ current' \in {current, NoRecord}
  /\ UNCHANGED <<seen, line, dropped, shut>>

Leave ==
  /\ current # NoRecord /\ current' = NoRecord
  /\ UNCHANGED <<seen, line, stored, dropped, shut>>

Shut ==
  /\ shut' = TRUE
  /\ UNCHANGED <<seen, line, current, stored, dropped>>

Next == Take \/ Store \/ Leave \/ Shut \/ \E r \in Records : Accept(r) \/ Refuse(r)

Spec == Init /\ [][Next]_vars
=============================================================================
