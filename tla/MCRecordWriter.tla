--------------------------- MODULE MCRecordWriter ---------------------------
(* The worker, the bootstrap and an admin request at the gate; the two pauses *)
(* of one and two ticks end before the gate asks again.                       *)
EXTENDS RecordWriter
=============================================================================
