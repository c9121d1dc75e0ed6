--------------------------- MODULE MCRecordQueue ---------------------------
(* Records of users that are not known yet, without a message: the first flag *)
(* lets the user through, the second the missing text, and each run has one.  *)
EXTENDS RecordQueue

UnknownAndEmpty == {[known |-> FALSE, empty |-> TRUE]}
OneFlag == {f \in Flags : f.AllowUnknownIdentity # f.CaptureEmptyPrompts}
=============================================================================
