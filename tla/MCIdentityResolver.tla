------------------------- MODULE MCIdentityResolver -------------------------
(* Two users with one key between them, in any of the headers or in none; two *)
(* requests, or two frames of one WebSocket, with ids of their own or one id. *)
EXTENDS IdentityResolver

MCHeaders ==
  {[h \in {"bearer", "apiKey", "googKey"} |-> IF h \in sent THEN k ELSE NoKey] :
     k \in Keys, sent \in SUBSET {"bearer", "apiKey", "googKey"}}
=============================================================================
