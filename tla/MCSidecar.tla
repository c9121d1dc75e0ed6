----------------------------- MODULE MCSidecar -----------------------------
(* Two servers, one request on each, and a WebSocket connection. *)
EXTENDS Sidecar, TLC

CONSTANTS http, https, socket

\* A record persist stores, under the default flags.
OneInput == {[known |-> TRUE, empty |-> FALSE]}
DefaultConfig == {[AllowUnknownIdentity |-> FALSE, CaptureEmptyPrompts |-> FALSE]}

MCServerOf == (http :> 1) @@ (https :> 2) @@ (socket :> 1)
=============================================================================
