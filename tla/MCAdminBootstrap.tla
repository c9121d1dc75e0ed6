------------------------- MODULE MCAdminBootstrap -------------------------
(* Three processes on one audit database; the operator resets it once. *)
EXTENDS AdminBootstrap
=============================================================================
