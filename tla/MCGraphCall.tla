---------------------------- MODULE MCGraphCall ----------------------------
(***************************************************************************)
(* Small instances of GraphCall: the listener and the asynchronous daemon  *)
(* use the same connection.                                                *)
(***************************************************************************)
EXTENDS GraphCall

CONSTANTS listener, daemon

=============================================================================
