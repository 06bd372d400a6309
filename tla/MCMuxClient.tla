---------------------------- MODULE MCMuxClient ----------------------------
(* The client with at most three connections. *)
EXTENDS MuxClient
=============================================================================
