--------------------------- MODULE MCClientConns ---------------------------
(* One connection of a NEWCONN message, one of a data stream, two control loops. *)
EXTENDS ClientConns
=============================================================================
