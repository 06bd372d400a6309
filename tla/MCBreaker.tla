------------------------------ MODULE MCBreaker ------------------------------
(* Three callers; half-open lets MaxRequests + 1 = 2 requests through, which is *)
(* just enough for the 2 successes it asks for.                                 *)
EXTENDS Breaker
=============================================================================
