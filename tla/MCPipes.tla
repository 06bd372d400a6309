------------------------------- MODULE MCPipes -------------------------------
(* Pipes with two handlers where they share something, the pool or a local     *)
(* connection, and with one otherwise.                                         *)
EXTENDS Pipes

Two(x, y) == [p \in Pipe |-> IF p = 1 THEN x ELSE y]
MCScenario == {Two("http3", "quic"), Two("local", "local"), Two("simple", "forwarder"),
               Two("nilpool", "none")}
==============================================================================
