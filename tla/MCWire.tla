------------------------------- MODULE MCWire -------------------------------
(* Wire with two connections, real IDs of sixteen hexadecimal digits, and    *)
(* registrations of a TCP tunnel with a domain and of a QUIC tunnel with an  *)
(* ID longer than one byte counts; the QUIC client may restore its session.  *)
EXTENDS Wire

Hex(c) == [i \in 1 .. 16 |-> IF i = 16 THEN c ELSE 48 + (i % 10)]
MCConnID == {Hex(97), Hex(98)}
MCRemote == <<49, 46, 49, 46, 49, 46, 49, 58, 49>>      \* "1.1.1.1:1"
MCPublicURL == <<116, 58, 56, 48>>                      \* "t:80"
MCPayload == buildNewConnMessage(<<97>>, <<>>)          \* reads as a message itself
TCPTunnel ==
    [id |-> <<116, 49>>, proto |-> 1, addr |-> <<49, 46, 48, 46, 48, 46, 50, 58, 57>>,
     domain |-> <<100, 46, 99>>, token |-> <<107>>]
QUICTunnel ==
    [id |-> [i \in 1 .. 300 |-> 97], proto |-> 3, addr |-> <<108, 58, 57>>,
     domain |-> <<>>, token |-> <<>>]
MCRequest ==
    {[reg |-> TCPTunnel, restore |-> FALSE],
     [reg |-> QUICTunnel, restore |-> FALSE],
     [reg |-> QUICTunnel, restore |-> TRUE]}
=============================================================================
