---------------------------- MODULE MCMuxServer ----------------------------
EXTENDS MuxServer, TLC

CONSTANTS a, d

Reg(id, proto, domain) == [kind |-> "register", id |-> id, proto |-> proto, domain |-> domain]
Res(id, proto)         == [kind |-> "restore", id |-> id, proto |-> proto, domain |-> Nil]

\* One client that reconnects under its ID, by registering (with a port or
\* without) or by restoring.
OneClient == {Reg(a, "TCP", d), Reg(a, "HTTP2", d), Res(a, "TCP")}

\* Registrations that need neither a port nor a domain.
WebRegistrations == {Reg(a, "HTTP2", Nil)}

Symmetry == Permutations(Session)
=============================================================================
