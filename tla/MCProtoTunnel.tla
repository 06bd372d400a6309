---------------------------- MODULE MCProtoTunnel ----------------------------
(* Two handlers and two descriptors: a second connection gets the numbers of   *)
(* the first one once it is closed, and none to dial with before.              *)
EXTENDS ProtoTunnel

M(kind, how) == [kind |-> kind, how |-> how]
Two(x, y) == [c \in Conn |-> IF c = 1 THEN x ELSE y]
MCScenario == {Two(M("tunnel", "splice"), M("tunnel", "splice")),
               Two(M("tunnel", "splice"), M("pair", "splice")),
               Two(M("tunnel", "buffer"), M("pair", "buffer"))}
==============================================================================
