-------------------------- MODULE MCTunnelListener --------------------------
EXTENDS TunnelListener, TLC

CONSTANTS t1, t2

\* Tunnels that compete for one port number on different networks.
OneEach == (t1 :> "tcp") @@ (t2 :> "quic")
=============================================================================
