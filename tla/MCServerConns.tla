---------------------------- MODULE MCServerConns ----------------------------
EXTENDS ServerConns, TLC

CONSTANTS x1, x2

OneOfEach == (x1 :> "tcp") @@ (x2 :> "domain")
=============================================================================
