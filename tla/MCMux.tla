-------------------------------- MODULE MCMux --------------------------------
(* Mux with two connections over two IDs, so that an ID may be used again, and *)
(* a payload that holds the delimiters of the text format and is a message,    *)
(* with a negative length, where a read begins with it.                        *)
EXTENDS Mux

MCID == {<<97>>, <<98>>}
MCData == {<<68, 65, 84, 65, 58, 58, 45, 49, 58, 10>>}     \* "DATA::-1:\n"
==============================================================================
