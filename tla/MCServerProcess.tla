--------------------------- MODULE MCServerProcess ---------------------------
(* Values of the constants of ServerProcess for TLC.                        *)
EXTENDS ServerProcess

SomeStarts == {0, 4}
=============================================================================
