--------------------------- MODULE MCQuorumClient ---------------------------
(* Values of the constants of QuorumClient for TLC.                         *)
EXTENDS QuorumClient

SomeQuorums == {-1, 1, 4}
WithRetry   == {TRUE}
SomeInputs  == {<<{}, {}, {}>>, <<{1}, {}, {3}>>}
=============================================================================
