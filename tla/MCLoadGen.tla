------------------------------ MODULE MCLoadGen ------------------------------
(* Values of the constants of LoadGen for TLC.                              *)
EXTENDS LoadGen

SomeSizes == {0, 2}
=============================================================================
