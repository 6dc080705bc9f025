---------------------------- MODULE MCOrChannel ----------------------------
(* OrChannel for TLC: the constants are plain values of the cfg.            *)
EXTENDS OrChannel
=============================================================================
