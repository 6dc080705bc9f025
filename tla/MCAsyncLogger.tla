---------------------------- MODULE MCAsyncLogger ----------------------------
(* AsyncLogger for TLC: the constants are values of the cfg.                *)
EXTENDS AsyncLogger
=============================================================================
