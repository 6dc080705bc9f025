---------------------------- MODULE MCReminderLog ----------------------------
(* ReminderLog for TLC: the constants are values of the cfg.                *)
EXTENDS ReminderLog
=============================================================================
