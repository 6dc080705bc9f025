---------------------------- MODULE MCReminders ----------------------------
(* Reminders for TLC: the constants are values of the cfg.                  *)
EXTENDS Reminders
=============================================================================
