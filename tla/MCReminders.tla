---------------------------- MODULE MCReminders ----------------------------
(* Reminders for TLC.                                                       *)
EXTENDS Reminders
=============================================================================
