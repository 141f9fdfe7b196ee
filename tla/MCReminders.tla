---------------------------- MODULE MCReminders ----------------------------
(* A small instance of the reminders for TLC. *)
EXTENDS Reminders, TLC

CONSTANTS i1, i2
=============================================================================
