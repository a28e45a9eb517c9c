---------------------------- MODULE MCSchedules ----------------------------
(* A small instance of Schedules, see MCSchedules.cfg. *)
EXTENDS Schedules
=============================================================================
